---------------------------- MODULE MCCandlePath ----------------------------
(***************************************************************************)
(* Model checking of CandlePath: process p1 runs a worker loop and a       *)
(* manual dispatch, p2 another worker loop.                                *)
(***************************************************************************)
EXTENDS CandlePath

CONSTANTS worker, dispatch, other, p1, p2

MCTasks == {worker, dispatch, other}
MCPollers == {worker, other}
MCHome == [t \in MCTasks |-> IF t = other THEN p2 ELSE p1]

(* Each fault at most once, or as often as all together. *)
MCCandleLimit == [f \in {"crashes", "overruns", "errors", "exhaustions"} |-> 1]
MCAttemptLimit == [f \in {"crashes", "errors", "lookups", "redeliveries"} |-> AttemptFaults]
=============================================================================
