-------------------------- MODULE MCReasoningClaim --------------------------
(* Constants for model checking ReasoningClaim. *)
EXTENDS ReasoningClaim

CONSTANTS AtMostOnce  \* the faults that may happen, each once

MCLimit == [f \in Faults |-> IF f \in AtMostOnce THEN 1 ELSE 0]
=============================================================================
