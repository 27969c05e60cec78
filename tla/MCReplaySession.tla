-------------------------- MODULE MCReplaySession --------------------------
(* Constants for model checking ReplaySession. *)
EXTENDS ReplaySession

CONSTANTS MaxCalls, MaxCrashes, MaxErrors, MaxOverruns

MCLimit == [calls |-> MaxCalls, crashes |-> MaxCrashes, errors |-> MaxErrors,
            overruns |-> MaxOverruns]
=============================================================================
