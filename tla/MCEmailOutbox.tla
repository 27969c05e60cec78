--------------------------- MODULE MCEmailOutbox ---------------------------
(* Constants for model checking EmailOutbox. *)
EXTENDS EmailOutbox

CONSTANTS MaxCrashes, MaxStalls, MaxLostReplies, MaxDbErrors

MCLimit == [crashes |-> MaxCrashes, stalls |-> MaxStalls,
            lostReplies |-> MaxLostReplies, dbErrors |-> MaxDbErrors]
=============================================================================
