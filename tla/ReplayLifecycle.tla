-------------------------- MODULE ReplayLifecycle --------------------------
(***************************************************************************)
(* What a replay session promises to its callers, with no worker, lease,   *)
(* row version or checkpoint in sight: a status that only moves along the  *)
(* documented transition graph, and a count of committed timestamp groups  *)
(* that grows by one at a time, never while a pause or a cancel is         *)
(* pending, and is full when the session completes.  ReplaySession.tla     *)
(* implements it.                                                          *)
(***************************************************************************)
EXTENDS Naturals

CONSTANT Groups              \* number of timestamp groups of the dataset

VARIABLES status, processed

vars == <<status, processed>>

Statuses == {"created", "validating", "ready", "running", "pausing", "paused",
             "resuming", "cancelling", "cancelled", "completed", "failed",
             "recovering"}

(* TRANSITIONS of state_machine.py.                                         *)
Transitions ==
  [ created    |-> {"validating"},
    validating |-> {"ready", "failed"},
    ready      |-> {"running", "cancelling"},
    running    |-> {"pausing", "cancelling", "completed", "failed"},
    pausing    |-> {"paused", "failed"},
    paused     |-> {"resuming", "cancelling"},
    resuming   |-> {"running", "failed"},
    cancelling |-> {"cancelled", "failed"},
    failed     |-> {"recovering"},
    recovering |-> {"ready", "failed"},
    cancelled  |-> {},
    completed  |-> {} ]

Init == status = "created" /\ processed = 0

(* A group is committed.  A failed session may still advance: a worker that *)
(* holds the lease is not told that a predecessor failed the session.       *)
Advance ==
  /\ status \in {"running", "failed"}
  /\ processed < Groups
  /\ processed' = processed + 1
  /\ UNCHANGED status

Move ==
  /\ status' \in Transitions[status]
  /\ status' # "recovering"        \* no code path enters it
  /\ status' = "completed" => processed = Groups
  /\ UNCHANGED processed

Next == Advance \/ Move

Spec == Init /\ [][Next]_vars
=============================================================================
