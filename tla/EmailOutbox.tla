---------------------------- MODULE EmailOutbox ----------------------------
(***************************************************************************)
(* The durable e-mail outbox of signal_notifications/service.py.  The      *)
(* integration pipeline publishes a selection and enqueues its e-mail in   *)
(* one transaction; worker processes claim due rows in batches, send them  *)
(* over SMTP and mark the outcome.  A row left in PROCESSING for five      *)
(* minutes may be claimed again, whether its worker died or is only slow.  *)
(***************************************************************************)
EXTENDS Naturals, Sequences, FiniteSets

CONSTANTS
  Events,        \* selections whose e-mail may be enqueued
  Orphans,       \* those published before, whose outbox row is missing
  Workers,       \* processes running SignalEmailWorker
  BatchLimit,    \* rows of one claim
  MaxAttempts,   \* signal_email_max_attempts
  Limit          \* bounds on the faults of a behaviour

Faults == {"crashes", "stalls", "lostReplies", "dbErrors"}

ASSUME EventsAssumption == Orphans \subseteq Events
ASSUME WorkersAssumption == IsFiniteSet(Workers)
ASSUME BoundsAssumption ==
  /\ BatchLimit \in Nat \ {0} /\ MaxAttempts \in Nat \ {0}
  /\ Limit \in [Faults -> Nat]

VARIABLES
  enqueued,   \* primary_scenario_publications says that an e-mail is wanted
  created,    \* the outbox rows, oldest first
  status,     \* of each outbox row; "none": there is no row
  attempts,   \* attempt_count
  due,        \* next_retry_at <= now
  stale,      \* processing_started_at is more than five minutes ago
  batch,      \* the claimed rows a worker has still to deliver
  pc,         \* "poll", "send", "sent" or "failed": where each worker is
  sent,       \* how often the mail server accepted the e-mail
  tries,      \* how often it was handed to the mail server
  used        \* how much of Limit is spent

rows == <<created, status, attempts, due, stale>>
vars == <<enqueued, created, status, attempts, due, stale, batch, pc,
          sent, tries, used>>

Statuses == {"none", "PENDING", "PROCESSING", "SENT", "FAILED", "PERMANENTLY_FAILED"}
Final == {"SENT", "PERMANENTLY_FAILED"}

Spend(fault) ==
  /\ used[fault] < Limit[fault]
  /\ used' = [used EXCEPT ![fault] = @ + 1]

Held(e) == \E w \in Workers : \E i \in 1..Len(batch[w]) : batch[w][i].event = e

-----------------------------------------------------------------------------
(* Publication.                                                             *)

(* INSERT ... ON CONFLICT DO NOTHING of a PENDING row that is due at once.  *)
Missing_Always(e) == TRUE           \* deviation: the conflict is not ignored
Missing(e) == status[e] = "none"
Enqueue(e) ==
  IF Missing(e)
    THEN /\ created' = Append(created, e)
         /\ status' = [status EXCEPT ![e] = "PENDING"]
         /\ attempts' = [attempts EXCEPT ![e] = 0]
         /\ due' = [due EXCEPT ![e] = TRUE]
         /\ UNCHANGED stale
    ELSE UNCHANGED rows

(* The pipeline delivers its items at least once, so a selection may be     *)
(* evaluated again, while its e-mail is in any state.                       *)
Evaluate(e) ==
  /\ enqueued' = enqueued \cup {e}
  /\ Enqueue(e)
  /\ UNCHANGED <<batch, pc, sent, tries, used>>

(* Before a claim a worker repairs publications whose row is missing.       *)
Wanted(e) == e \in enqueued
Reconcile(w, e) ==
  /\ pc[w] = "poll"
  /\ Wanted(e) /\ status[e] = "none"
  /\ Enqueue(e)
  /\ UNCHANGED <<enqueued, batch, pc, sent, tries, used>>

-----------------------------------------------------------------------------
(* Delivery.                                                                *)

Reclaimable_Never(e) == FALSE                       \* deviation: dead claims stay
Reclaimable_Any(e) == status[e] = "PROCESSING"      \* deviation: age ignored
Reclaimable(e) == status[e] = "PROCESSING" /\ stale[e]
Claimable(e) == due[e] /\ (status[e] \in {"PENDING", "FAILED"} \/ Reclaimable(e))

(* The places in created of the oldest claimable rows.                      *)
Ready == { i \in 1..Len(created) : Claimable(created[i]) }
Oldest == { i \in Ready : Cardinality({ j \in Ready : j <= i }) <= BatchLimit }

(* They are claimed in one transaction (FOR UPDATE SKIP LOCKED), in order.  *)
Claim(w) ==
  /\ pc[w] = "poll"
  /\ Ready # {}
  /\ LET taken == { created[i] : i \in Oldest }
     IN /\ status' = [e \in Events |-> IF e \in taken THEN "PROCESSING" ELSE status[e]]
        /\ attempts' = [e \in Events |-> IF e \in taken THEN attempts[e] + 1 ELSE attempts[e]]
        /\ stale' = [e \in Events |-> stale[e] /\ e \notin taken]
  /\ \E place \in [1..Cardinality(Oldest) -> Oldest] :
       /\ \A i, j \in DOMAIN place : i < j => place[i] < place[j]
       /\ batch' = [batch EXCEPT ![w] =
            [i \in DOMAIN place |-> [event |-> created[place[i]],
                                    attempt |-> attempts[created[place[i]]] + 1]]]
  /\ pc' = [pc EXCEPT ![w] = "send"]
  /\ UNCHANGED <<enqueued, created, due, sent, tries, used>>

(* SMTP: accepted, rejected, or accepted but the reply never arrives.       *)
Send(w) ==
  LET e == Head(batch[w]).event
  IN /\ pc[w] = "send"
     /\ tries' = [tries EXCEPT ![e] = @ + 1]
     /\ \/ /\ sent' = [sent EXCEPT ![e] = @ + 1]
           /\ pc' = [pc EXCEPT ![w] = "sent"]
           /\ UNCHANGED used
        \/ /\ pc' = [pc EXCEPT ![w] = "failed"]
           /\ UNCHANGED <<sent, used>>
        \/ /\ Spend("lostReplies")
           /\ sent' = [sent EXCEPT ![e] = @ + 1]
           /\ pc' = [pc EXCEPT ![w] = "failed"]
     /\ UNCHANGED <<enqueued, rows, batch>>

NextEvent(w) ==
  /\ batch' = [batch EXCEPT ![w] = Tail(@)]
  /\ pc' = [pc EXCEPT ![w] = IF Len(batch[w]) = 1 THEN "poll" ELSE "send"]

(* UPDATE ... WHERE status = 'PROCESSING': nothing says whose claim it is.  *)
Markable_Any(e) == TRUE                       \* deviation: no status guard
Markable(e) == status[e] = "PROCESSING"

MarkSent(w) ==
  LET e == Head(batch[w]).event
  IN /\ pc[w] = "sent"
     /\ status' = [status EXCEPT ![e] = IF Markable(e) THEN "SENT" ELSE @]
     /\ NextEvent(w)
     /\ UNCHANGED <<enqueued, created, attempts, due, stale, sent, tries, used>>

Terminal_Late(n) == n > MaxAttempts           \* deviation: off by one
Terminal(n) == n >= MaxAttempts

MarkFailed(w) ==
  LET c == Head(batch[w])
      e == c.event
  IN /\ pc[w] = "failed"
     /\ IF Markable(e)
          THEN /\ status' = [status EXCEPT ![e] = IF Terminal(c.attempt)
                                                    THEN "PERMANENTLY_FAILED" ELSE "FAILED"]
               /\ attempts' = [attempts EXCEPT ![e] = c.attempt]
               /\ due' = [due EXCEPT ![e] = FALSE]
               /\ stale' = [stale EXCEPT ![e] = FALSE]
               /\ UNCHANGED created
          ELSE UNCHANGED rows
     /\ NextEvent(w)
     /\ UNCHANGED <<enqueued, sent, tries, used>>

(* The database fails: after a send that counts as a failure of the e-mail; *)
(* in the failure handler itself it ends the batch.                         *)
DbError(w) ==
  /\ Spend("dbErrors")
  /\ \/ pc[w] = "sent" /\ pc' = [pc EXCEPT ![w] = "failed"] /\ UNCHANGED batch
     \/ /\ pc[w] = "failed"
        /\ pc' = [pc EXCEPT ![w] = "poll"]
        /\ batch' = [batch EXCEPT ![w] = << >>]
  /\ UNCHANGED <<enqueued, rows, sent, tries>>

(* A process dies and is started again. *)
Crash(w) ==
  /\ pc[w] # "poll"
  /\ Spend("crashes")
  /\ pc' = [pc EXCEPT ![w] = "poll"]
  /\ batch' = [batch EXCEPT ![w] = << >>]
  /\ UNCHANGED <<enqueued, rows, sent, tries>>

(* Time: a retry becomes due; a claim gets old, which counts as a stall     *)
(* while its worker is still on the way to deliver it.                      *)
RetryDue(e) ==
  /\ status[e] = "FAILED" /\ ~due[e]
  /\ due' = [due EXCEPT ![e] = TRUE]
  /\ UNCHANGED <<enqueued, created, status, attempts, stale, batch, pc, sent, tries, used>>

GetStale(e) ==
  /\ status[e] = "PROCESSING" /\ ~stale[e]
  /\ IF Held(e) THEN Spend("stalls") ELSE UNCHANGED used
  /\ stale' = [stale EXCEPT ![e] = TRUE]
  /\ UNCHANGED <<enqueued, created, status, attempts, due, batch, pc, sent, tries>>

-----------------------------------------------------------------------------
Init ==
  /\ enqueued = Orphans
  /\ created = << >>
  /\ status = [e \in Events |-> "none"]
  /\ attempts = [e \in Events |-> 0]
  /\ due = [e \in Events |-> FALSE]
  /\ stale = [e \in Events |-> FALSE]
  /\ batch = [w \in Workers |-> << >>]
  /\ pc = [w \in Workers |-> "poll"]
  /\ sent = [e \in Events |-> 0]
  /\ tries = [e \in Events |-> 0]
  /\ used = [f \in Faults |-> 0]

Work(w) ==
  \/ \E e \in Events : Reconcile(w, e)
  \/ Claim(w) \/ Send(w) \/ MarkSent(w) \/ MarkFailed(w)

Next ==
  \/ \E e \in Events : Evaluate(e) \/ RetryDue(e) \/ GetStale(e)
  \/ \E w \in Workers : Work(w) \/ DbError(w) \/ Crash(w)

Spec == Init /\ [][Next]_vars

(* The worker loop never ends on an exception, and time passes. *)
Fairness ==
  /\ \A w \in Workers : WF_vars(Work(w))
  /\ \A e \in Events : WF_vars(RetryDue(e)) /\ WF_vars(GetStale(e))

FairSpec == Spec /\ Fairness

-----------------------------------------------------------------------------
(* Properties.                                                              *)

(* Types; and every selection has at most one outbox row.                   *)
TypeOK ==
  /\ enqueued \subseteq Events
  /\ created \in Seq(Events)
  /\ \A e \in Events :
       Cardinality({ i \in 1..Len(created) : created[i] = e })
         = IF status[e] = "none" THEN 0 ELSE 1
  /\ status \in [Events -> Statuses]
  /\ attempts \in [Events -> Nat]
  /\ due \in [Events -> BOOLEAN] /\ stale \in [Events -> BOOLEAN]
  /\ batch \in [Workers -> Seq([event : Events, attempt : Nat \ {0}])]
  /\ pc \in [Workers -> {"poll", "send", "sent", "failed"}]
  /\ sent \in [Events -> Nat] /\ tries \in [Events -> Nat]
  /\ used \in [Faults -> Nat]

FaultsSoFar == used["crashes"] + used["stalls"] + used["lostReplies"] + used["dbErrors"]

(* A second copy of an e-mail takes a fault: a process that died or lost    *)
(* the database between sending and marking, a reply that got lost, or a    *)
(* batch slower than five minutes (signal_notifications/service.py:474).    *)
DuplicatesCostFaults == \A e \in Events : sent[e] <= 1 + FaultsSoFar

(* What the row says is true of the mail: an e-mail is given up on only     *)
(* after max_attempts claims; and as long as nothing was lost, slow or dead *)
(* it was tried no more often than that, and a failed one was not accepted. *)
StatusIsTrue ==
  \A e \in Events :
    /\ status[e] = "PERMANENTLY_FAILED" => attempts[e] >= MaxAttempts
    /\ FaultsSoFar = 0 => tries[e] <= MaxAttempts
    /\ status[e] \in {"FAILED", "PERMANENTLY_FAILED"} /\ FaultsSoFar = 0 => sent[e] = 0

Meaning(s) ==
  CASE s = "none"                                 -> "absent"
    [] s \in {"PENDING", "PROCESSING", "FAILED"}   -> "waiting"
    [] s = "SENT"                                 -> "settled"
    [] s = "PERMANENTLY_FAILED"                   -> "abandoned"

Outbox == INSTANCE Delivery WITH
  Items <- Events,
  state <- [e \in Events |-> Meaning(status[e])],
  handled <- { e \in Events : sent[e] > 0 }

(* The rows deliver: what a slow worker, a reclaimed row or a second        *)
(* evaluation of a selection does never makes an e-mail SENT that no server *)
(* accepted, nor touches a delivered or abandoned one again.                *)
Delivers == Outbox!Spec

(* Every e-mail that is wanted is delivered or given up, although workers   *)
(* die, although its row may have been missing, although any send may fail. *)
EventuallyFinal == \A e \in Events : (e \in enqueued) ~> (status[e] \in Final)
=============================================================================
