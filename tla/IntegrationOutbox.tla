------------------------- MODULE IntegrationOutbox -------------------------
(***************************************************************************)
(* The durable outbox of final candles: integration/service.py and the     *)
(* outbox methods of integration/repository.py.  Tasks (the worker loop,   *)
(* a manual dispatch over HTTP) claim batches of events under a 15-minute  *)
(* lease in the name of their process, take the process's lock of the      *)
(* series, run the analytical cycle, store its signal, mark the event      *)
(* processed, trace it and publish the row.  All events are of one series. *)
(***************************************************************************)
EXTENDS Naturals, FiniteSets

CONSTANTS
  Events,     \* final candles of one instrument and timeframe
  Rejected,   \* those below the quality threshold
  Tasks,      \* callers of process_outbox_once
  Pollers,    \* the tasks that are worker loops and go on for ever
  Processes, NoProcess, Dead,  \* worker identities; Dead: of a process that died
  Home,       \* the process of each task
  NoTask, NoEvent,
  Decisions,  \* semantic hashes of the signals a cycle may decide to publish
  BatchLimit, \* outbox_batch_size
  Limit,      \* bounds on the faults of a behaviour, of each kind
  MaxFaults   \* and of all kinds together

Faults == {"crashes", "overruns", "errors", "exhaustions"}

(* What the constants are, assumed where they get their values. *)
OutboxAssumption ==
  /\ Rejected \subseteq Events /\ Pollers \subseteq Tasks
  /\ Home \in [Tasks -> Processes]
  /\ IsFiniteSet(Tasks)
  /\ {NoProcess, Dead} \cap Processes = {} /\ Dead # NoProcess
  /\ NoTask \notin Tasks /\ NoEvent \notin Events
  /\ {"open", "blocked", "ineligible"} \cap Decisions = {}
  /\ BatchLimit \in Nat \ {0}
  /\ Limit \in [Faults -> Nat] /\ MaxFaults \in Nat

VARIABLES
  row,       \* integration_outbox, one row per event
  stale,     \* the candle closed more than stale_after_seconds ago
  processed, \* integration_processed_events
  signals,   \* operational_signals: [event, decision]
  verdict,   \* what the delivery that marked an event processed had decided
  run,       \* where each task is, and with what
  lock,      \* each process's lock of the series
  circuit,   \* storage_exhausted_until lies ahead
  used       \* how much of Limit is spent

vars == <<row, stale, processed, signals, verdict, run, lock, circuit, used>>

Outcomes == Decisions \cup {"ineligible"}  \* or short of required evidence
Idle == [pc |-> "idle", batch |-> {}, event |-> NoEvent, decision |-> "open", full |-> FALSE]
FaultsSoFar == used["crashes"] + used["overruns"] + used["errors"] + used["exhaustions"]

Spend(fault) ==
  /\ used[fault] < Limit[fault]
  /\ FaultsSoFar < MaxFaults
  /\ used' = [used EXCEPT ![fault] = @ + 1]

At(t, pc) == run[t].pc = pc
Goto(t, pc) == run' = [run EXCEPT ![t].pc = pc]
Leave(t) == run' = [run EXCEPT ![t] = Idle]

-----------------------------------------------------------------------------
(* The rows.                                                                *)

Free == [status |-> "waiting", by |-> NoProcess, leased |-> FALSE, due |-> TRUE]

Enqueue(e) ==
  /\ row[e].status = "absent"
  /\ row' = [row EXCEPT ![e] = Free]
  /\ UNCHANGED <<stale, processed, signals, verdict, run, lock, circuit, used>>

Pending_Any == { e \in Events : row[e].status = "waiting" /\ row[e].due }  \* deviation: leases ignored
Pending_Unclaimed ==                                \* deviation: an expired lease still excludes
  { e \in Events : row[e].status = "waiting" /\ row[e].due /\ row[e].by = NoProcess }
Pending_Published ==                                \* deviation: published_at is not looked at
  { e \in Events : row[e].status # "absent" /\ row[e].due /\ ~row[e].leased }
Pending == { e \in Events : row[e].status = "waiting" /\ row[e].due /\ ~row[e].leased }

(* FOR UPDATE SKIP LOCKED: of the pending rows, those no other transaction  *)
(* is claiming at this moment, up to the batch size.                        *)
Claim(t) ==
  /\ At(t, "idle")
  /\ ~circuit[Home[t]]
  /\ \E batch \in SUBSET Pending \ {{}} :
       /\ Cardinality(batch) <= BatchLimit
       /\ row' = [e \in Events |-> IF e \in batch
                    THEN [row[e] EXCEPT !.by = Home[t], !.leased = TRUE] ELSE row[e]]
       /\ run' = [run EXCEPT ![t].pc = "batch", ![t].batch = batch]
  /\ UNCHANGED <<stale, processed, signals, verdict, lock, circuit, used>>

Holds(t, e) == row[e].by = Home[t]

-----------------------------------------------------------------------------
(* One delivery: process() and _run().                                      *)

Critical == {"run", "publish", "mark", "trace"}
Unlocked(t) == [p \in Processes |-> IF lock[p] = t THEN NoTask ELSE lock[p]]

(* The next event of the batch; one that is already processed is only       *)
(* traced as a duplicate.                                                   *)
Deliver(t) ==
  /\ At(t, "batch")
  /\ \/ run[t].batch = {} /\ Leave(t)
     \/ \E e \in run[t].batch :
          run' = [run EXCEPT ![t].event = e, ![t].batch = @ \ {e},
                    ![t].decision = "open",
                    ![t].pc = IF e \in processed THEN "complete" ELSE "lock"]
  /\ UNCHANGED <<row, stale, processed, signals, verdict, lock, circuit, used>>

(* Under the lock the event is looked up again; a rejected or stale candle  *)
(* is to be marked without a cycle.                                         *)
Enter(t) ==
  LET e == run[t].event
      blocked == e \in Rejected \/ stale[e]
  IN /\ At(t, "lock") /\ lock[Home[t]] = NoTask
     /\ IF e \in processed
          THEN Goto(t, "complete") /\ UNCHANGED lock
          ELSE /\ run' = [run EXCEPT ![t].pc = IF blocked THEN "mark" ELSE "run",
                                     ![t].decision = IF blocked THEN "blocked" ELSE "open"]
               /\ lock' = [lock EXCEPT ![Home[t]] = t]
     /\ UNCHANGED <<row, stale, processed, signals, verdict, circuit, used>>

(* The engines, the AI pipeline, scoring and decision: a rerun sees other   *)
(* market states and clocks, and may decide otherwise than the run before.  *)
Evaluate(t) ==
  /\ At(t, "run")
  /\ \E d \in Outcomes :
       run' = [run EXCEPT ![t].decision = d,
                          ![t].pc = IF d \in Decisions THEN "publish" ELSE "mark"]
  /\ UNCHANGED <<row, stale, processed, signals, verdict, lock, circuit, used>>

SignalRows_PerEvent(e, d) ==           \* deviation: unique on the event, not on the hash
  IF \E s \in signals : s.event = e THEN {} ELSE {[event |-> e, decision |-> d]}
SignalRows(e, d) == {[event |-> e, decision |-> d]}

Publish(t) ==
  /\ At(t, "publish")
  /\ signals' = signals \cup SignalRows(run[t].event, run[t].decision)
  /\ Goto(t, "mark")
  /\ UNCHANGED <<row, stale, processed, verdict, lock, circuit, used>>

Marked_Unblocked(t) ==                 \* deviation: a blocked candle is not marked
  IF run[t].decision = "blocked" THEN {} ELSE {run[t].event}
Marked(t) == {run[t].event}

Mark(t) ==
  /\ At(t, "mark")
  /\ processed' = processed \cup Marked(t)
  /\ verdict' = [e \in Events |-> IF e \in processed' \ processed THEN run[t].decision ELSE verdict[e]]
  /\ Goto(t, "trace")
  /\ UNCHANGED <<row, stale, signals, lock, circuit, used>>

(* The trace record, whose failure fails a delivery that is already marked. *)
Trace(t) ==
  /\ At(t, "trace")
  /\ lock' = Unlocked(t)
  /\ Goto(t, "complete")
  /\ UNCHANGED <<row, stale, processed, signals, verdict, circuit, used>>

Complete(t) ==
  LET e == run[t].event
  IN /\ At(t, "complete")
     /\ row' = IF Holds(t, e)
                 THEN [row EXCEPT ![e] = [Free EXCEPT !.status = "published"]] ELSE row
     /\ circuit' = [circuit EXCEPT ![Home[t]] = FALSE]
     /\ Goto(t, "batch")
     /\ UNCHANGED <<stale, processed, signals, verdict, lock, used>>

-----------------------------------------------------------------------------
(* Failures.                                                                *)

UnlockedOnError_Never(t) == lock       \* deviation: the lock is released by hand, at the end
UnlockedOnError(t) == Unlocked(t)

(* An engine or the database fails, or the storage is full.                 *)
Raise(t) ==
  /\ run[t].pc \in Critical \cup {"lock", "complete"}
  /\ \E full \in BOOLEAN :
       /\ Spend(IF full THEN "exhaustions" ELSE "errors")
       /\ run' = [run EXCEPT ![t].pc = "fail", ![t].full = full]
  /\ lock' = UnlockedOnError(t)
  /\ UNCHANGED <<row, stale, processed, signals, verdict, circuit>>

(* The failure is recorded and the event waits for its backoff, or the same *)
(* outage fails the record, too.  That, or full storage, ends the batch,    *)
(* whose other events stay leased.                                          *)
Fail(t) ==
  LET e == run[t].event
      full == run[t].full
  IN /\ At(t, "fail")
     /\ \/ /\ row' = IF Holds(t, e) THEN [row EXCEPT ![e] = [Free EXCEPT !.due = FALSE]] ELSE row
           /\ IF full THEN Leave(t) ELSE Goto(t, "batch")
        \/ Leave(t) /\ UNCHANGED row
     /\ circuit' = [circuit EXCEPT ![Home[t]] = @ \/ full]
     /\ UNCHANGED <<stale, processed, signals, verdict, lock, used>>

(* The process dies or is stopped; when it is back it has a new identity,   *)
(* so what it had claimed belongs to nobody.                                *)
Crash(p) ==
  /\ Spend("crashes")
  /\ run' = [t \in Tasks |-> IF Home[t] = p THEN Idle ELSE run[t]]
  /\ row' = [e \in Events |-> IF row[e].by = p THEN [row[e] EXCEPT !.by = Dead] ELSE row[e]]
  /\ lock' = [lock EXCEPT ![p] = NoTask]
  /\ circuit' = [circuit EXCEPT ![p] = FALSE]
  /\ UNCHANGED <<stale, processed, signals, verdict>>

-----------------------------------------------------------------------------
(* Time.                                                                    *)

Age(e) ==
  /\ row[e].status # "absent" /\ ~stale[e]
  /\ stale' = [stale EXCEPT ![e] = TRUE]
  /\ UNCHANGED <<row, processed, signals, verdict, run, lock, circuit, used>>

(* The lease of 15 minutes outlasts the 300 seconds of freshness, so the    *)
(* candle is stale by then.  It is an overrun if a task still has the event.*)
LeaseExpires(e) ==
  /\ row[e].leased /\ stale[e]
  /\ IF \E t \in Tasks : Home[t] = row[e].by /\ e \in run[t].batch \cup {run[t].event}
       THEN Spend("overruns") ELSE UNCHANGED used
  /\ row' = [row EXCEPT ![e].leased = FALSE]
  /\ UNCHANGED <<stale, processed, signals, verdict, run, lock, circuit>>

BackoffEnds(e) ==
  /\ row[e].status = "waiting" /\ ~row[e].due
  /\ row' = [row EXCEPT ![e].due = TRUE]
  /\ UNCHANGED <<stale, processed, signals, verdict, run, lock, circuit, used>>

CircuitCloses(p) ==
  /\ circuit[p]
  /\ circuit' = [circuit EXCEPT ![p] = FALSE]
  /\ UNCHANGED <<row, stale, processed, signals, verdict, run, lock, used>>

-----------------------------------------------------------------------------
Init ==
  /\ row = [e \in Events |-> [Free EXCEPT !.status = "absent"]]
  /\ stale = [e \in Events |-> FALSE]
  /\ processed = {} /\ signals = {}
  /\ verdict = [e \in Events |-> "open"]
  /\ run = [t \in Tasks |-> Idle]
  /\ lock = [p \in Processes |-> NoTask]
  /\ circuit = [p \in Processes |-> FALSE]
  /\ used = [f \in Faults |-> 0]

Work(t) ==
  \/ Deliver(t) \/ Enter(t) \/ Evaluate(t) \/ Publish(t) \/ Mark(t) \/ Trace(t)
  \/ Complete(t) \/ Fail(t)

Next ==
  \/ \E e \in Events : Enqueue(e) \/ Age(e) \/ LeaseExpires(e) \/ BackoffEnds(e)
  \/ \E t \in Tasks : Claim(t) \/ Work(t) \/ Raise(t)
  \/ \E p \in Processes : Crash(p) \/ CircuitCloses(p)

Spec == Init /\ [][Next]_vars

(* A task goes on until its batch is done, the worker loops keep polling,   *)
(* and time passes.                                                         *)
Fairness ==
  /\ \A t \in Tasks : WF_vars(Work(t))
  /\ \A t \in Pollers : WF_vars(Claim(t))
  /\ \A e \in Events : WF_vars(Age(e)) /\ WF_vars(LeaseExpires(e)) /\ WF_vars(BackoffEnds(e))
  /\ \A p \in Processes : WF_vars(CircuitCloses(p))

FairSpec == Spec /\ Fairness

-----------------------------------------------------------------------------
(* Properties.                                                              *)

(* Types, and: a lock is held exactly while its holder is in a delivery,    *)
(* and a lease has a holder.                                                *)
TypeOK ==
  /\ row \in [Events -> [status : {"absent", "waiting", "published"}, leased : BOOLEAN,
                         by : Processes \cup {NoProcess, Dead}, due : BOOLEAN]]
  /\ stale \in [Events -> BOOLEAN]
  /\ processed \subseteq Events
  /\ signals \subseteq [event : Events, decision : Decisions]
  /\ verdict \in [Events -> Outcomes \cup {"open", "blocked"}]
  /\ run \in [Tasks -> [pc : Critical \cup {"idle", "batch", "lock", "complete", "fail"},
                        batch : SUBSET Events, event : Events \cup {NoEvent},
                        decision : Outcomes \cup {"open", "blocked"}, full : BOOLEAN]]
  /\ \A p \in Processes :
       lock[p] = NoTask \/ (Home[lock[p]] = p /\ run[lock[p]].pc \in Critical)
  /\ \A t \in Tasks : run[t].pc \in Critical => lock[Home[t]] = t
  /\ circuit \in [Processes -> BOOLEAN]
  /\ used \in [Faults -> Nat]
  /\ \A e \in Events : row[e].leased => row[e].by # NoProcess

(* docs/FULL_SYSTEM_INTEGRATION.md, "processed markers ... are written only *)
(* after the pipeline's completion/blocking decision": when the delivery    *)
(* that marked an event had decided to publish, its signal is stored,       *)
(* whatever failed or was redelivered in between.  And stale or rejected    *)
(* evidence "cannot be represented as a fresh eligible signal": an event    *)
(* marked without a cycle has none, unless a fault cut an earlier delivery  *)
(* short.                                                                   *)
SignalMatchesMark ==
  \A e \in processed :
    /\ verdict[e] # "open"
    /\ verdict[e] \in Decisions => [event |-> e, decision |-> verdict[e]] \in signals
    /\ verdict[e] = "blocked" /\ FaultsSoFar = 0 => \A s \in signals : s.event # e

(* One event makes two signals only at the price of a fault: the lease, the *)
(* lock and the processed marker keep every fault-free rerun away.  And two *)
(* cycles of one event run at the same time only after a lease ran out      *)
(* under its holder.                                                        *)
RerunsCostFaults ==
  \A e \in Events :
    /\ Cardinality({ s \in signals : s.event = e }) <= 1 + FaultsSoFar
    /\ Cardinality({ t \in Tasks : run[t].event = e /\ run[t].pc \in Critical })
         <= 1 + used["overruns"]

Outbox == INSTANCE Delivery WITH
  Items <- Events,
  state <- [e \in Events |-> IF row[e].status = "published" THEN "settled" ELSE row[e].status],
  handled <- processed

(* The rows deliver: an event is published only after it was processed, and *)
(* nothing a late holder does reopens it ("completed once",                 *)
(* production-persistence-audit-2026-07-23.md:63).                          *)
Delivers == Outbox!Spec

(* "Delivery is explicitly at least once": again and again no enqueued      *)
(* event is left waiting, in spite of crashes, lost batches and full        *)
(* storage; since none is published unprocessed or reopened, all are        *)
(* delivered in the end.                                                    *)
EventuallyPublished == []<>(\A e \in Events : row[e].status # "waiting")
=============================================================================
