--------------------------- MODULE ReasoningClaim ---------------------------
(***************************************************************************)
(* The durable claim of one five-minute reasoning cycle: ai_reasoning/     *)
(* service.py process() and the claim methods of its repository.py.        *)
(* Workers compete for the cycle's row; the holder asks the language-model *)
(* pool, saves the analysis and its signal and closes the claim, while a   *)
(* heartbeat task of its own renews the lease and ends the claim at its    *)
(* maximum runtime.                                                        *)
(***************************************************************************)
EXTENDS Naturals, FiniteSets, Functions

CONSTANTS
  Workers,   \* processes calling process(), one call at a time
  States,    \* market states of the cycle: every redelivery captures another
  Limit,     \* bounds on the faults of a behaviour, of each kind
  MaxFaults  \* and of all kinds together

Faults == {"crashes", "shutdowns", "stalls", "overruns", "errors", "waits"}

ASSUME WorkersAssumption == IsFiniteSet(Workers)
ASSUME LimitAssumption == Limit \in [Faults -> Nat] /\ MaxFaults \in Nat

VARIABLES
  row,       \* the ai_reasoning_cycle_locks row of the cycle
  analysis,  \* the ai_market_analyses row of the cycle
  signal,    \* the analysis signal is stored
  artifact,  \* ai_response_artifacts, by the request of a market state
  run,       \* where each worker is in process()
  beat,      \* the claim each worker's heartbeat task serves; 0: no task
  granted,   \* claims granted so far, the newest claim_id
  calls,     \* provider calls started
  done,      \* the cycle has been COMMITTED or RECOVERED
  used       \* how much of Limit is spent

store == <<row, analysis, signal, artifact>>
vars == <<store, run, beat, granted, calls, done, used>>

Closed == {"COMMITTED", "RECOVERED"}
Statuses == Closed \cup
  {"none", "ACTIVE_CLAIM", "RELEASED", "FAILED", "FAILED_SCHEMA", "WAITING_PROVIDER"}
NoAnalysis == [state |-> "none", ok |-> FALSE]
Idle == [pc |-> "idle", state |-> "none", claim |-> 0, takeover |-> FALSE, outcome |-> "none"]

Spend(fault) ==
  /\ used[fault] < Limit[fault]
  /\ SumFunction(used) < MaxFaults
  /\ used' = [used EXCEPT ![fault] = @ + 1]

At(w, pc) == run[w].pc = pc
Goto(w, pc) == run' = [run EXCEPT ![w].pc = pc]
Conclude(w, outcome, pc) == run' = [run EXCEPT ![w].pc = pc, ![w].outcome = outcome]
Close(w, outcome) == Conclude(w, outcome, "close")
Leave(w) == run' = [run EXCEPT ![w] = Idle]

-----------------------------------------------------------------------------
(* Getting the claim.                                                       *)

(* A market state that already has an analysis is answered from it.         *)
Start(w, s) ==
  /\ At(w, "idle")
  /\ analysis.state # s
  /\ run' = [run EXCEPT ![w].pc = "claim", ![w].state = s]
  /\ UNCHANGED <<store, beat, granted, calls, done, used>>

Unclaimed == row.status \in {"none", "RELEASED"} \/ (row.status = "WAITING_PROVIDER" /\ row.due)
Claimable_Any == Unclaimed \/ row.status = "ACTIVE_CLAIM"  \* deviation: the lease is not looked at
Claimable_Unclaimed == Unclaimed                           \* deviation: no takeover of a dead claim
Claimable == Unclaimed \/ (row.status = "ACTIVE_CLAIM" /\ ~row.fresh)

(* INSERT, or a guarded UPDATE that takes over the row of the window.       *)
Claim(w) ==
  /\ At(w, "claim")
  /\ IF Claimable
       THEN /\ granted' = granted + 1
            /\ row' = [status |-> "ACTIVE_CLAIM", claim |-> granted + 1,
                       state |-> run[w].state, fresh |-> TRUE, due |-> FALSE]
            /\ run' = [run EXCEPT ![w].pc = "prepare", ![w].claim = granted + 1,
                                  ![w].takeover = (row.status # "none")]
            /\ beat' = [beat EXCEPT ![w] = granted + 1]
       ELSE Leave(w) /\ UNCHANGED <<row, beat, granted>>
  /\ UNCHANGED <<analysis, signal, artifact, calls, done, used>>

-----------------------------------------------------------------------------
(* The work under the claim.                                                *)

(* The PROCEED decision and the request are stored, or the claim fails.     *)
Prepare(w) ==
  /\ At(w, "prepare")
  /\ \/ Goto(w, "ask") /\ UNCHANGED used
     \/ Spend("errors") /\ Close(w, "FAILED")
  /\ UNCHANGED <<store, beat, granted, calls, done>>

(* A stored response of the same request is used instead of a call; an      *)
(* error on the way is recorded as a failed analysis.                       *)
Ask(w) ==
  /\ At(w, "ask")
  /\ IF artifact[run[w].state] = "valid"
       THEN (\E o \in {"ok", "bad"} : Conclude(w, o, "confirm")) /\ UNCHANGED calls
       ELSE Goto(w, "call") /\ calls' = calls + 1
  /\ UNCHANGED <<store, beat, granted, done, used>>

(* The pool answers, or fails in a way that ends or postpones the claim, or *)
(* the call times out or breaks, which is recorded as a failed analysis.    *)
Answer(w) ==
  /\ At(w, "call")
  /\ \/ /\ artifact' = [artifact EXCEPT ![run[w].state] = "valid"]
        /\ Conclude(w, "ok", "confirm")
        /\ UNCHANGED used
     \/ Close(w, "FAILED") /\ UNCHANGED <<artifact, used>>
     \/ /\ artifact' \in {artifact, [artifact EXCEPT ![run[w].state] = "bad"]}
        /\ Close(w, "FAILED_SCHEMA")
        /\ UNCHANGED used
     \/ Spend("waits") /\ Close(w, "WAITING_PROVIDER") /\ UNCHANGED artifact
     \/ /\ artifact' \in {artifact, [artifact EXCEPT ![run[w].state] = "bad"]}
        /\ Conclude(w, "bad", "confirm")
        /\ UNCHANGED used
  /\ UNCHANGED <<row, analysis, signal, beat, granted, calls, done>>

Owned(claim) == row.claim = claim /\ row.status = "ACTIVE_CLAIM"

(* Ownership is confirmed, and the lease renewed, before the analysis is    *)
(* stored; a worker that lost it returns and leaves its heartbeat running.  *)
Confirm(w) ==
  /\ At(w, "confirm")
  /\ IF Owned(run[w].claim)
       THEN row' = [row EXCEPT !.fresh = TRUE] /\ Goto(w, "save")
       ELSE Leave(w) /\ UNCHANGED row
  /\ UNCHANGED <<analysis, signal, artifact, beat, granted, calls, done, used>>

SamePayload_Any(s, ok) == TRUE         \* deviation: the payload hashes are not compared
SamePayload(s, ok) == analysis = [state |-> s, ok |-> ok]

(* INSERT on the unique cycle; a row that is there is returned if it has    *)
(* the same payload, which the same state and status need not mean. A       *)
(* conflict or a database error ends the claim.                             *)
Save(w) ==
  LET s == run[w].state
      ok == run[w].outcome = "ok"
  IN /\ At(w, "save")
     /\ \/ /\ analysis = NoAnalysis
           /\ analysis' = [state |-> s, ok |-> ok]
           /\ Goto(w, "artifact")
           /\ UNCHANGED used
        \/ /\ analysis # NoAnalysis /\ SamePayload(s, ok)
           /\ Conclude(w, IF analysis.ok THEN "ok" ELSE "bad", "artifact")
           /\ UNCHANGED <<analysis, used>>
        \/ /\ IF analysis = NoAnalysis THEN Spend("errors") ELSE UNCHANGED used
           /\ Close(w, "FAILED")
           /\ UNCHANGED analysis
     /\ UNCHANGED <<row, signal, artifact, beat, granted, calls, done>>

(* The response artifact becomes COMMITTED; an error here leaves process()  *)
(* with the claim open.  A failed analysis ends the claim.                  *)
Archive(w) ==
  /\ At(w, "artifact")
  /\ \/ /\ run[w].outcome = "ok"
        /\ artifact' = [artifact EXCEPT ![run[w].state] = "committed"]
        /\ Goto(w, "publish")
        /\ UNCHANGED used
     \/ run[w].outcome = "ok" /\ Spend("errors") /\ Leave(w) /\ UNCHANGED artifact
     \/ run[w].outcome = "bad" /\ Close(w, "FAILED") /\ UNCHANGED <<artifact, used>>
  /\ UNCHANGED <<row, analysis, signal, beat, granted, calls, done>>

CommitStatus_Outcome(takeover) ==      \* deviation: the outcome of the claim is stored
  IF takeover THEN "CLAIM_TAKEOVER" ELSE "COMMITTED"
CommitStatus(takeover) == IF takeover THEN "RECOVERED" ELSE "COMMITTED"

(* The COMMITTED decision and the signal are stored, or the claim fails.    *)
Publish(w) ==
  /\ At(w, "publish")
  /\ \/ signal' = TRUE /\ Close(w, CommitStatus(run[w].takeover)) /\ UNCHANGED used
     \/ Spend("errors") /\ Close(w, "FAILED") /\ UNCHANGED signal
  /\ UNCHANGED <<row, analysis, artifact, beat, granted, calls, done>>

Mine_Any(claim) == TRUE                \* deviation: the claim is not compared
Mine(claim) == row.claim = claim

(* complete_analysis_cycle: the status the row has now is not looked at.    *)
Complete(w) ==
  /\ At(w, "close")
  /\ IF Mine(run[w].claim)
       THEN /\ row' = [row EXCEPT !.status = run[w].outcome, !.fresh = FALSE,
                                  !.due = FALSE]
            /\ done' = (done \/ run[w].outcome \in Closed)
       ELSE UNCHANGED <<row, done>>
  /\ Goto(w, "stop")
  /\ UNCHANGED <<analysis, signal, artifact, beat, granted, calls, used>>

StopHeartbeat(w) ==
  /\ At(w, "stop")
  /\ beat' = [beat EXCEPT ![w] = 0]
  /\ Leave(w)
  /\ UNCHANGED <<store, granted, calls, done, used>>

-----------------------------------------------------------------------------
(* The heartbeat task, which outlives a process() that left its claim open. *)

(* It ends when the claim is not its own, and at its first database error.  *)
Beat(w) ==
  /\ beat[w] # 0
  /\ \/ Owned(beat[w]) /\ row' = [row EXCEPT !.fresh = TRUE] /\ UNCHANGED <<beat, used>>
     \/ ~Owned(beat[w]) /\ beat' = [beat EXCEPT ![w] = 0] /\ UNCHANGED <<row, used>>
     \/ Spend("stalls") /\ beat' = [beat EXCEPT ![w] = 0] /\ UNCHANGED row
  /\ UNCHANGED <<analysis, signal, artifact, run, granted, calls, done>>

(* release_reasoning_cycle looks at the claim (0: none), not at the status. *)
ReleaseRow(claim, status) ==
  row' = IF claim # 0 /\ row.claim = claim
           THEN [row EXCEPT !.status = status, !.fresh = FALSE, !.due = FALSE]
           ELSE row

(* claim_max_runtime_seconds are over: an overrun if process() still works. *)
Deadline(w) ==
  /\ beat[w] # 0
  /\ IF run[w].claim = beat[w] THEN Spend("overruns") ELSE UNCHANGED used
  /\ ReleaseRow(beat[w], "FAILED")
  /\ beat' = [beat EXCEPT ![w] = 0]
  /\ UNCHANGED <<analysis, signal, artifact, run, granted, calls, done>>

-----------------------------------------------------------------------------
(* Ends of processes, and time.                                             *)

Crash(w) ==
  /\ Spend("crashes")
  /\ run[w].pc # "idle" \/ beat[w] # 0
  /\ Leave(w)
  /\ beat' = [beat EXCEPT ![w] = 0]
  /\ UNCHANGED <<store, granted, calls, done>>

(* The worker is cancelled wherever it waits; shutdown() then notes the     *)
(* claims it knows of, cancels their heartbeats and releases them.          *)
Shutdown(w) ==
  /\ Spend("shutdowns")
  /\ run[w].pc # "down"
  /\ run' = [run EXCEPT ![w] = [Idle EXCEPT !.pc = "down", !.claim = beat[w]]]
  /\ beat' = [beat EXCEPT ![w] = 0]
  /\ UNCHANGED <<store, granted, calls, done>>

ReleaseOnExit(w) ==
  /\ At(w, "down")
  /\ ReleaseRow(run[w].claim, "RELEASED")
  /\ Leave(w)
  /\ UNCHANGED <<analysis, signal, artifact, beat, granted, calls, done, used>>

(* A lease runs out because nobody renews it, or although somebody does.    *)
LeaseExpires ==
  /\ row.status = "ACTIVE_CLAIM" /\ row.fresh
  /\ IF \E w \in Workers : beat[w] = row.claim
       THEN Spend("stalls") ELSE UNCHANGED used
  /\ row' = [row EXCEPT !.fresh = FALSE]
  /\ UNCHANGED <<analysis, signal, artifact, run, beat, granted, calls, done>>

RetryDue ==
  /\ row.status = "WAITING_PROVIDER" /\ ~row.due
  /\ row' = [row EXCEPT !.due = TRUE]
  /\ UNCHANGED <<analysis, signal, artifact, run, beat, granted, calls, done, used>>

-----------------------------------------------------------------------------
Init ==
  /\ row = [status |-> "none", claim |-> 0, state |-> "none", fresh |-> FALSE, due |-> FALSE]
  /\ analysis = NoAnalysis
  /\ signal = FALSE
  /\ artifact = [s \in States |-> "none"]
  /\ run = [w \in Workers |-> Idle]
  /\ beat = [w \in Workers |-> 0]
  /\ granted = 0 /\ calls = 0
  /\ done = FALSE
  /\ used = [f \in Faults |-> 0]

Work(w) ==
  \/ Claim(w) \/ Prepare(w) \/ Ask(w) \/ Answer(w) \/ Confirm(w) \/ Save(w)
  \/ Archive(w) \/ Publish(w) \/ Complete(w) \/ StopHeartbeat(w) \/ ReleaseOnExit(w)

Next ==
  \/ \E w \in Workers : \E s \in States : Start(w, s)
  \/ \E w \in Workers : Work(w) \/ Beat(w) \/ Deadline(w) \/ Crash(w) \/ Shutdown(w)
  \/ LeaseExpires \/ RetryDue

Spec == Init /\ [][Next]_vars

(* The worker loop goes on, a heartbeat task ends at its deadline, time     *)
(* passes, and the recovery loop of integration/worker.py asks for the      *)
(* waiting cycle every ten seconds.                                         *)
Fairness ==
  /\ \A w \in Workers : WF_vars(Work(w)) /\ WF_vars(Deadline(w))
  /\ WF_vars(LeaseExpires) /\ WF_vars(RetryDue)
  /\ WF_vars(\E w \in Workers : \E s \in States : Start(w, s))

FairSpec == Spec /\ Fairness

-----------------------------------------------------------------------------
(* Properties.                                                              *)

Rows == [status : Statuses, claim : Nat, state : States \cup {"none"},
         fresh : BOOLEAN, due : BOOLEAN]
Phases == {"idle", "claim", "prepare", "ask", "call", "confirm", "save",
           "artifact", "publish", "close", "stop", "down"}
Runs == [pc : Phases, state : States \cup {"none"}, claim : Nat, takeover : BOOLEAN,
         outcome : Statuses \cup {"ok", "bad"}]

TypeOK ==
  /\ row \in Rows
  /\ analysis \in [state : States \cup {"none"}, ok : BOOLEAN]
  /\ signal \in BOOLEAN /\ done \in BOOLEAN
  /\ artifact \in [States -> {"none", "valid", "bad", "committed"}]
  /\ run \in [Workers -> Runs]
  /\ beat \in [Workers -> Nat]
  /\ granted \in Nat /\ calls \in Nat
  /\ used \in [Faults -> Nat]

(* A committed cycle has a valid analysis of the market state its claim     *)
(* names, and the signal, whichever worker committed it and whatever the    *)
(* others had stored before.                                                *)
CommittedIsWhole ==
  row.status \in Closed => analysis = [state |-> row.state, ok |-> TRUE] /\ signal

(* Workers that lost the claim do not undo what its new holder committed:   *)
(* only a shutdown or an overrun of the worker that committed it does.      *)
CommittedStays ==
  [][row.status \in Closed /\ row'.status \notin Closed
       => used'["shutdowns"] + used'["overruns"] > 0]_vars

(* docs/AI_PROVIDER_ROUTING.md:67, "Duplicate snapshot delivery,            *)
(* application restarts, concurrent workers, and dashboard reads cannot     *)
(* create additional provider calls for a completed cycle".                 *)
NoCallAfterCommit == [][done => calls' = calls]_vars

(* It takes a live holder that loses its lease or a shutdown to break that: *)
(* crashes, overruns, errors and postponed answers do not.  And two workers *)
(* ask the provider for one cycle at the same time only if a lease ran out  *)
(* under a live holder or a holder exceeded its runtime.                    *)
CallsCost ==
  [][calls' # calls =>
       /\ done => used["stalls"] + used["shutdowns"] > 0
       /\ Cardinality({ w \in Workers : At(w, "call")' })
            <= 1 + used["stalls"] + used["overruns"]]_vars

(* Unless its process dies with the analysis stored and the claim open, a   *)
(* claim ends: by its worker, its heartbeat's deadline or a takeover.       *)
ClaimEnds == (row.status = "ACTIVE_CLAIM") ~> (row.status # "ACTIVE_CLAIM" \/ analysis # NoAnalysis)
=============================================================================
