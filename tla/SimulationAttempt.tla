------------------------- MODULE SimulationAttempt -------------------------
(***************************************************************************)
(* The ledger row of one M15 cutoff (scenario_forecasting/simulation_*.py) *)
(* and everybody who writes to it: deliveries of its candle                *)
(* (integration/service.py, _run) and the recovery of the worker loops     *)
(* (integration/worker.py).  The cutoff has one market state and one       *)
(* quantitative forecast; the AI analysis of that state is committed by    *)
(* somebody, some time or never, and a synthesis is computed from it.      *)
(***************************************************************************)
EXTENDS Naturals, FiniteSets, Functions

CONSTANTS
  Tasks,      \* worker loops and manual dispatches, in any process
  Pollers,    \* those that are worker loops, which also recover
  Results,    \* selections a simulation may come to (its history grows)
  NoResult,
  MaxWaits,   \* maximum_ai_wait_recoveries
  Limit,      \* bounds on the faults of a behaviour, of each kind
  MaxFaults   \* and of all kinds together

Faults == {"crashes", "errors", "lookups", "redeliveries"}

(* What the constants are, assumed where they get their values. *)
AttemptAssumption ==
  /\ Pollers \subseteq Tasks /\ NoResult \notin Results
  /\ MaxWaits \in Nat
  /\ Limit \in [Faults -> Nat] /\ MaxFaults \in Nat

VARIABLES
  ledger,     \* the authoritative_simulation_attempts row
  analysis,   \* of the cutoff's state: not yet, committed, or given up
  synthesis,  \* the multi-timeframe synthesis is stored
  selection,  \* the primary_scenario_selections row
  old,        \* the cutoff is older than recovery_max_age_seconds
  delivered,  \* the candle has been delivered
  task,       \* where each task is, and with what
  restarted,  \* the worker loop of the task has not recovered yet
  spent       \* how much of Limit is spent

vars == <<ledger, analysis, synthesis, selection, old, delivered, task, restarted, spent>>

(* SUCCESS, ANALYTICAL_ONLY, NO_SIGNAL and BLOCKED by the selection's own   *)
(* status are "done" with a result.  open: BLOCKED for SIMULATION_NOT_      *)
(* INVOKED, which may be claimed.  waits: retry_count, no further than the  *)
(* maximum it is compared with.                                             *)
Statuses == {"absent", "waiting", "running", "done", "blocked", "failed"}
NoRow == [status |-> "absent", open |-> FALSE, waits |-> 0, result |-> NoResult]

Idle == [pc |-> "idle", reason |-> "none", waits |-> 0, result |-> NoResult]
FaultsSoFar == SumFunction(spent)

Spend(fault) ==
  /\ spent[fault] < Limit[fault]
  /\ FaultsSoFar < MaxFaults
  /\ spent' = [spent EXCEPT ![fault] = @ + 1]

At(t, pc) == task[t].pc = pc
Goto(t, pc) == task' = [task EXCEPT ![t].pc = pc]
Block(t, reason) == task' = [task EXCEPT ![t].pc = "block", ![t].reason = reason]
Leave(t) == task' = [task EXCEPT ![t] = Idle]

-----------------------------------------------------------------------------
(* The row.                                                                 *)

Overwritable_Any == TRUE               \* deviation: the upsert has no WHERE
Overwritable_Waiting ==                \* deviation: RUNNING is left to its runner
  ledger.status \in {"absent", "waiting", "failed"}
Overwritable == ledger.status \notin {"done", "blocked"}

Claimable_New == ledger.status = "absent"  \* deviation: only the insert claims
Claimable ==
  \/ ledger.status \in {"absent", "waiting", "failed"}
  \/ ledger.status = "blocked" /\ ledger.open

SaveAttempt(new) == ledger' = IF Overwritable THEN new ELSE ledger

-----------------------------------------------------------------------------
(* A delivery: _run up to the simulation.  process() of the AI reasoning    *)
(* service may return nothing although the analysis is there by now.        *)
Deliver(t) ==
  /\ At(t, "idle")
  /\ t \in Pollers /\ ~old => ~restarted[t]   \* a worker loop recovers first
  /\ IF delivered THEN Spend("redeliveries") ELSE UNCHANGED spent
  /\ delivered' = TRUE
  /\ \/ analysis = "exact" /\ Goto(t, "synthesise")
     \/ Block(t, "pending")
     \/ Block(t, "inputs")             \* no state or no forecast
  /\ UNCHANGED <<ledger, analysis, synthesis, selection, old, restarted>>

Synthesise(t) ==
  /\ task[t].pc \in {"synthesise", "resynthesise"}
  /\ synthesis' = TRUE
  /\ Goto(t, IF At(t, "synthesise") THEN "forecast" ELSE "recover")
  /\ UNCHANGED <<ledger, analysis, selection, old, delivered, restarted, spent>>

(* The older scenario forecast in between, whose failure, like that of the  *)
(* synthesis, is swallowed and leaves the simulation not invoked.           *)
Forecast(t) ==
  /\ At(t, "forecast")
  /\ Goto(t, "lookup")
  /\ UNCHANGED <<ledger, analysis, synthesis, selection, old, delivered, restarted, spent>>

-----------------------------------------------------------------------------
(* Recovery: once when a worker loop starts, and for a waiting attempt      *)
(* every ten seconds.  The analysis is asked for again first, which may fail *)
(* without harm at the start of the loop only; a schema or preflight failure *)
(* of its claim blocks a waiting attempt.                                   *)
Recover(t) ==
  /\ t \in Pollers /\ At(t, "idle") /\ ~old
  /\ restarted[t] \/ ledger.status = "waiting"
  /\ restarted' = [restarted EXCEPT ![t] = FALSE]
  /\ \/ ~delivered /\ UNCHANGED task       \* no state yet
     \/ /\ delivered /\ ~restarted[t] /\ analysis = "failed"
        /\ Block(t, "schema")
     \/ /\ delivered /\ (restarted[t] \/ analysis # "failed")
        /\ task' = [task EXCEPT
             ![t].pc = IF analysis = "exact" /\ ~synthesis THEN "resynthesise" ELSE "recover",
             ![t].reason = IF restarted[t] THEN "startup" ELSE "none"]
  /\ UNCHANGED <<ledger, analysis, synthesis, selection, old, delivered, spent>>

(* recover_latest.  FAILED counts as terminal here although it is claimable.*)
Ready_Ignored == TRUE                  \* deviation: the synthesis is not awaited
Ready == synthesis

RecoverLatest(t) ==
  /\ At(t, "recover")
  /\ IF ledger.status \in {"done", "failed"} \/ (ledger.status = "blocked" /\ ~ledger.open)
       THEN Leave(t)
       ELSE task' = [task EXCEPT ![t] = [Idle EXCEPT !.pc = IF Ready THEN "lookup" ELSE "wait"]]
  /\ UNCHANGED <<ledger, analysis, synthesis, selection, old, delivered, restarted, spent>>

-----------------------------------------------------------------------------
(* process().                                                               *)

(* A synthesis exists, hence the exact analysis: the look-up finds it or    *)
(* fails, four times in a row.                                              *)
Lookup(t) ==
  /\ At(t, "lookup")
  /\ \/ Goto(t, "claim") /\ UNCHANGED spent
     \/ Goto(t, "judge") /\ Spend("lookups")
  /\ UNCHANGED <<ledger, analysis, synthesis, selection, old, delivered, restarted>>

Judge(t) ==
  /\ At(t, "judge")
  /\ IF ledger.waits >= MaxWaits THEN Block(t, "lookup") ELSE Goto(t, "wait")
  /\ UNCHANGED <<ledger, analysis, synthesis, selection, old, delivered, restarted, spent>>

(* record_waiting_cutoff reads the row for its count, then upserts.         *)
Wait(t) ==
  /\ At(t, "wait")
  /\ task' = [task EXCEPT ![t].pc = "waitSave",
                        ![t].waits = CASE ledger.status = "absent" -> 0
                                       [] ledger.waits >= MaxWaits -> MaxWaits
                                       [] OTHER                 -> ledger.waits + 1]
  /\ UNCHANGED <<ledger, analysis, synthesis, selection, old, delivered, restarted, spent>>

WaitSave(t) ==
  /\ At(t, "waitSave")
  /\ SaveAttempt([NoRow EXCEPT !.status = "waiting", !.waits = task[t].waits])
  /\ Leave(t)
  /\ UNCHANGED <<analysis, synthesis, selection, old, delivered, restarted, spent>>

(* record_blocked_cutoff, for which a pending analysis only waits.          *)
BlockSave(t) ==
  /\ At(t, "block")
  /\ IF task[t].reason = "pending"
       THEN Goto(t, "wait") /\ UNCHANGED ledger
       ELSE /\ SaveAttempt([NoRow EXCEPT !.status = "blocked",
                                         !.open = task[t].reason = "notInvoked"])
            /\ Leave(t)
  /\ UNCHANGED <<analysis, synthesis, selection, old, delivered, restarted, spent>>

Claim(t) ==
  /\ At(t, "claim")
  /\ IF Claimable
       THEN ledger' = [NoRow EXCEPT !.status = "running"] /\ Goto(t, "simulate")
       ELSE Leave(t) /\ UNCHANGED ledger
  /\ UNCHANGED <<analysis, synthesis, selection, old, delivered, restarted, spent>>

(* save() of the selection: insert unless there is one, return the one      *)
(* that is there.                                                           *)
Returned_Own(mine) == mine             \* deviation: what was computed is returned
Returned(mine) == IF selection = NoResult THEN mine ELSE selection

Simulate(t) ==
  /\ At(t, "simulate")
  /\ \E mine \in Results :
       /\ selection' = IF selection = NoResult THEN mine ELSE selection
       /\ task' = [task EXCEPT ![t].pc = "finish", ![t].result = Returned(mine)]
  /\ UNCHANGED <<ledger, analysis, synthesis, old, delivered, restarted, spent>>

Finish(t) ==
  /\ At(t, "finish")
  /\ SaveAttempt([NoRow EXCEPT !.status = "done", !.result = task[t].result])
  /\ Leave(t)
  /\ UNCHANGED <<analysis, synthesis, selection, old, delivered, restarted, spent>>

FailSave(t) ==
  /\ At(t, "fail")
  /\ SaveAttempt([NoRow EXCEPT !.status = "failed"])
  /\ Leave(t)
  /\ UNCHANGED <<analysis, synthesis, selection, old, delivered, restarted, spent>>

-----------------------------------------------------------------------------
(* The environment.                                                         *)

AfterError(t) ==
  CASE At(t, "synthesise") -> Block(t, "synthesis")
    [] At(t, "forecast")   -> Block(t, "notInvoked")
    [] At(t, "resynthesise") /\ task[t].reason = "startup" -> Goto(t, "recover")
    [] At(t, "simulate")   -> Leave(t) \/ Goto(t, "fail")
    [] OTHER               -> Leave(t)

(* The database or an engine fails.  process() handles failures of the      *)
(* simulation and of save(), not those of the expired scenarios evaluated   *)
(* before, nor of any write to the ledger.                                  *)
Error(t) ==
  /\ task[t].pc \notin {"idle", "lookup"}
  /\ Spend("errors")
  /\ AfterError(t)
  /\ UNCHANGED <<ledger, analysis, synthesis, selection, old, delivered, restarted>>

Crash(t) ==
  /\ Spend("crashes")
  /\ Leave(t)
  /\ restarted' = [restarted EXCEPT ![t] = TRUE]
  /\ UNCHANGED <<ledger, analysis, synthesis, selection, old, delivered>>

(* ReasoningClaim's cycle is committed, or fails for good. *)
Answer ==
  /\ analysis = "none"
  /\ analysis' \in {"exact", "failed"}
  /\ UNCHANGED <<ledger, synthesis, selection, old, delivered, task, restarted, spent>>

Age ==
  /\ ~old /\ old' = TRUE
  /\ UNCHANGED <<ledger, analysis, synthesis, selection, delivered, task, restarted, spent>>

-----------------------------------------------------------------------------
Init ==
  /\ ledger = NoRow
  /\ analysis = "none" /\ synthesis = FALSE /\ selection = NoResult
  /\ old = FALSE /\ delivered = FALSE
  /\ task = [t \in Tasks |-> Idle]
  /\ restarted = [t \in Tasks |-> TRUE]
  /\ spent = [f \in Faults |-> 0]

Work(t) ==
  \/ Synthesise(t) \/ Forecast(t) \/ RecoverLatest(t) \/ Lookup(t) \/ Judge(t)
  \/ Wait(t) \/ WaitSave(t) \/ BlockSave(t) \/ Claim(t) \/ Simulate(t)
  \/ Finish(t) \/ FailSave(t)

Next ==
  \/ \E t \in Tasks : Deliver(t) \/ Recover(t) \/ Work(t) \/ Error(t) \/ Crash(t)
  \/ Answer \/ Age

Spec == Init /\ [][Next]_vars

(* Tasks go on, and every worker loop looks for a waiting attempt every ten *)
(* seconds.                                                                 *)
Fairness ==
  /\ \A t \in Tasks : WF_vars(Work(t))
  /\ \A t \in Pollers : WF_vars(Recover(t))

FairSpec == Spec /\ Fairness

-----------------------------------------------------------------------------
(* Properties.                                                              *)

Final == ledger.status = "done" \/ (ledger.status = "blocked" /\ ~ledger.open)

(* Types; and nothing is simulated or stored without a synthesis.           *)
TypeOK ==
  /\ ledger \in [status : Statuses, open : BOOLEAN, waits : 0..MaxWaits, result : Results \cup {NoResult}]
  /\ analysis \in {"none", "exact", "failed"}
  /\ synthesis \in BOOLEAN /\ old \in BOOLEAN /\ delivered \in BOOLEAN
  /\ selection \in Results \cup {NoResult}
  /\ task \in [Tasks -> [pc : {"idle", "synthesise", "resynthesise", "forecast", "recover", "lookup",
                              "judge", "wait", "waitSave", "block", "claim", "simulate", "finish", "fail"},
                        reason : {"none", "startup", "pending", "inputs", "synthesis", "notInvoked", "schema", "lookup"},
                        waits : 0..MaxWaits, result : Results \cup {NoResult}]]
  /\ restarted \in [Tasks -> BOOLEAN]
  /\ spent \in [Faults -> Nat]
  /\ synthesis => analysis = "exact"
  /\ selection # NoResult => synthesis

(* docs/scenario_forecasting.md, "Every eligible M15 cutoff has one         *)
(* idempotency boundary": however many simulations of a cutoff overlap, a   *)
(* finished attempt tells of the selection that is stored.  And a running   *)
(* attempt has somebody who runs it, although waiters overwrite it and      *)
(* others claim it again, unless a process died or an exception passed it   *)
(* by: nothing reclaims a RUNNING attempt.                                  *)
LedgerIsTrue ==
  /\ ledger.status = "done" => ledger.result # NoResult /\ ledger.result = selection
  /\ ledger.status = "running" /\ spent["crashes"] + spent["errors"] = 0 =>
       \E t \in Tasks : task[t].pc \in {"simulate", "finish"}

(* Whoever still waits, fails or blocks on what it read earlier does not    *)
(* touch a finished attempt (the WHERE of save_attempt).                    *)
FinalStays == [][Final => ledger' = ledger]_vars

(* Once the AI has answered, the attempt of a delivered cutoff is settled,  *)
(* in spite of late waiters and failing look-ups, unless it grew too old, a *)
(* process died or an exception passed.                                     *)
AnsweredSettles ==
  (ledger.status # "absent" /\ analysis # "none") ~>
  (Final \/ old \/ spent["crashes"] + spent["errors"] > 0)
=============================================================================
