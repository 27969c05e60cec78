--------------------------- MODULE AttemptProofs ---------------------------
(***************************************************************************)
(* Proofs about the simulation attempts of CandlePath, for any number of   *)
(* tasks, results, recoveries and faults; and the types of both parts.     *)
(***************************************************************************)
EXTENDS OutboxProofs

USE CandlePathAssumption DEF Attempt!AttemptAssumption

Stages ==
  {"idle", "synthesise", "resynthesise", "forecast", "recover", "lookup", "judge", "wait",
   "waitSave", "block", "claim", "simulate", "finish", "fail"}
Reasons ==
  {"none", "startup", "pending", "inputs", "synthesis", "notInvoked", "schema", "lookup"}
Jobs == [pc : Stages, reason : Reasons, waits : 0..MaxWaits, result : Results \cup {NoResult}]
Ledgers ==
  [status : Attempt!Statuses, open : BOOLEAN, waits : 0..MaxWaits, result : Results \cup {NoResult}]

JobTypes ==
  /\ ledger \in Ledgers
  /\ analysis \in {"none", "exact", "failed"}
  /\ synthesis \in BOOLEAN /\ old \in BOOLEAN /\ delivered \in BOOLEAN
  /\ selection \in Results \cup {NoResult}
  /\ task \in [Tasks -> Jobs]
  /\ restarted \in [Tasks -> BOOLEAN]
  /\ spent \in [Attempt!Faults -> Nat]

(* What is stored by the time a task gets somewhere. *)
Grounded(t) ==
  /\ task[t].pc \in {"synthesise", "resynthesise"} => analysis = "exact"
  /\ task[t].pc \in {"forecast", "lookup", "claim", "simulate", "finish"} => synthesis
  /\ task[t].pc = "finish" => task[t].result = selection /\ selection # NoResult
Grounds ==
  /\ synthesis => analysis = "exact"
  /\ selection # NoResult => synthesis
  /\ ledger.status = "done" => ledger.result = selection /\ selection # NoResult
  /\ \A t \in Tasks : Grounded(t)

Running(t) == task[t].pc \in {"simulate", "finish"}
Harmless == spent["crashes"] + spent["errors"] = 0
Runner == ledger.status = "running" /\ Harmless => \E t \in Tasks : Running(t)

AttemptInv == JobTypes /\ Grounds /\ Runner

-----------------------------------------------------------------------------
(* What the steps do to a task and to the row.                              *)

LEMMA JobMove ==
  ASSUME JobTypes, NEW t \in Tasks, NEW new \in Jobs, task' = [task EXCEPT ![t] = new]
  PROVE  task' \in [Tasks -> Jobs] /\ task'[t] = new /\ \A v \in Tasks \ {t} : task'[v] = task[v]
  BY DEF JobTypes

LEMMA JobGoto ==
  ASSUME JobTypes, NEW t \in Tasks, NEW pc \in Stages, Attempt!Goto(t, pc)
  PROVE  /\ task' \in [Tasks -> Jobs] /\ \A v \in Tasks \ {t} : task'[v] = task[v]
         /\ task'[t].pc = pc
  BY DEF JobTypes, Attempt!Goto, Jobs

LEMMA JobBlock ==
  ASSUME JobTypes, NEW t \in Tasks, NEW reason \in Reasons, Attempt!Block(t, reason)
  PROVE  /\ task' \in [Tasks -> Jobs] /\ \A v \in Tasks \ {t} : task'[v] = task[v]
         /\ task'[t].pc = "block"
<1> DEFINE new == [task[t] EXCEPT !.pc = "block", !.reason = reason]
<1>1. new \in Jobs /\ new.pc = "block"
  <2>1. task[t] \in Jobs /\ "block" \in Stages
    BY DEF JobTypes, Stages
  <2> QED  BY <2>1 DEF Jobs
<1>2. task' = [task EXCEPT ![t] = new]
  BY DEF Attempt!Block, JobTypes
<1> HIDE DEF new
<1> QED  BY <1>1, <1>2, JobMove

LEMMA JobIdle == Attempt!Idle \in Jobs /\ Attempt!Idle.pc = "idle"
  BY DEF Attempt!Idle, Jobs, Stages, Reasons

LEMMA JobLeave ==
  ASSUME JobTypes, NEW t \in Tasks, Attempt!Leave(t)
  PROVE  /\ task' \in [Tasks -> Jobs] /\ \A v \in Tasks \ {t} : task'[v] = task[v]
         /\ task'[t].pc = "idle"
  BY JobIdle, JobMove DEF Attempt!Leave

LEMMA JobSpend ==
  ASSUME JobTypes, NEW fault \in Attempt!Faults, Attempt!Spend(fault)
  PROVE  /\ spent' \in [Attempt!Faults -> Nat]
         /\ fault \in {"crashes", "errors"} => ~Harmless'
         /\ Harmless' => Harmless
<1>1. /\ spent' = [spent EXCEPT ![fault] = spent[fault] + 1]
      /\ \A f \in Attempt!Faults : spent[f] \in Nat
  BY DEF JobTypes, Attempt!Spend
<1>2. /\ spent' \in [Attempt!Faults -> Nat] /\ spent'[fault] = spent[fault] + 1
      /\ \A f \in Attempt!Faults \ {fault} : spent'[f] = spent[f]
  BY <1>1 DEF JobTypes
<1> QED  BY <1>1, <1>2 DEF Harmless, Attempt!Faults

LEMMA EmptyRow == Attempt!NoRow \in Ledgers
  BY DEF Attempt!NoRow, Ledgers, Attempt!Statuses

(* A row that is done or blocked is not overwritten. *)
LEMMA Saving ==
  ASSUME JobTypes, NEW new \in Ledgers, Attempt!SaveAttempt(new)
  PROVE  /\ ledger' \in Ledgers
         /\ ledger' = IF ledger.status \in {"done", "blocked"} THEN ledger ELSE new
  BY DEF JobTypes, Attempt!SaveAttempt, Attempt!Overwritable

-----------------------------------------------------------------------------
(* The steps of a task, one by one.                                         *)

LEMMA JobDeliver ==
  ASSUME JobTypes, NEW t \in Tasks, Attempt!Deliver(t)
  PROVE  /\ UNCHANGED <<ledger, analysis, synthesis, selection, old, restarted>>
         /\ delivered' \in BOOLEAN /\ spent' \in [Attempt!Faults -> Nat] /\ (Harmless' => Harmless)
         /\ task' \in [Tasks -> Jobs] /\ \A v \in Tasks \ {t} : task'[v] = task[v]
         /\ task[t].pc = "idle"
         /\ (task'[t].pc = "synthesise" /\ analysis = "exact") \/ task'[t].pc = "block"
<1>1. spent' \in [Attempt!Faults -> Nat] /\ (Harmless' => Harmless)
  <2>1. Attempt!Spend("redeliveries") \/ spent' = spent
    BY DEF Attempt!Deliver
  <2> QED  BY <2>1, JobSpend DEF JobTypes, Harmless, Attempt!Faults
<1>2. \/ analysis = "exact" /\ Attempt!Goto(t, "synthesise")
      \/ Attempt!Block(t, "pending") \/ Attempt!Block(t, "inputs")
  BY DEF Attempt!Deliver
<1>3. "synthesise" \in Stages /\ {"pending", "inputs"} \subseteq Reasons
  BY DEF Stages, Reasons
<1>4. /\ task' \in [Tasks -> Jobs] /\ \A v \in Tasks \ {t} : task'[v] = task[v]
      /\ (task'[t].pc = "synthesise" /\ analysis = "exact") \/ task'[t].pc = "block"
  BY <1>2, <1>3, JobGoto, JobBlock
<1> QED  BY <1>1, <1>4 DEF Attempt!Deliver, Attempt!At

LEMMA JobRecover ==
  ASSUME JobTypes, NEW t \in Tasks, Attempt!Recover(t)
  PROVE  /\ UNCHANGED <<ledger, analysis, synthesis, selection, old, delivered, spent>>
         /\ restarted' \in [Tasks -> BOOLEAN]
         /\ task' \in [Tasks -> Jobs] /\ \A v \in Tasks \ {t} : task'[v] = task[v]
         /\ task[t].pc = "idle" /\ task'[t].pc \in {"idle", "resynthesise", "recover", "block"}
         /\ task'[t].pc = "resynthesise" => analysis = "exact"
<1>1. restarted' \in [Tasks -> BOOLEAN] /\ task[t].pc = "idle"
  BY DEF Attempt!Recover, Attempt!At, JobTypes
<1> DEFINE pc == IF analysis = "exact" /\ ~synthesis THEN "resynthesise" ELSE "recover"
           reason == IF restarted[t] THEN "startup" ELSE "none"
           new == [task[t] EXCEPT !.pc = pc, !.reason = reason]
<1>2. \/ task' = task \/ Attempt!Block(t, "schema")
      \/ task' = [task EXCEPT ![t].pc = pc, ![t].reason = reason]
  BY DEF Attempt!Recover
<1>3. /\ pc \in {"resynthesise", "recover"} /\ (pc = "resynthesise" => analysis = "exact")
      /\ pc \in Stages /\ reason \in Reasons /\ "schema" \in Reasons
  BY DEF Stages, Reasons
<1> HIDE DEF pc, reason
<1>4. new \in Jobs /\ new.pc = pc
  <2>1. task[t] \in Jobs
    BY DEF JobTypes
  <2> QED  BY <1>3, <2>1 DEF Jobs
<1>5. CASE task' = task
  BY <1>1, <1>5 DEF Attempt!Recover, JobTypes
<1>6. CASE Attempt!Block(t, "schema")
  BY <1>1, <1>3, <1>6, JobBlock DEF Attempt!Recover
<1>7. CASE task' = [task EXCEPT ![t].pc = pc, ![t].reason = reason]
  <2>1. task' = [task EXCEPT ![t] = new]
    BY <1>7 DEF JobTypes
  <2> HIDE DEF new
  <2>2. task' \in [Tasks -> Jobs] /\ task'[t].pc = pc /\ \A v \in Tasks \ {t} : task'[v] = task[v]
    BY <1>4, <2>1, JobMove
  <2> QED  BY <1>1, <1>3, <2>2 DEF Attempt!Recover
<1> QED  BY <1>2, <1>5, <1>6, <1>7

(* The steps that neither simulate nor store what others rely on. *)
Quiet(t) ==
  \/ Attempt!Forecast(t) \/ Attempt!RecoverLatest(t) \/ Attempt!Lookup(t) \/ Attempt!Judge(t)
  \/ Attempt!Wait(t) \/ Attempt!WaitSave(t) \/ Attempt!BlockSave(t) \/ Attempt!FailSave(t)

LEMMA JobQuiet ==
  ASSUME JobTypes, Grounds, NEW t \in Tasks, Quiet(t)
  PROVE  /\ UNCHANGED <<analysis, synthesis, selection, old, delivered, restarted>>
         /\ spent' \in [Attempt!Faults -> Nat] /\ (Harmless' => Harmless)
         /\ task' \in [Tasks -> Jobs] /\ \A v \in Tasks \ {t} : task'[v] = task[v]
         /\ ~Running(t)
         /\ task'[t].pc \in {"idle", "lookup", "claim", "judge", "wait", "waitSave", "block"}
         /\ task'[t].pc \in {"lookup", "claim"} => synthesis
         /\ ledger' \in Ledgers
         /\ ledger' = ledger \/ ledger'.status \in {"waiting", "blocked", "failed"}
<1> USE DEF Attempt!At
<1>1. {"idle", "lookup", "claim", "judge", "wait", "waitSave", "block"} \subseteq Stages
  BY DEF Stages
<1>2. CASE Attempt!Forecast(t)
  <2>1. task[t].pc = "forecast" /\ Attempt!Goto(t, "lookup") /\ synthesis
    BY <1>2 DEF Attempt!Forecast, Grounds, Grounded
  <2>2. UNCHANGED <<ledger, analysis, synthesis, selection, old, delivered, restarted, spent>>
    BY <1>2 DEF Attempt!Forecast
  <2> QED  BY <1>1, <2>1, <2>2, JobGoto DEF JobTypes, Running, Harmless
<1>3. CASE Attempt!RecoverLatest(t)
  <2> DEFINE new == [Attempt!Idle EXCEPT !.pc = IF synthesis THEN "lookup" ELSE "wait"]
  <2>1. /\ task[t].pc = "recover"
        /\ Attempt!Leave(t) \/ task' = [task EXCEPT ![t] = new]
        /\ UNCHANGED <<ledger, analysis, synthesis, selection, old, delivered, restarted, spent>>
    BY <1>3 DEF Attempt!RecoverLatest, Attempt!Ready
  <2>2. new \in Jobs /\ new.pc \in {"lookup", "wait"} /\ (new.pc = "lookup" => synthesis)
    BY <1>1, JobIdle DEF Jobs
  <2> HIDE DEF new
  <2>3. /\ task' \in [Tasks -> Jobs] /\ \A v \in Tasks \ {t} : task'[v] = task[v]
        /\ task'[t].pc \in {"idle", "lookup", "wait"} /\ (task'[t].pc = "lookup" => synthesis)
    BY <2>1, <2>2, JobLeave, JobMove
  <2> QED  BY <2>1, <2>3 DEF JobTypes, Running, Harmless
<1>4. CASE Attempt!Lookup(t)
  <2>1. /\ task[t].pc = "lookup" /\ synthesis
        /\ Attempt!Goto(t, "claim") \/ Attempt!Goto(t, "judge")
        /\ spent' = spent \/ Attempt!Spend("lookups")
        /\ UNCHANGED <<ledger, analysis, synthesis, selection, old, delivered, restarted>>
    BY <1>4 DEF Attempt!Lookup, Grounds, Grounded
  <2>2. spent' \in [Attempt!Faults -> Nat] /\ (Harmless' => Harmless)
    BY <2>1, JobSpend DEF JobTypes, Harmless, Attempt!Faults
  <2> QED  BY <1>1, <2>1, <2>2, JobGoto DEF JobTypes, Running
<1>5. CASE Attempt!Judge(t)
  <2>1. /\ task[t].pc = "judge"
        /\ Attempt!Block(t, "lookup") \/ Attempt!Goto(t, "wait")
        /\ UNCHANGED <<ledger, analysis, synthesis, selection, old, delivered, restarted, spent>>
    BY <1>5 DEF Attempt!Judge
  <2>2. "lookup" \in Reasons
    BY DEF Reasons
  <2> QED  BY <1>1, <2>1, <2>2, JobGoto, JobBlock DEF JobTypes, Running, Harmless
<1>6. CASE Attempt!Wait(t)
  <2> DEFINE waits == CASE ledger.status = "absent" -> 0
                        [] ledger.waits >= MaxWaits -> MaxWaits
                        [] OTHER                    -> ledger.waits + 1
             new == [task[t] EXCEPT !.pc = "waitSave", !.waits = waits]
  <2>1. /\ task[t].pc = "wait" /\ task' = [task EXCEPT ![t].pc = "waitSave", ![t].waits = waits]
        /\ UNCHANGED <<ledger, analysis, synthesis, selection, old, delivered, restarted, spent>>
    BY <1>6 DEF Attempt!Wait
  <2>2. waits \in 0..MaxWaits
    <3>1. ledger.waits \in 0..MaxWaits /\ MaxWaits \in Nat
      BY DEF JobTypes, Ledgers
    <3>2. CASE ledger.status = "absent"
      BY <3>1, <3>2
    <3>3. CASE ledger.status # "absent" /\ ledger.waits >= MaxWaits
      BY <3>1, <3>3
    <3>4. CASE ledger.status # "absent" /\ ~(ledger.waits >= MaxWaits)
      <4>1. waits = ledger.waits + 1
        BY <3>4
      <4> HIDE DEF waits
      <4> QED  BY <3>1, <3>4, <4>1
    <3> QED  BY <3>2, <3>3, <3>4
  <2> HIDE DEF waits
  <2>3. new \in Jobs /\ new.pc = "waitSave"
    <3>1. task[t] \in Jobs
      BY DEF JobTypes
    <3> QED  BY <1>1, <2>2, <3>1 DEF Jobs
  <2>4. task' = [task EXCEPT ![t] = new]
    BY <2>1 DEF JobTypes
  <2> HIDE DEF new
  <2>5. task' \in [Tasks -> Jobs] /\ task'[t].pc = "waitSave" /\ \A v \in Tasks \ {t} : task'[v] = task[v]
    BY <2>3, <2>4, JobMove
  <2> QED  BY <2>1, <2>5 DEF JobTypes, Running, Harmless
<1>7. ASSUME task[t].pc \in {"waitSave", "block", "fail"}, Attempt!Leave(t), NEW new \in Ledgers,
             new.status \in {"waiting", "blocked", "failed"}, Attempt!SaveAttempt(new)
      PROVE  /\ task' \in [Tasks -> Jobs] /\ \A v \in Tasks \ {t} : task'[v] = task[v]
             /\ ~Running(t) /\ task'[t].pc = "idle"
             /\ ledger' \in Ledgers
             /\ ledger' = ledger \/ ledger'.status \in {"waiting", "blocked", "failed"}
  BY <1>7, JobLeave, Saving DEF Running
<1>8. CASE Attempt!WaitSave(t)
  <2> DEFINE new == [Attempt!NoRow EXCEPT !.status = "waiting", !.waits = task[t].waits]
  <2>1. new \in Ledgers /\ new.status = "waiting"
    <3>1. task[t].waits \in 0..MaxWaits
      BY DEF JobTypes, Jobs
    <3> QED  BY EmptyRow, <3>1 DEF Ledgers, Attempt!Statuses
  <2>2. /\ task[t].pc = "waitSave" /\ Attempt!SaveAttempt(new) /\ Attempt!Leave(t)
        /\ UNCHANGED <<analysis, synthesis, selection, old, delivered, restarted, spent>>
    BY <1>8 DEF Attempt!WaitSave
  <2> HIDE DEF new
  <2> QED  BY <1>7, <2>1, <2>2 DEF JobTypes, Harmless
<1>9. CASE Attempt!BlockSave(t)
  <2> DEFINE new == [Attempt!NoRow EXCEPT !.status = "blocked",
                                          !.open = task[t].reason = "notInvoked"]
  <2>1. new \in Ledgers /\ new.status = "blocked"
    <3>1. (task[t].reason = "notInvoked") \in BOOLEAN
      OBVIOUS
    <3> QED  BY EmptyRow, <3>1 DEF Ledgers, Attempt!Statuses
  <2>2. /\ task[t].pc = "block"
        /\ \/ Attempt!Goto(t, "wait") /\ ledger' = ledger
           \/ Attempt!SaveAttempt(new) /\ Attempt!Leave(t)
        /\ UNCHANGED <<analysis, synthesis, selection, old, delivered, restarted, spent>>
    BY <1>9 DEF Attempt!BlockSave
  <2> HIDE DEF new
  <2>3. CASE Attempt!Goto(t, "wait") /\ ledger' = ledger
    BY <1>1, <2>2, <2>3, JobGoto DEF JobTypes, Running, Harmless
  <2>4. CASE Attempt!SaveAttempt(new) /\ Attempt!Leave(t)
    BY <1>7, <2>1, <2>2, <2>4 DEF JobTypes, Harmless
  <2> QED  BY <2>2, <2>3, <2>4
<1>10. CASE Attempt!FailSave(t)
  <2> DEFINE new == [Attempt!NoRow EXCEPT !.status = "failed"]
  <2>1. new \in Ledgers /\ new.status = "failed"
    BY EmptyRow DEF Ledgers, Attempt!Statuses
  <2>2. /\ task[t].pc = "fail" /\ Attempt!SaveAttempt(new) /\ Attempt!Leave(t)
        /\ UNCHANGED <<analysis, synthesis, selection, old, delivered, restarted, spent>>
    BY <1>10 DEF Attempt!FailSave
  <2> HIDE DEF new
  <2> QED  BY <1>7, <2>1, <2>2 DEF JobTypes, Harmless
<1> QED  BY <1>2, <1>3, <1>4, <1>5, <1>6, <1>8, <1>9, <1>10 DEF Quiet

LEMMA JobSynthesise ==
  ASSUME JobTypes, Grounds, NEW t \in Tasks, Attempt!Synthesise(t)
  PROVE  /\ UNCHANGED <<ledger, analysis, selection, old, delivered, restarted, spent>>
         /\ synthesis' = TRUE /\ analysis = "exact" /\ ~Running(t)
         /\ task' \in [Tasks -> Jobs] /\ \A v \in Tasks \ {t} : task'[v] = task[v]
         /\ task'[t].pc \in {"forecast", "recover"}
<1>1. {"forecast", "recover"} \subseteq Stages
  BY DEF Stages
<1>2. Attempt!Goto(t, "forecast") \/ Attempt!Goto(t, "recover")
  BY DEF Attempt!Synthesise
<1> QED  BY <1>1, <1>2, JobGoto DEF Attempt!Synthesise, Grounds, Grounded, Running

LEMMA JobClaim ==
  ASSUME JobTypes, Grounds, NEW t \in Tasks, Attempt!Claim(t)
  PROVE  /\ UNCHANGED <<analysis, synthesis, selection, old, delivered, restarted, spent>>
         /\ synthesis /\ ~Running(t)
         /\ task' \in [Tasks -> Jobs] /\ \A v \in Tasks \ {t} : task'[v] = task[v]
         /\ ledger' \in Ledgers
         /\ \/ task'[t].pc = "simulate" /\ ledger'.status = "running"
            \/ task'[t].pc = "idle" /\ ledger' = ledger
<1>1. "simulate" \in Stages
  BY DEF Stages
<1>2. /\ [Attempt!NoRow EXCEPT !.status = "running"] \in Ledgers
      /\ [Attempt!NoRow EXCEPT !.status = "running"].status = "running"
  BY EmptyRow DEF Ledgers, Attempt!Statuses
<1>3. \/ Attempt!Goto(t, "simulate") /\ ledger' = [Attempt!NoRow EXCEPT !.status = "running"]
      \/ Attempt!Leave(t) /\ ledger' = ledger
  BY DEF Attempt!Claim
<1>4. task[t].pc = "claim" /\ synthesis /\ ledger \in Ledgers
  BY DEF Attempt!Claim, Attempt!At, Grounds, Grounded, JobTypes
<1> QED  BY <1>1, <1>2, <1>3, <1>4, JobGoto, JobLeave DEF Attempt!Claim, Running

LEMMA JobSimulate ==
  ASSUME JobTypes, Grounds, NEW t \in Tasks, Attempt!Simulate(t)
  PROVE  /\ UNCHANGED <<ledger, analysis, synthesis, old, delivered, restarted, spent>>
         /\ synthesis /\ selection' \in Results /\ (selection # NoResult => selection' = selection)
         /\ task' \in [Tasks -> Jobs] /\ \A v \in Tasks \ {t} : task'[v] = task[v]
         /\ task'[t].pc = "finish" /\ task'[t].result = selection'
<1>1. PICK mine \in Results :
        /\ selection' = IF selection = NoResult THEN mine ELSE selection
        /\ task' = [task EXCEPT ![t].pc = "finish", ![t].result = selection']
  BY DEF Attempt!Simulate, Attempt!Returned
<1>2. selection' \in Results /\ (selection # NoResult => selection' = selection)
  BY <1>1 DEF JobTypes
<1> DEFINE new == [task[t] EXCEPT !.pc = "finish", !.result = selection']
<1>3. new \in Jobs /\ new.pc = "finish" /\ new.result = selection'
  <2>1. task[t] \in Jobs /\ "finish" \in Stages
    BY DEF JobTypes, Stages
  <2> QED  BY <1>2, <2>1 DEF Jobs
<1>4. task' = [task EXCEPT ![t] = new]
  BY <1>1 DEF JobTypes
<1>5. synthesis
  BY DEF Attempt!Simulate, Attempt!At, Grounds, Grounded
<1> HIDE DEF new
<1>6. task' \in [Tasks -> Jobs] /\ task'[t] = new /\ \A v \in Tasks \ {t} : task'[v] = task[v]
  BY <1>3, <1>4, JobMove
<1> QED  BY <1>2, <1>3, <1>5, <1>6 DEF Attempt!Simulate

LEMMA JobFinish ==
  ASSUME JobTypes, Grounds, NEW t \in Tasks, Attempt!Finish(t)
  PROVE  /\ UNCHANGED <<analysis, synthesis, selection, old, delivered, restarted, spent>>
         /\ task' \in [Tasks -> Jobs] /\ \A v \in Tasks \ {t} : task'[v] = task[v]
         /\ task'[t].pc = "idle" /\ selection # NoResult
         /\ ledger' \in Ledgers
         /\ \/ ledger' = ledger /\ ledger.status # "running"
            \/ ledger'.status = "done" /\ ledger'.result = selection
<1>1. task[t].pc = "finish" /\ task[t].result = selection /\ selection # NoResult
  BY DEF Attempt!Finish, Attempt!At, Grounds, Grounded
<1> DEFINE new == [Attempt!NoRow EXCEPT !.status = "done", !.result = task[t].result]
<1>2. new \in Ledgers /\ new.status = "done" /\ new.result = selection
  <2>1. task[t].result \in Results \cup {NoResult}
    BY <1>1 DEF JobTypes
  <2> QED  BY EmptyRow, <1>1, <2>1 DEF Ledgers, Attempt!Statuses
<1>3. /\ Attempt!SaveAttempt(new) /\ Attempt!Leave(t)
      /\ UNCHANGED <<analysis, synthesis, selection, old, delivered, restarted, spent>>
  BY DEF Attempt!Finish
<1> HIDE DEF new
<1> QED  BY <1>1, <1>2, <1>3, Saving, JobLeave

LEMMA JobError ==
  ASSUME JobTypes, NEW t \in Tasks, Attempt!Error(t)
  PROVE  /\ UNCHANGED <<ledger, analysis, synthesis, selection, old, delivered, restarted>>
         /\ spent' \in [Attempt!Faults -> Nat] /\ ~Harmless'
         /\ task' \in [Tasks -> Jobs] /\ \A v \in Tasks \ {t} : task'[v] = task[v]
         /\ task'[t].pc \in {"idle", "block", "recover", "fail"}
<1>1. {"recover", "fail"} \subseteq Stages /\ {"synthesis", "notInvoked"} \subseteq Reasons
  BY DEF Stages, Reasons
<1>2. \/ Attempt!Block(t, "synthesis") \/ Attempt!Block(t, "notInvoked") \/ Attempt!Goto(t, "recover")
      \/ Attempt!Goto(t, "fail") \/ Attempt!Leave(t)
  BY DEF Attempt!Error, Attempt!AfterError
<1>3. spent' \in [Attempt!Faults -> Nat] /\ ~Harmless'
  BY JobSpend DEF Attempt!Error, Attempt!Faults
<1> QED  BY <1>1, <1>2, <1>3, JobGoto, JobBlock, JobLeave DEF Attempt!Error

LEMMA JobCrash ==
  ASSUME JobTypes, NEW t \in Tasks, Attempt!Crash(t)
  PROVE  /\ UNCHANGED <<ledger, analysis, synthesis, selection, old, delivered>>
         /\ restarted' \in [Tasks -> BOOLEAN]
         /\ spent' \in [Attempt!Faults -> Nat] /\ ~Harmless'
         /\ task' \in [Tasks -> Jobs] /\ \A v \in Tasks \ {t} : task'[v] = task[v]
         /\ task'[t].pc = "idle"
<1>1. spent' \in [Attempt!Faults -> Nat] /\ ~Harmless'
  BY JobSpend DEF Attempt!Crash, Attempt!Faults
<1>2. restarted' \in [Tasks -> BOOLEAN]
  BY DEF Attempt!Crash, JobTypes
<1> QED  BY <1>1, <1>2, JobLeave DEF Attempt!Crash

-----------------------------------------------------------------------------
(* The invariant is inductive.                                              *)

(* The environment, and what fails. *)
Outside(t) == Attempt!Error(t) \/ Attempt!Crash(t)

LEMMA AttemptTypesStep == JobTypes /\ Grounds /\ [Attempt!Next]_(Attempt!vars) => JobTypes'
<1> SUFFICES ASSUME JobTypes, Grounds, [Attempt!Next]_(Attempt!vars) PROVE JobTypes'
  OBVIOUS
<1>1. ASSUME NEW t \in Tasks, Attempt!Deliver(t) \/ Attempt!Recover(t) PROVE JobTypes'
  BY <1>1, JobDeliver, JobRecover DEF JobTypes
<1>2. ASSUME NEW t \in Tasks, Quiet(t) PROVE JobTypes'
  BY <1>2, JobQuiet DEF JobTypes
<1>3. ASSUME NEW t \in Tasks, Attempt!Synthesise(t) \/ Attempt!Claim(t) PROVE JobTypes'
  BY <1>3, JobSynthesise, JobClaim DEF JobTypes
<1>4. ASSUME NEW t \in Tasks, Attempt!Simulate(t) \/ Attempt!Finish(t) PROVE JobTypes'
  BY <1>4, JobSimulate, JobFinish DEF JobTypes
<1>5. ASSUME NEW t \in Tasks, Outside(t) PROVE JobTypes'
  BY <1>5, JobError, JobCrash DEF JobTypes, Outside
<1>6. ASSUME Attempt!Answer \/ Attempt!Age PROVE JobTypes'
  BY <1>6 DEF JobTypes, Attempt!Answer, Attempt!Age
<1>7. CASE UNCHANGED Attempt!vars
  BY <1>7 DEF JobTypes, Attempt!vars
<1> QED
  BY <1>1, <1>2, <1>3, <1>4, <1>5, <1>6, <1>7 DEF Attempt!Next, Attempt!Work, Quiet, Outside

LEMMA GroundsStep == JobTypes /\ Grounds /\ [Attempt!Next]_(Attempt!vars) => Grounds'
<1> SUFFICES ASSUME JobTypes, Grounds, [Attempt!Next]_(Attempt!vars) PROVE Grounds'
  OBVIOUS
<1>1. ASSUME NEW t \in Tasks, \A v \in Tasks \ {t} : task'[v] = task[v], Grounded(t)',
             analysis' = analysis, synthesis => synthesis', synthesis' => analysis = "exact",
             selection # NoResult => selection' = selection, selection' # NoResult => synthesis',
             ledger'.status = "done" =>
               ledger' = ledger \/ (ledger'.result = selection' /\ selection' # NoResult)
      PROVE  Grounds'
  <2>1. \A v \in Tasks \ {t} : Grounded(v)'
    BY <1>1 DEF Grounds, Grounded
  <2> QED  BY <1>1, <2>1 DEF Grounds
<1>2. ASSUME NEW t \in Tasks, \A v \in Tasks \ {t} : task'[v] = task[v], Grounded(t)',
             UNCHANGED <<analysis, synthesis, selection>>,
             ledger' = ledger \/ ledger'.status # "done"
      PROVE  Grounds'
  BY <1>1, <1>2 DEF Grounds
<1>3. ASSUME NEW t \in Tasks, Attempt!Deliver(t) PROVE Grounds'
  BY <1>2, <1>3, JobDeliver DEF Grounded
<1>4. ASSUME NEW t \in Tasks, Attempt!Recover(t) PROVE Grounds'
  BY <1>2, <1>4, JobRecover DEF Grounded
<1>5. ASSUME NEW t \in Tasks, Quiet(t) PROVE Grounds'
  BY <1>2, <1>5, JobQuiet DEF Grounded
<1>6. ASSUME NEW t \in Tasks, Attempt!Synthesise(t) PROVE Grounds'
  BY <1>1, <1>6, JobSynthesise DEF Grounded, Grounds
<1>7. ASSUME NEW t \in Tasks, Attempt!Claim(t) PROVE Grounds'
  BY <1>2, <1>7, JobClaim DEF Grounded
<1>8. ASSUME NEW t \in Tasks, Attempt!Simulate(t) PROVE Grounds'
  <2>1. Grounded(t)'
    BY <1>8, JobSimulate DEF Grounded
  <2> QED  BY <1>1, <1>8, <2>1, JobSimulate DEF Grounds
<1>9. ASSUME NEW t \in Tasks, Attempt!Finish(t) PROVE Grounds'
  <2>1. Grounded(t)'
    BY <1>9, JobFinish DEF Grounded
  <2> QED  BY <1>1, <1>9, <2>1, JobFinish DEF Grounds
<1>10. ASSUME NEW t \in Tasks, Attempt!Error(t) PROVE Grounds'
  BY <1>2, <1>10, JobError DEF Grounded
<1>11. ASSUME NEW t \in Tasks, Attempt!Crash(t) PROVE Grounds'
  BY <1>2, <1>11, JobCrash DEF Grounded
<1>12. ASSUME Attempt!Answer PROVE Grounds'
  BY <1>12 DEF Attempt!Answer, Grounds, Grounded
<1>13. ASSUME UNCHANGED <<ledger, analysis, synthesis, selection, task>> PROVE Grounds'
  BY <1>13 DEF Grounds, Grounded
<1>14. ASSUME Attempt!Age \/ UNCHANGED Attempt!vars PROVE Grounds'
  BY <1>13, <1>14 DEF Attempt!Age, Attempt!vars
<1> QED
  BY <1>3, <1>4, <1>5, <1>6, <1>7, <1>8, <1>9, <1>10, <1>11, <1>12, <1>14
  DEF Attempt!Next, Attempt!Work, Quiet

LEMMA RunnerStep == JobTypes /\ Grounds /\ Runner /\ [Attempt!Next]_(Attempt!vars) => Runner'
<1> SUFFICES ASSUME JobTypes, Grounds, Runner, [Attempt!Next]_(Attempt!vars) PROVE Runner'
  OBVIOUS
<1>1. ASSUME NEW t \in Tasks, \A v \in Tasks \ {t} : task'[v] = task[v], ~Running(t),
             Harmless' => Harmless, ledger' = ledger \/ ledger'.status # "running"
      PROVE  Runner'
  BY <1>1 DEF Runner, Running
<1>2. ASSUME NEW t \in Tasks, Attempt!Deliver(t) PROVE Runner'
  BY <1>1, <1>2, JobDeliver DEF Running
<1>3. ASSUME NEW t \in Tasks, Attempt!Recover(t) PROVE Runner'
  BY <1>1, <1>3, JobRecover DEF Running, Harmless
<1>4. ASSUME NEW t \in Tasks, Quiet(t) PROVE Runner'
  BY <1>1, <1>4, JobQuiet
<1>5. ASSUME NEW t \in Tasks, Attempt!Synthesise(t) PROVE Runner'
  BY <1>1, <1>5, JobSynthesise DEF Harmless
<1>6. ASSUME NEW t \in Tasks, Running(t)' PROVE Runner'
  BY <1>6 DEF Runner
<1>7. ASSUME NEW t \in Tasks, Attempt!Claim(t) PROVE Runner'
  BY <1>1, <1>6, <1>7, JobClaim DEF Harmless, Running
<1>8. ASSUME NEW t \in Tasks, Attempt!Simulate(t) PROVE Runner'
  BY <1>6, <1>8, JobSimulate DEF Running
<1>9. ASSUME NEW t \in Tasks, Attempt!Finish(t) PROVE Runner'
  BY <1>9, JobFinish DEF Runner
<1>10. ASSUME NEW t \in Tasks, Outside(t) PROVE Runner'
  BY <1>10, JobError, JobCrash DEF Outside, Runner
<1>11. ASSUME UNCHANGED <<ledger, spent, task>> PROVE Runner'
  BY <1>11 DEF Runner, Running, Harmless
<1>12. ASSUME Attempt!Answer \/ Attempt!Age \/ UNCHANGED Attempt!vars PROVE Runner'
  BY <1>11, <1>12 DEF Attempt!Answer, Attempt!Age, Attempt!vars
<1> QED
  BY <1>2, <1>3, <1>4, <1>5, <1>7, <1>8, <1>9, <1>10, <1>12
  DEF Attempt!Next, Attempt!Work, Quiet, Outside

LEMMA AttemptInit == Attempt!Init => AttemptInv
<1> SUFFICES ASSUME Attempt!Init PROVE AttemptInv
  OBVIOUS
<1>1. /\ Attempt!NoRow.status = "absent"
      /\ \A t \in Tasks : task[t] = Attempt!Idle /\ task[t].pc = "idle"
  BY JobIdle DEF Attempt!Init, Attempt!NoRow
<1> QED
  BY <1>1, JobIdle, EmptyRow DEF Attempt!Init, AttemptInv, JobTypes, Grounds, Grounded, Runner

LEMMA AttemptStep == AttemptInv /\ [Attempt!Next]_(Attempt!vars) => AttemptInv'
  BY AttemptTypesStep, GroundsStep, RunnerStep DEF AttemptInv

-----------------------------------------------------------------------------
(* The properties of the attempts.                                          *)

(* An attempt takes its steps, or rests while the outbox takes one. *)
LEMMA AttemptRuns == Spec => Attempt!Init /\ [][Attempt!Next]_(Attempt!vars)
<1>1. Init => Attempt!Init
  BY DEF Init
<1>2. [Next]_vars => [Attempt!Next]_(Attempt!vars)
  BY DEF Next, vars, attemptVars, Attempt!vars
<1> QED  BY <1>1, <1>2, PTL DEF Spec

LEMMA AttemptInvariant == Spec => []AttemptInv
  BY AttemptInit, AttemptStep, AttemptRuns, PTL

(* The variables of the outbox and of the attempts have their types, the    *)
(* locks their holders and the simulations their inputs.                    *)
THEOREM TypeCorrect == Spec => []TypeOK
<1>1. AttemptInv => Attempt!TypeOK
  BY DEF AttemptInv, JobTypes, Grounds, Attempt!TypeOK, Jobs, Stages, Reasons, Ledgers
<1>2. IInv /\ AttemptInv => TypeOK
  BY <1>1, CandleTypes DEF TypeOK
<1> QED  BY <1>2, CandleInvariant, AttemptInvariant, PTL

(* A finished attempt tells of the stored selection, however many tasks     *)
(* simulated, and a running one has a task that runs it unless one died or  *)
(* failed.                                                                  *)
THEOREM TheLedgerIsTrue == Spec => []LedgerIsTrue
<1>1. AttemptInv => LedgerIsTrue
  <2> SUFFICES ASSUME AttemptInv PROVE Attempt!LedgerIsTrue
    BY DEF LedgerIsTrue
  <2>1. ledger.status = "done" => ledger.result # NoResult /\ ledger.result = selection
    BY DEF AttemptInv, Grounds
  <2>2. ledger.status = "running" /\ spent["crashes"] + spent["errors"] = 0 =>
          \E t \in Tasks : task[t].pc \in {"simulate", "finish"}
    BY DEF AttemptInv, Runner, Running, Harmless
  <2> QED  BY <2>1, <2>2 DEF Attempt!LedgerIsTrue
<1> QED  BY <1>1, AttemptInvariant, PTL

(* No step changes an attempt that is done or blocked for good: neither the *)
(* claim nor the WHERE of save_attempt lets it.                             *)
LEMMA FinalStep == Attempt!Final /\ [Attempt!Next]_(Attempt!vars) => ledger' = ledger
<1> SUFFICES ASSUME Attempt!Final, [Attempt!Next]_(Attempt!vars) PROVE ledger' = ledger
  OBVIOUS
<1>1. ~Attempt!Overwritable /\ ~Attempt!Claimable
  BY DEF Attempt!Final, Attempt!Overwritable, Attempt!Claimable
<1>2. ASSUME NEW new, Attempt!SaveAttempt(new) PROVE ledger' = ledger
  BY <1>1, <1>2 DEF Attempt!SaveAttempt
<1>3. ASSUME NEW t \in Tasks,
             \/ Attempt!WaitSave(t) \/ Attempt!BlockSave(t) \/ Attempt!Finish(t) \/ Attempt!FailSave(t)
      PROVE  ledger' = ledger
  BY <1>2, <1>3 DEF Attempt!WaitSave, Attempt!BlockSave, Attempt!Finish, Attempt!FailSave
<1>4. ASSUME NEW t \in Tasks, Attempt!Claim(t) PROVE ledger' = ledger
  BY <1>1, <1>4 DEF Attempt!Claim
<1>5. ASSUME NEW t \in Tasks,
             \/ Attempt!Deliver(t) \/ Attempt!Recover(t) \/ Attempt!Error(t) \/ Attempt!Crash(t)
             \/ Attempt!Synthesise(t) \/ Attempt!Forecast(t) \/ Attempt!RecoverLatest(t)
             \/ Attempt!Lookup(t) \/ Attempt!Judge(t) \/ Attempt!Wait(t) \/ Attempt!Simulate(t)
      PROVE  ledger' = ledger
  BY <1>5 DEF Attempt!Deliver, Attempt!Recover, Attempt!Error, Attempt!Crash, Attempt!Synthesise,
     Attempt!Forecast, Attempt!RecoverLatest, Attempt!Lookup, Attempt!Judge, Attempt!Wait,
     Attempt!Simulate
<1>6. CASE Attempt!Answer \/ Attempt!Age \/ UNCHANGED Attempt!vars
  BY <1>6 DEF Attempt!Answer, Attempt!Age, Attempt!vars
<1> QED  BY <1>3, <1>4, <1>5, <1>6 DEF Attempt!Next, Attempt!Work

THEOREM FinalStands == Spec => FinalStays
<1>1. [Attempt!Next]_(Attempt!vars) => [Attempt!Final => ledger' = ledger]_(Attempt!vars)
  BY FinalStep
<1> QED  BY <1>1, AttemptRuns, PTL DEF FinalStays, Attempt!FinalStays
=============================================================================
