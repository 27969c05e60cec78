---------------------------- MODULE OutboxProofs ----------------------------
(***************************************************************************)
(* Proofs about the integration outbox of CandlePath, for any number of    *)
(* events, tasks, processes and faults.                                    *)
(***************************************************************************)
EXTENDS CandlePath, FiniteSetTheorems, TLAPS

USE CandlePathAssumption DEF Candle!OutboxAssumption

(* TypeOK without the locks; a delivery is of an event.                     *)
Delivering == Candle!Critical \cup {"lock", "complete", "fail"}
Phases == Delivering \cup {"idle", "batch"}
Runs == [pc : Phases, batch : SUBSET Events, event : Events \cup {NoEvent},
         decision : Candle!Outcomes \cup {"open", "blocked"}, full : BOOLEAN]
Rows == [status : {"absent", "waiting", "published"}, leased : BOOLEAN,
         by : Processes \cup {NoProcess, Dead}, due : BOOLEAN]
Types ==
  /\ row \in [Events -> Rows]
  /\ stale \in [Events -> BOOLEAN]
  /\ processed \subseteq Events
  /\ signals \subseteq [event : Events, decision : Decisions]
  /\ verdict \in [Events -> Candle!Outcomes \cup {"open", "blocked"}]
  /\ run \in [Tasks -> Runs]
  /\ lock \in [Processes -> Tasks \cup {NoTask}]
  /\ circuit \in [Processes -> BOOLEAN]
  /\ used \in [Candle!Faults -> Nat]
  /\ \A t \in Tasks : run[t].pc \in Delivering => run[t].event \in Events \ run[t].batch
  /\ \A t \in Tasks : run[t].pc = "idle" => run[t].batch = {}

Locks ==
  /\ \A p \in Processes : lock[p] # NoTask =>
       Home[lock[p]] = p /\ run[lock[p]].pc \in Candle!Critical
  /\ \A t \in Tasks : run[t].pc \in Candle!Critical => lock[Home[t]] = t

(* The events a task is to deliver or to record the failure of. *)
Has(t, e) == e \in run[t].batch \/ (run[t].event = e /\ run[t].pc \in Delivering)

(* An unclaimed row is not leased, and only claimed events are delivered. *)
Leases ==
  \A e \in Events :
    /\ row[e].status # "waiting" => ~row[e].leased /\ row[e].by = NoProcess
    /\ row[e].leased => row[e].by # NoProcess
    /\ row[e].status = "published" => e \in processed
    /\ \A t \in Tasks : Has(t, e) => row[e].status # "absent"

(* What a delivery has done by the time it gets somewhere. *)
Progress ==
  \A t \in Tasks :
    /\ run[t].pc = "publish" => run[t].decision \in Decisions
    /\ run[t].pc = "mark" =>
         /\ run[t].decision # "open"
         /\ run[t].decision \in Decisions =>
              [event |-> run[t].event, decision |-> run[t].decision] \in signals
    /\ run[t].pc \in {"trace", "complete"} => run[t].event \in processed

Marks ==
  \A e \in processed :
    /\ verdict[e] # "open"
    /\ verdict[e] \in Decisions => [event |-> e, decision |-> verdict[e]] \in signals

(* An event may be claimed by one more task, unless its row is leased for   *)
(* one that has it.                                                         *)
Having(e) == { t \in Tasks : Has(t, e) }
Held(e) == row[e].leased /\ \E t \in Tasks : Has(t, e) /\ Home[t] = row[e].by
Holders(e) == Cardinality(Having(e)) + (IF Held(e) THEN 0 ELSE 1)

(* It may get a signal from each task that is yet to publish or to fail,    *)
(* and from one more if an unprocessed event may be claimed again.          *)
SignalsOf(e) == { s \in signals : s.event = e }
MayPublish(t, e) ==
  \/ run[t].event = e /\ run[t].pc \in {"run", "publish", "fail"}
  \/ e \notin processed /\ (e \in run[t].batch \/ (run[t].event = e /\ run[t].pc = "lock"))
Publishers(e) == { t \in Tasks : MayPublish(t, e) }
Open(e) == e \notin processed /\ ~Held(e)
Cost(e) ==
  Cardinality(SignalsOf(e)) + Cardinality(Publishers(e)) + (IF Open(e) THEN 1 ELSE 0)

Budget ==
  \A e \in Events :
    /\ IsFiniteSet(SignalsOf(e))
    /\ Holders(e) <= 1 + used["overruns"]
    /\ Cost(e) <= 1 + Candle!FaultsSoFar

(* Without faults a signal is followed by its mark. *)
Undisturbed ==
  Candle!FaultsSoFar = 0 =>
    /\ \A e \in Events \ processed : SignalsOf(e) # {} =>
         \E t \in Tasks : /\ run[t].event = e /\ run[t].pc = "mark"
                          /\ run[t].decision \in Decisions
    /\ \A t \in Tasks : run[t].pc \in {"run", "publish", "mark"} => run[t].event \notin processed
    /\ \A e \in processed : verdict[e] = "blocked" => SignalsOf(e) = {}

IInv == Types /\ Locks /\ Leases /\ Progress /\ Marks /\ Budget /\ Undisturbed

-----------------------------------------------------------------------------
(* The sets and counts of the outbox are those of FiniteSets.               *)

LEMMA SameFinite == \A S : Candle!IsFiniteSet(S) <=> IsFiniteSet(S)
  BY DEF Candle!IsFiniteSet, IsFiniteSet

LEMMA SameCount == \A S : Candle!Cardinality(S) = Cardinality(S)
  BY DEF Candle!Cardinality, Cardinality

-----------------------------------------------------------------------------
(* What the steps do to a task and to a row.                                *)

LEMMA Homes == \A t \in Tasks : Home[t] \in Processes
  OBVIOUS

LEMMA MoveStep ==
  ASSUME Types, NEW t \in Tasks, NEW new \in Runs, run' = [run EXCEPT ![t] = new]
  PROVE  run' \in [Tasks -> Runs] /\ run'[t] = new /\ \A v \in Tasks \ {t} : run'[v] = run[v]
  BY DEF Types

LEMMA RowStep ==
  ASSUME Types, NEW e \in Events, NEW new \in Rows, row' = [row EXCEPT ![e] = new]
  PROVE  row' \in [Events -> Rows] /\ row'[e] = new /\ \A f \in Events \ {e} : row'[f] = row[f]
  BY DEF Types

LEMMA GotoStep ==
  ASSUME Types, NEW t \in Tasks, NEW pc \in Phases, Candle!Goto(t, pc)
  PROVE  /\ run' \in [Tasks -> Runs] /\ \A v \in Tasks \ {t} : run'[v] = run[v]
         /\ run'[t].pc = pc /\ run'[t].batch = run[t].batch
         /\ run'[t].event = run[t].event /\ run'[t].decision = run[t].decision
  BY DEF Types, Candle!Goto, Runs

LEMMA LeaveStep ==
  ASSUME Types, NEW t \in Tasks, Candle!Leave(t)
  PROVE  /\ run' \in [Tasks -> Runs] /\ \A v \in Tasks \ {t} : run'[v] = run[v]
         /\ run'[t].pc = "idle" /\ run'[t].batch = {}
  BY DEF Types, Candle!Leave, Candle!Idle, Runs, Phases

LEMMA SpendStep ==
  ASSUME Types, NEW fault \in Candle!Faults, Candle!Spend(fault)
  PROVE  /\ used' \in [Candle!Faults -> Nat] /\ used'[fault] = used[fault] + 1
         /\ \A f \in Candle!Faults \ {fault} : used'[f] = used[f]
         /\ Candle!FaultsSoFar' = Candle!FaultsSoFar + 1
<1>1. /\ used' = [used EXCEPT ![fault] = used[fault] + 1]
      /\ \A f \in Candle!Faults : used[f] \in Nat
  BY DEF Types, Candle!Spend
<1>2. /\ used' \in [Candle!Faults -> Nat] /\ used'[fault] = used[fault] + 1
      /\ \A f \in Candle!Faults \ {fault} : used'[f] = used[f]
  BY <1>1 DEF Types
<1> QED  BY <1>1, <1>2 DEF Candle!FaultsSoFar, Candle!Faults

LEMMA EnqueueStep ==
  ASSUME Types, NEW e \in Events, Candle!Enqueue(e)
  PROVE  /\ UNCHANGED <<stale, processed, signals, verdict, run, lock, circuit, used>>
         /\ row' \in [Events -> Rows] /\ \A f \in Events \ {e} : row'[f] = row[f]
         /\ row[e].status = "absent" /\ row'[e].status = "waiting"
         /\ ~row'[e].leased /\ row'[e].by = NoProcess
  BY DEF Types, Candle!Enqueue, Candle!Free, Rows

(* The steps of time change at most the lease of one row. *)
Time ==
  \/ \E e \in Events : Candle!Age(e) \/ Candle!LeaseExpires(e) \/ Candle!BackoffEnds(e)
  \/ \E p \in Processes : Candle!CircuitCloses(p)

LEMMA TimeStep ==
  ASSUME Types, Time
  PROVE  /\ UNCHANGED <<processed, signals, verdict, run, lock>>
         /\ stale' \in [Events -> BOOLEAN] /\ circuit' \in [Processes -> BOOLEAN]
         /\ row' \in [Events -> Rows]
         /\ \A f \in Events : row'[f].status = row[f].status /\ row'[f].by = row[f].by
         /\ \/ used' = used /\ \A f \in Events : row'[f].leased = row[f].leased
            \/ \E e \in Events :
                 /\ row[e].leased /\ ~row'[e].leased
                 /\ \A f \in Events \ {e} : row'[f] = row[f]
                 /\ IF \E t \in Tasks : /\ Home[t] = row[e].by
                                        /\ e \in run[t].batch \cup {run[t].event}
                      THEN Candle!Spend("overruns") ELSE used' = used
<1>1. ASSUME NEW e \in Events, Candle!Age(e)
      PROVE  UNCHANGED <<row, processed, signals, verdict, run, lock, circuit, used>>
             /\ stale' \in [Events -> BOOLEAN]
  BY <1>1 DEF Candle!Age, Types
<1>2. ASSUME NEW p \in Processes, Candle!CircuitCloses(p)
      PROVE  UNCHANGED <<row, stale, processed, signals, verdict, run, lock, used>>
             /\ circuit' \in [Processes -> BOOLEAN]
  BY <1>2 DEF Candle!CircuitCloses, Types
<1>3. ASSUME NEW e \in Events, Candle!BackoffEnds(e)
      PROVE  /\ UNCHANGED <<stale, processed, signals, verdict, run, lock, circuit, used>>
             /\ row' \in [Events -> Rows]
             /\ \A f \in Events : /\ row'[f].status = row[f].status /\ row'[f].by = row[f].by
                                  /\ row'[f].leased = row[f].leased
  <2> DEFINE new == [row[e] EXCEPT !.due = TRUE]
  <2>1. /\ new \in Rows /\ new.leased = row[e].leased
        /\ new.status = row[e].status /\ new.by = row[e].by
    <3>1. row[e] \in Rows
      BY DEF Types
    <3> QED  BY <3>1 DEF Rows
  <2>2. row' = [row EXCEPT ![e] = new]
    BY <1>3 DEF Candle!BackoffEnds, Types
  <2> HIDE DEF new
  <2>3. /\ row' \in [Events -> Rows] /\ row'[e] = new
        /\ \A f \in Events \ {e} : row'[f] = row[f]
    BY <2>1, <2>2, RowStep
  <2> QED  BY <1>3, <2>1, <2>3 DEF Candle!BackoffEnds
<1>4. ASSUME NEW e \in Events, Candle!LeaseExpires(e)
      PROVE  /\ UNCHANGED <<stale, processed, signals, verdict, run, lock, circuit>>
             /\ row' \in [Events -> Rows] /\ row[e].leased /\ ~row'[e].leased
             /\ \A f \in Events \ {e} : row'[f] = row[f]
             /\ \A f \in Events : row'[f].status = row[f].status /\ row'[f].by = row[f].by
             /\ IF \E t \in Tasks : Home[t] = row[e].by /\ e \in run[t].batch \cup {run[t].event}
                  THEN Candle!Spend("overruns") ELSE used' = used
  <2> DEFINE new == [row[e] EXCEPT !.leased = FALSE]
  <2>1. new \in Rows /\ ~new.leased /\ new.status = row[e].status /\ new.by = row[e].by
    <3>1. row[e] \in Rows
      BY DEF Types
    <3> QED  BY <3>1 DEF Rows
  <2>2. row' = [row EXCEPT ![e] = new]
    BY <1>4 DEF Candle!LeaseExpires, Types
  <2> HIDE DEF new
  <2>3. /\ row' \in [Events -> Rows] /\ row'[e] = new
        /\ \A f \in Events \ {e} : row'[f] = row[f]
    BY <2>1, <2>2, RowStep
  <2> QED  BY <1>4, <2>1, <2>3 DEF Candle!LeaseExpires
<1> QED  BY <1>1, <1>2, <1>3, <1>4 DEF Time, Types

LEMMA ClaimStep ==
  ASSUME Types, NEW t \in Tasks, Candle!Claim(t)
  PROVE  /\ UNCHANGED <<stale, processed, signals, verdict, lock, circuit, used>>
         /\ run' \in [Tasks -> Runs] /\ \A v \in Tasks \ {t} : run'[v] = run[v]
         /\ run[t].pc = "idle" /\ run'[t].pc = "batch" /\ run[t].batch = {}
         /\ run'[t].batch \subseteq Events
         /\ row' \in [Events -> Rows]
         /\ \A e \in Events :
              IF e \in run'[t].batch
                THEN /\ row[e].status = "waiting" /\ ~row[e].leased
                     /\ row'[e].status = "waiting" /\ row'[e].leased /\ row'[e].by = Home[t]
                ELSE row'[e] = row[e]
<1>1. PICK batch \in SUBSET Candle!Pending :
        /\ row' = [e \in Events |-> IF e \in batch
                     THEN [row[e] EXCEPT !.by = Home[t], !.leased = TRUE] ELSE row[e]]
        /\ run' = [run EXCEPT ![t].pc = "batch", ![t].batch = batch]
  BY DEF Candle!Claim
<1>2. batch \subseteq Events /\ \A e \in batch : row[e].status = "waiting" /\ ~row[e].leased
  BY <1>1 DEF Candle!Pending
<1>3. /\ run' \in [Tasks -> Runs] /\ \A v \in Tasks \ {t} : run'[v] = run[v]
      /\ run'[t].pc = "batch" /\ run'[t].batch = batch
  <2> DEFINE new == [run[t] EXCEPT !.pc = "batch", !.batch = batch]
  <2>1. new \in Runs /\ new.pc = "batch" /\ new.batch = batch
    <3>1. run[t] \in Runs
      BY DEF Types
    <3> QED  BY <1>2, <3>1 DEF Runs, Phases
  <2>2. run' = [run EXCEPT ![t] = new]
    BY <1>1 DEF Types
  <2> HIDE DEF new
  <2> QED  BY <2>1, <2>2, MoveStep
<1>4. ASSUME NEW e \in Events
      PROVE  /\ row'[e] \in Rows
             /\ IF e \in batch
                  THEN row'[e].status = row[e].status /\ row'[e].leased /\ row'[e].by = Home[t]
                  ELSE row'[e] = row[e]
  <2> DEFINE new == [row[e] EXCEPT !.by = Home[t], !.leased = TRUE]
  <2>1. new \in Rows /\ new.status = row[e].status /\ new.leased /\ new.by = Home[t]
    <3>1. row[e] \in Rows /\ Home[t] \in Processes
      BY Homes DEF Types
    <3> QED  BY <3>1 DEF Rows
  <2>2. row'[e] = IF e \in batch THEN new ELSE row[e]
    BY <1>1
  <2> HIDE DEF new
  <2> QED  BY <2>1, <2>2 DEF Types
<1>5. row' \in [Events -> Rows]
  BY <1>1, <1>4
<1>6. run[t].pc = "idle" /\ run[t].batch = {}
  BY DEF Candle!Claim, Candle!At, Types
<1>7. UNCHANGED <<stale, processed, signals, verdict, lock, circuit, used>>
  BY DEF Candle!Claim
<1> QED  BY <1>2, <1>3, <1>4, <1>5, <1>6, <1>7

LEMMA DeliverStep ==
  ASSUME Types, NEW t \in Tasks, Candle!Deliver(t)
  PROVE  /\ UNCHANGED <<row, stale, processed, signals, verdict, lock, circuit, used>>
         /\ run' \in [Tasks -> Runs] /\ \A v \in Tasks \ {t} : run'[v] = run[v]
         /\ run[t].pc = "batch"
         /\ \/ run[t].batch = {} /\ run'[t].pc = "idle" /\ run'[t].batch = {}
            \/ \E e \in run[t].batch :
                 /\ e \in Events /\ run'[t].event = e /\ run'[t].batch = run[t].batch \ {e}
                 /\ run'[t].pc = IF e \in processed THEN "complete" ELSE "lock"
<1>1. CASE run[t].batch = {} /\ Candle!Leave(t)
  BY <1>1, LeaveStep DEF Candle!Deliver, Candle!At
<1>2. ASSUME NEW e \in run[t].batch,
             run' = [run EXCEPT ![t].event = e, ![t].batch = @ \ {e}, ![t].decision = "open",
                       ![t].pc = IF e \in processed THEN "complete" ELSE "lock"]
      PROVE  /\ run' \in [Tasks -> Runs] /\ \A v \in Tasks \ {t} : run'[v] = run[v]
             /\ e \in Events /\ run'[t].event = e /\ run'[t].batch = run[t].batch \ {e}
             /\ run'[t].pc = IF e \in processed THEN "complete" ELSE "lock"
  <2>1. run[t] \in Runs /\ e \in Events
    BY <1>2 DEF Types, Runs
  <2> DEFINE new == [run[t] EXCEPT !.event = e, !.batch = run[t].batch \ {e}, !.decision = "open",
                       !.pc = IF e \in processed THEN "complete" ELSE "lock"]
  <2>2. new \in Runs /\ new.event = e /\ new.batch = run[t].batch \ {e}
        /\ new.pc = IF e \in processed THEN "complete" ELSE "lock"
    BY <2>1 DEF Runs, Phases, Delivering
  <2>3. run' = [run EXCEPT ![t] = new]
    BY <1>2 DEF Types
  <2> HIDE DEF new
  <2> QED  BY <2>1, <2>2, <2>3, MoveStep
<1> QED  BY <1>1, <1>2 DEF Candle!Deliver, Candle!At

LEMMA EnterStep ==
  ASSUME Types, NEW t \in Tasks, Candle!Enter(t)
  PROVE  /\ UNCHANGED <<row, stale, processed, signals, verdict, circuit, used>>
         /\ run' \in [Tasks -> Runs] /\ \A v \in Tasks \ {t} : run'[v] = run[v]
         /\ run[t].pc = "lock" /\ run'[t].batch = run[t].batch /\ run'[t].event = run[t].event
         /\ lock[Home[t]] = NoTask /\ lock' \in [Processes -> Tasks \cup {NoTask}]
         /\ \/ run[t].event \in processed /\ run'[t].pc = "complete" /\ lock' = lock
            \/ /\ run[t].event \notin processed /\ run'[t].pc \in {"run", "mark"}
               /\ run'[t].pc = "mark" => run'[t].decision = "blocked"
               /\ lock'[Home[t]] = t /\ \A p \in Processes \ {Home[t]} : lock'[p] = lock[p]
<1>1. run[t].pc = "lock" /\ lock[Home[t]] = NoTask /\ Home[t] \in Processes
  BY DEF Candle!Enter, Candle!At
<1>2. CASE run[t].event \in processed
  <2>1. "complete" \in Phases /\ Candle!Goto(t, "complete") /\ lock' = lock
    BY <1>2 DEF Candle!Enter, Phases, Delivering
  <2> QED  BY <1>1, <1>2, <2>1, GotoStep DEF Candle!Enter, Types
<1>3. CASE run[t].event \notin processed
  <2>1. PICK blocked \in BOOLEAN :
          run' = [run EXCEPT ![t].pc = IF blocked THEN "mark" ELSE "run",
                             ![t].decision = IF blocked THEN "blocked" ELSE "open"]
    <3>1. (run[t].event \in Rejected \/ stale[run[t].event]) \in BOOLEAN
      BY DEF Types
    <3> QED  BY <1>3, <3>1 DEF Candle!Enter
  <2>2. /\ run' \in [Tasks -> Runs] /\ \A v \in Tasks \ {t} : run'[v] = run[v]
        /\ run'[t].batch = run[t].batch /\ run'[t].event = run[t].event
        /\ run'[t].pc \in {"run", "mark"} /\ (run'[t].pc = "mark" => run'[t].decision = "blocked")
    <3> DEFINE new == [run[t] EXCEPT !.pc = IF blocked THEN "mark" ELSE "run",
                                     !.decision = IF blocked THEN "blocked" ELSE "open"]
    <3>1. /\ new \in Runs /\ new.batch = run[t].batch /\ new.event = run[t].event
          /\ new.pc \in {"run", "mark"} /\ (new.pc = "mark" => new.decision = "blocked")
      <4>1. run[t] \in Runs
        BY DEF Types
      <4>2. {"mark", "run"} \subseteq Phases
        BY DEF Phases, Delivering, Candle!Critical
      <4> QED  BY <4>1, <4>2 DEF Runs
    <3>2. run' = [run EXCEPT ![t] = new]
      BY <2>1 DEF Types
    <3> HIDE DEF new
    <3> QED  BY <3>1, <3>2, MoveStep
  <2>3. lock' = [lock EXCEPT ![Home[t]] = t]
    BY <1>3 DEF Candle!Enter
  <2> QED  BY <1>1, <1>3, <2>2, <2>3 DEF Candle!Enter, Types
<1> QED  BY <1>2, <1>3

LEMMA EvaluateStep ==
  ASSUME Types, NEW t \in Tasks, Candle!Evaluate(t)
  PROVE  /\ UNCHANGED <<row, stale, processed, signals, verdict, lock, circuit, used>>
         /\ run' \in [Tasks -> Runs] /\ \A v \in Tasks \ {t} : run'[v] = run[v]
         /\ run[t].pc = "run" /\ run'[t].batch = run[t].batch /\ run'[t].event = run[t].event
         /\ \/ run'[t].pc = "publish" /\ run'[t].decision \in Decisions
            \/ run'[t].pc = "mark" /\ run'[t].decision = "ineligible"
<1>1. PICK d \in Candle!Outcomes :
        run' = [run EXCEPT ![t].decision = d,
                           ![t].pc = IF d \in Decisions THEN "publish" ELSE "mark"]
  BY DEF Candle!Evaluate
<1>2. /\ run' \in [Tasks -> Runs] /\ \A v \in Tasks \ {t} : run'[v] = run[v]
      /\ run'[t].batch = run[t].batch /\ run'[t].event = run[t].event /\ run'[t].decision = d
      /\ run'[t].pc = IF d \in Decisions THEN "publish" ELSE "mark"
  <2> DEFINE new == [run[t] EXCEPT !.decision = d,
                                   !.pc = IF d \in Decisions THEN "publish" ELSE "mark"]
  <2>1. /\ new \in Runs /\ new.batch = run[t].batch /\ new.event = run[t].event
        /\ new.decision = d /\ new.pc = IF d \in Decisions THEN "publish" ELSE "mark"
    <3>1. run[t] \in Runs
      BY DEF Types
    <3>2. {"mark", "publish"} \subseteq Phases
      BY DEF Phases, Delivering, Candle!Critical
    <3> QED  BY <3>1, <3>2 DEF Runs
  <2>2. run' = [run EXCEPT ![t] = new]
    BY <1>1 DEF Types
  <2> HIDE DEF new
  <2> QED  BY <2>1, <2>2, MoveStep
<1> QED  BY <1>2 DEF Candle!Evaluate, Candle!At, Candle!Outcomes

LEMMA PublishStep ==
  ASSUME Types, Progress, NEW t \in Tasks, Candle!Publish(t)
  PROVE  /\ UNCHANGED <<row, stale, processed, verdict, lock, circuit, used>>
         /\ run' \in [Tasks -> Runs] /\ \A v \in Tasks \ {t} : run'[v] = run[v]
         /\ run[t].pc = "publish" /\ run'[t].batch = run[t].batch /\ run'[t].event = run[t].event
         /\ run'[t].pc = "mark" /\ run'[t].decision = run[t].decision /\ run[t].decision \in Decisions
         /\ run[t].event \in Events
         /\ signals' = signals \cup {[event |-> run[t].event, decision |-> run[t].decision]}
  BY GotoStep DEF Candle!Publish, Candle!SignalRows, Candle!At, Progress, Types, Phases, Delivering,
     Candle!Critical

LEMMA MarkStep ==
  ASSUME Types, NEW t \in Tasks, Candle!Mark(t)
  PROVE  /\ UNCHANGED <<row, stale, signals, lock, circuit, used>>
         /\ run' \in [Tasks -> Runs] /\ \A v \in Tasks \ {t} : run'[v] = run[v]
         /\ run[t].pc = "mark" /\ run'[t].batch = run[t].batch /\ run'[t].event = run[t].event
         /\ run'[t].pc = "trace" /\ run[t].event \in Events
         /\ processed' = processed \cup {run[t].event}
         /\ verdict' \in [Events -> Candle!Outcomes \cup {"open", "blocked"}]
         /\ \A e \in Events : e \in processed \/ e # run[t].event => verdict'[e] = verdict[e]
         /\ run[t].event \notin processed => verdict'[run[t].event] = run[t].decision
<1>1. Candle!Goto(t, "trace") /\ "trace" \in Phases /\ run[t].pc = "mark" /\ run[t].event \in Events
  BY DEF Candle!Mark, Candle!At, Phases, Delivering, Candle!Critical, Types
<1>2. processed' = processed \cup {run[t].event}
  BY DEF Candle!Mark, Candle!Marked
<1>3. verdict' = [e \in Events |-> IF e \in processed' \ processed THEN run[t].decision ELSE verdict[e]]
  BY DEF Candle!Mark
<1>4. run[t].decision \in Candle!Outcomes \cup {"open", "blocked"}
  BY DEF Types, Runs
<1> QED  BY <1>1, <1>2, <1>3, <1>4, GotoStep DEF Candle!Mark, Types

LEMMA TraceStep ==
  ASSUME Types, NEW t \in Tasks, Candle!Trace(t)
  PROVE  /\ UNCHANGED <<row, stale, processed, signals, verdict, circuit, used>>
         /\ run' \in [Tasks -> Runs] /\ \A v \in Tasks \ {t} : run'[v] = run[v]
         /\ run[t].pc = "trace" /\ run'[t].batch = run[t].batch /\ run'[t].event = run[t].event
         /\ run'[t].pc = "complete"
         /\ lock' \in [Processes -> Tasks \cup {NoTask}]
         /\ \A p \in Processes : lock'[p] = IF lock[p] = t THEN NoTask ELSE lock[p]
  BY GotoStep DEF Candle!Trace, Candle!Unlocked, Candle!At, Types, Phases, Delivering

LEMMA CompleteStep ==
  ASSUME Types, NEW t \in Tasks, Candle!Complete(t)
  PROVE  /\ UNCHANGED <<stale, processed, signals, verdict, lock, used>>
         /\ run' \in [Tasks -> Runs] /\ \A v \in Tasks \ {t} : run'[v] = run[v]
         /\ run[t].pc = "complete" /\ run'[t].pc = "batch" /\ run'[t].batch = run[t].batch
         /\ run[t].event \in Events /\ circuit' \in [Processes -> BOOLEAN]
         /\ row' \in [Events -> Rows] /\ \A f \in Events \ {run[t].event} : row'[f] = row[f]
         /\ IF row[run[t].event].by = Home[t]
              THEN /\ row'[run[t].event].status = "published" /\ ~row'[run[t].event].leased
                   /\ row'[run[t].event].by = NoProcess
              ELSE row' = row
<1>1. /\ run[t].pc = "complete" /\ run[t].event \in Events /\ Candle!Goto(t, "batch")
      /\ "batch" \in Phases
  BY DEF Candle!Complete, Candle!At, Types, Delivering, Phases
<1>2. row' = IF row[run[t].event].by = Home[t]
               THEN [row EXCEPT ![run[t].event] = [Candle!Free EXCEPT !.status = "published"]] ELSE row
  BY DEF Candle!Complete, Candle!Holds
<1>3. [Candle!Free EXCEPT !.status = "published"] \in Rows
      /\ [Candle!Free EXCEPT !.status = "published"].status = "published"
      /\ [Candle!Free EXCEPT !.status = "published"].by = NoProcess
      /\ ~[Candle!Free EXCEPT !.status = "published"].leased
  BY DEF Candle!Free, Rows
<1>4. circuit' \in [Processes -> BOOLEAN]
  BY DEF Candle!Complete, Types
<1>5. /\ row' \in [Events -> Rows] /\ \A f \in Events \ {run[t].event} : row'[f] = row[f]
      /\ IF row[run[t].event].by = Home[t]
           THEN row'[run[t].event] = [Candle!Free EXCEPT !.status = "published"]
           ELSE row' = row
  <2>1. row \in [Events -> Rows]
    BY DEF Types
  <2> QED  BY <1>1, <1>2, <1>3, <2>1, RowStep
<1>6. UNCHANGED <<stale, processed, signals, verdict, lock, used>>
  BY DEF Candle!Complete
<1> QED  BY <1>1, <1>3, <1>4, <1>5, <1>6, GotoStep

LEMMA RaiseStep ==
  ASSUME Types, NEW t \in Tasks, Candle!Raise(t)
  PROVE  /\ UNCHANGED <<row, stale, processed, signals, verdict, circuit>>
         /\ run' \in [Tasks -> Runs] /\ \A v \in Tasks \ {t} : run'[v] = run[v]
         /\ run[t].pc \in Delivering \ {"fail"} /\ run'[t].pc = "fail"
         /\ run'[t].batch = run[t].batch /\ run'[t].event = run[t].event
         /\ lock' \in [Processes -> Tasks \cup {NoTask}]
         /\ \A p \in Processes : lock'[p] = IF lock[p] = t THEN NoTask ELSE lock[p]
         /\ Candle!Spend("errors") \/ Candle!Spend("exhaustions")
<1>1. PICK full \in BOOLEAN : /\ Candle!Spend(IF full THEN "exhaustions" ELSE "errors")
                              /\ run' = [run EXCEPT ![t].pc = "fail", ![t].full = full]
  BY DEF Candle!Raise
<1>2. /\ run' \in [Tasks -> Runs] /\ \A v \in Tasks \ {t} : run'[v] = run[v]
      /\ run'[t].pc = "fail" /\ run'[t].batch = run[t].batch /\ run'[t].event = run[t].event
  <2> DEFINE new == [run[t] EXCEPT !.pc = "fail", !.full = full]
  <2>1. new \in Runs /\ new.pc = "fail" /\ new.batch = run[t].batch /\ new.event = run[t].event
    <3>1. run[t] \in Runs /\ "fail" \in Phases
      BY DEF Types, Phases, Delivering
    <3> QED  BY <3>1 DEF Runs
  <2>2. run' = [run EXCEPT ![t] = new]
    BY <1>1 DEF Types
  <2> HIDE DEF new
  <2> QED  BY <2>1, <2>2, MoveStep
<1>3. run[t].pc \in Delivering \ {"fail"}
  BY DEF Candle!Raise, Delivering, Candle!Critical
<1>4. Candle!Spend("errors") \/ Candle!Spend("exhaustions")
  BY <1>1
<1> QED
  BY <1>2, <1>3, <1>4 DEF Candle!Raise, Candle!UnlockedOnError, Candle!Unlocked, Types

LEMMA FailStep ==
  ASSUME Types, NEW t \in Tasks, Candle!Fail(t)
  PROVE  /\ UNCHANGED <<stale, processed, signals, verdict, lock, used>>
         /\ run' \in [Tasks -> Runs] /\ \A v \in Tasks \ {t} : run'[v] = run[v]
         /\ run[t].pc = "fail" /\ run[t].event \in Events /\ circuit' \in [Processes -> BOOLEAN]
         /\ \/ run'[t].pc = "batch" /\ run'[t].batch = run[t].batch
            \/ run'[t].pc = "idle" /\ run'[t].batch = {}
         /\ row' \in [Events -> Rows] /\ \A f \in Events \ {run[t].event} : row'[f] = row[f]
         /\ \/ row' = row
            \/ /\ row[run[t].event].by = Home[t] /\ row'[run[t].event].status = "waiting"
               /\ ~row'[run[t].event].leased /\ row'[run[t].event].by = NoProcess
<1>1. run[t].pc = "fail" /\ run[t].event \in Events /\ "batch" \in Phases
  BY DEF Candle!Fail, Candle!At, Types, Delivering, Phases
<1>2. Candle!Goto(t, "batch") \/ Candle!Leave(t)
  BY DEF Candle!Fail
<1>3. \/ row' = row
      \/ /\ row[run[t].event].by = Home[t]
         /\ row' = [row EXCEPT ![run[t].event] = [Candle!Free EXCEPT !.due = FALSE]]
  BY DEF Candle!Fail, Candle!Holds
<1>4. [Candle!Free EXCEPT !.due = FALSE] \in Rows
      /\ [Candle!Free EXCEPT !.due = FALSE].status = "waiting"
      /\ [Candle!Free EXCEPT !.due = FALSE].by = NoProcess
      /\ ~[Candle!Free EXCEPT !.due = FALSE].leased
  BY DEF Candle!Free, Rows
<1>5. circuit' \in [Processes -> BOOLEAN]
  <2>1. run[t].full \in BOOLEAN
    BY DEF Types, Runs
  <2> QED  BY <2>1 DEF Candle!Fail, Types
<1>6. /\ row' \in [Events -> Rows] /\ \A f \in Events \ {run[t].event} : row'[f] = row[f]
      /\ \/ row' = row
         \/ /\ row[run[t].event].by = Home[t] /\ row'[run[t].event].status = "waiting"
            /\ ~row'[run[t].event].leased /\ row'[run[t].event].by = NoProcess
  <2>1. row \in [Events -> Rows]
    BY DEF Types
  <2> QED  BY <1>1, <1>3, <1>4, <2>1, RowStep
<1>7. UNCHANGED <<stale, processed, signals, verdict, lock, used>>
  BY DEF Candle!Fail
<1> QED  BY <1>1, <1>2, <1>5, <1>6, <1>7, GotoStep, LeaveStep

LEMMA CrashStep ==
  ASSUME Types, NEW p \in Processes, Candle!Crash(p)
  PROVE  /\ UNCHANGED <<stale, processed, signals, verdict>> /\ Candle!Spend("crashes")
         /\ run' \in [Tasks -> Runs] /\ row' \in [Events -> Rows]
         /\ circuit' \in [Processes -> BOOLEAN] /\ lock' \in [Processes -> Tasks \cup {NoTask}]
         /\ \A t \in Tasks : IF Home[t] = p THEN run'[t].pc = "idle" /\ run'[t].batch = {}
                                            ELSE run'[t] = run[t]
         /\ \A e \in Events : /\ row'[e].status = row[e].status /\ row'[e].leased = row[e].leased
                              /\ row'[e].by = IF row[e].by = p THEN Dead ELSE row[e].by
         /\ lock'[p] = NoTask /\ \A q \in Processes \ {p} : lock'[q] = lock[q]
<1>1. Candle!Idle \in Runs /\ Candle!Idle.pc = "idle" /\ Candle!Idle.batch = {}
  BY DEF Candle!Idle, Runs, Phases
<1>2. ASSUME NEW e \in Events
      PROVE  /\ [row[e] EXCEPT !.by = Dead] \in Rows /\ row[e] \in Rows
             /\ [row[e] EXCEPT !.by = Dead].status = row[e].status
             /\ [row[e] EXCEPT !.by = Dead].leased = row[e].leased
             /\ [row[e] EXCEPT !.by = Dead].by = Dead
  BY DEF Types, Rows
<1>3. /\ run' = [t \in Tasks |-> IF Home[t] = p THEN Candle!Idle ELSE run[t]]
      /\ row' = [e \in Events |-> IF row[e].by = p THEN [row[e] EXCEPT !.by = Dead] ELSE row[e]]
      /\ lock' = [lock EXCEPT ![p] = NoTask] /\ circuit' = [circuit EXCEPT ![p] = FALSE]
      /\ UNCHANGED <<stale, processed, signals, verdict>> /\ Candle!Spend("crashes")
  BY DEF Candle!Crash
<1> QED  BY <1>1, <1>2, <1>3 DEF Types

-----------------------------------------------------------------------------
(* The invariant is inductive: types, locks and leases.                     *)

LEMMA TypesStep == Types /\ Progress /\ [Candle!Next]_(Candle!vars) => Types'
<1> SUFFICES ASSUME Types, Progress, [Candle!Next]_(Candle!vars) PROVE Types'
  OBVIOUS
<1>1. ASSUME NEW e \in Events, Candle!Enqueue(e) PROVE Types'
  BY <1>1, EnqueueStep DEF Types
<1>2. CASE Time
  <2>1. used' \in [Candle!Faults -> Nat]
    BY <1>2, TimeStep, SpendStep DEF Types, Candle!Faults
  <2> QED  BY <1>2, <2>1, TimeStep DEF Types
<1>3. ASSUME NEW t \in Tasks, Candle!Claim(t) PROVE Types'
  BY <1>3, ClaimStep DEF Types, Delivering, Candle!Critical
<1>4. ASSUME NEW t \in Tasks, Candle!Deliver(t) PROVE Types'
  <2>1. run' \in [Tasks -> Runs] /\ \A v \in Tasks \ {t} : run'[v] = run[v]
    BY <1>4, DeliverStep
  <2>2. /\ run'[t].pc \in Delivering => run'[t].event \in Events
        /\ run'[t].pc = "idle" => run'[t].batch = {}
    BY <1>4, DeliverStep DEF Delivering, Candle!Critical
  <2> QED  BY <1>4, <2>1, <2>2, DeliverStep DEF Types
<1>5. ASSUME NEW t \in Tasks, Candle!Enter(t) PROVE Types'
  BY <1>5, EnterStep DEF Types, Delivering, Candle!Critical
<1>6. ASSUME NEW t \in Tasks, Candle!Evaluate(t) PROVE Types'
  BY <1>6, EvaluateStep DEF Types, Delivering, Candle!Critical
<1>7. ASSUME NEW t \in Tasks, Candle!Publish(t) PROVE Types'
  BY <1>7, PublishStep DEF Types, Delivering, Candle!Critical
<1>8. ASSUME NEW t \in Tasks, Candle!Mark(t) PROVE Types'
  BY <1>8, MarkStep DEF Types, Delivering, Candle!Critical
<1>9. ASSUME NEW t \in Tasks, Candle!Trace(t) PROVE Types'
  BY <1>9, TraceStep DEF Types, Delivering, Candle!Critical
<1>10. ASSUME NEW t \in Tasks, Candle!Complete(t) PROVE Types'
  BY <1>10, CompleteStep DEF Types, Delivering, Candle!Critical
<1>11. ASSUME NEW t \in Tasks, Candle!Raise(t) PROVE Types'
  <2>1. used' \in [Candle!Faults -> Nat]
    BY <1>11, RaiseStep, SpendStep DEF Candle!Faults
  <2> QED  BY <1>11, <2>1, RaiseStep DEF Types, Delivering
<1>12. ASSUME NEW t \in Tasks, Candle!Fail(t) PROVE Types'
  BY <1>12, FailStep DEF Types, Delivering, Candle!Critical
<1>13. ASSUME NEW p \in Processes, Candle!Crash(p) PROVE Types'
  <2>1. used' \in [Candle!Faults -> Nat]
    BY <1>13, CrashStep, SpendStep DEF Candle!Faults
  <2> QED  BY <1>13, <2>1, CrashStep DEF Types, Delivering, Candle!Critical
<1>14. CASE UNCHANGED Candle!vars
  BY <1>14 DEF Candle!vars, Types
<1> QED
  BY <1>1, <1>2, <1>3, <1>4, <1>5, <1>6, <1>7, <1>8, <1>9, <1>10, <1>11, <1>12, <1>13, <1>14
  DEF Candle!Next, Candle!Work, Time

(* Most steps of a task keep the locks and stay on their side of Critical. *)
LEMMA LocksKept ==
  ASSUME Types, Locks, NEW t \in Tasks, lock' = lock, \A v \in Tasks \ {t} : run'[v] = run[v],
         run[t].pc \in Candle!Critical <=> run'[t].pc \in Candle!Critical
  PROVE  Locks'
  BY DEF Types, Locks

LEMMA LocksStep == Types /\ Locks /\ Progress /\ [Candle!Next]_(Candle!vars) => Locks'
<1> SUFFICES ASSUME Types, Locks, Progress, [Candle!Next]_(Candle!vars) PROVE Locks'
  OBVIOUS
<1> USE DEF Candle!Critical
<1>1. CASE run' = run /\ lock' = lock
  BY <1>1 DEF Locks
<1>2. CASE (\E e \in Events : Candle!Enqueue(e)) \/ Time
  BY <1>1, <1>2, EnqueueStep, TimeStep
<1>3. ASSUME NEW t \in Tasks, Candle!Claim(t) PROVE Locks'
  BY <1>3, ClaimStep, LocksKept
<1>4. ASSUME NEW t \in Tasks, Candle!Deliver(t) PROVE Locks'
  BY <1>4, DeliverStep, LocksKept
<1>5. ASSUME NEW t \in Tasks, Candle!Enter(t) PROVE Locks'
  <2>1. CASE lock' = lock /\ run'[t].pc = "complete"
    BY <1>5, <2>1, EnterStep, LocksKept
  <2>2. CASE /\ run'[t].pc \in {"run", "mark"} /\ lock'[Home[t]] = t
             /\ \A p \in Processes \ {Home[t]} : lock'[p] = lock[p]
    <3>1. /\ lock[Home[t]] = NoTask /\ run[t].pc = "lock"
          /\ \A v \in Tasks \ {t} : run'[v] = run[v]
      BY <1>5, EnterStep
    <3>2. \A v \in Tasks \ {t} : run[v].pc \in Candle!Critical => Home[v] # Home[t]
      BY <3>1 DEF Locks
    <3> QED  BY <2>2, <3>1, <3>2, Homes DEF Locks, Types
  <2> QED  BY <1>5, <2>1, <2>2, EnterStep
<1>6. ASSUME NEW t \in Tasks, Candle!Evaluate(t) PROVE Locks'
  BY <1>6, EvaluateStep, LocksKept
<1>7. ASSUME NEW t \in Tasks, Candle!Publish(t) PROVE Locks'
  BY <1>7, PublishStep, LocksKept
<1>8. ASSUME NEW t \in Tasks, Candle!Mark(t) PROVE Locks'
  BY <1>8, MarkStep, LocksKept
<1>9. ASSUME NEW t \in Tasks, \A v \in Tasks \ {t} : run'[v] = run[v],
             run'[t].pc \notin Candle!Critical,
             \A p \in Processes : lock'[p] = IF lock[p] = t THEN NoTask ELSE lock[p]
      PROVE  Locks'
  BY <1>9, Homes DEF Locks, Types
<1>10. ASSUME NEW t \in Tasks, Candle!Trace(t) PROVE Locks'
  BY <1>9, <1>10, TraceStep
<1>11. ASSUME NEW t \in Tasks, Candle!Complete(t) PROVE Locks'
  BY <1>11, CompleteStep, LocksKept
<1>12. ASSUME NEW t \in Tasks, Candle!Raise(t) PROVE Locks'
  BY <1>9, <1>12, RaiseStep
<1>13. ASSUME NEW t \in Tasks, Candle!Fail(t) PROVE Locks'
  BY <1>13, FailStep, LocksKept
<1>14. ASSUME NEW p \in Processes, Candle!Crash(p) PROVE Locks'
  BY <1>14, CrashStep, Homes DEF Locks, Types
<1>15. CASE UNCHANGED Candle!vars
  BY <1>1, <1>15 DEF Candle!vars
<1> QED
  BY <1>2, <1>3, <1>4, <1>5, <1>6, <1>7, <1>8, <1>10, <1>11, <1>12, <1>13, <1>14, <1>15
  DEF Candle!Next, Candle!Work, Time

(* Between its claim and the end of a delivery a task keeps what it has. *)
Busy(t) ==
  \/ Candle!Deliver(t) \/ Candle!Enter(t) \/ Candle!Evaluate(t) \/ Candle!Publish(t)
  \/ Candle!Mark(t) \/ Candle!Trace(t) \/ Candle!Raise(t)

LEMMA BusyStep ==
  ASSUME Types, Progress, NEW t \in Tasks, Busy(t)
  PROVE  /\ row' = row /\ processed \subseteq processed'
         /\ \A v \in Tasks \ {t} : run'[v] = run[v]
         /\ \A v \in Tasks, e \in Events : Has(v, e)' <=> Has(v, e)
<1> USE DEF Delivering, Candle!Critical
<1>1. ASSUME run'[t].batch = run[t].batch, run'[t].event = run[t].event,
             run[t].pc \in Delivering, run'[t].pc \in Delivering
      PROVE  \A e \in Events : Has(t, e)' <=> Has(t, e)
  BY <1>1 DEF Has
<1>2. ASSUME \A v \in Tasks \ {t} : run'[v] = run[v]
      PROVE  \A v \in Tasks \ {t}, e \in Events : Has(v, e)' <=> Has(v, e)
  BY <1>2 DEF Has
<1>3. CASE Candle!Deliver(t)
  <2>1. \A e \in Events : Has(t, e)' <=> Has(t, e)
    BY <1>3, DeliverStep DEF Has
  <2> QED  BY <1>2, <1>3, <2>1, DeliverStep
<1>4. CASE Candle!Enter(t)
  BY <1>1, <1>2, <1>4, EnterStep
<1>5. CASE Candle!Evaluate(t)
  BY <1>1, <1>2, <1>5, EvaluateStep
<1>6. CASE Candle!Publish(t)
  BY <1>1, <1>2, <1>6, PublishStep
<1>7. CASE Candle!Mark(t)
  BY <1>1, <1>2, <1>7, MarkStep
<1>8. CASE Candle!Trace(t)
  BY <1>1, <1>2, <1>8, TraceStep
<1>9. CASE Candle!Raise(t)
  BY <1>1, <1>2, <1>9, RaiseStep
<1> QED  BY <1>3, <1>4, <1>5, <1>6, <1>7, <1>8, <1>9 DEF Busy

LEMMA LeasesStep == Types /\ Progress /\ Leases /\ [Candle!Next]_(Candle!vars) => Leases'
<1> SUFFICES ASSUME Types, Progress, Leases, [Candle!Next]_(Candle!vars) PROVE Leases'
  OBVIOUS
<1>1. ASSUME NEW e \in Events, Candle!Enqueue(e) PROVE Leases'
  BY <1>1, EnqueueStep DEF Leases, Has
<1>2. CASE Time
  <2>1. /\ processed' = processed /\ run' = run
        /\ \A f \in Events : /\ row'[f].status = row[f].status /\ row'[f].by = row[f].by
                             /\ row'[f].leased => row[f].leased
    BY <1>2, TimeStep
  <2> QED  BY <2>1 DEF Leases, Has
<1>3. ASSUME NEW t \in Tasks, Candle!Claim(t) PROVE Leases'
  <2>1. /\ processed' = processed /\ \A v \in Tasks \ {t} : run'[v] = run[v]
        /\ run'[t].pc \notin Delivering
        /\ \A e \in Events :
             IF e \in run'[t].batch
               THEN row'[e].status = "waiting" /\ row'[e].leased /\ row'[e].by \in Processes
               ELSE row'[e] = row[e]
    BY <1>3, ClaimStep, Homes DEF Delivering, Candle!Critical
  <2> QED  BY <2>1 DEF Leases, Has
<1>4. ASSUME NEW t \in Tasks, Busy(t) PROVE Leases'
  BY <1>4, BusyStep DEF Leases
<1>5. ASSUME NEW t \in Tasks, \A v \in Tasks \ {t} : run'[v] = run[v],
             run'[t].batch \subseteq run[t].batch, run'[t].pc \notin Delivering
      PROVE  \A v \in Tasks, e \in Events : Has(v, e)' => Has(v, e)
  BY <1>5 DEF Has
<1>6. ASSUME NEW t \in Tasks, Candle!Complete(t) PROVE Leases'
  <2>1. \A v \in Tasks, e \in Events : Has(v, e)' => Has(v, e)
    BY <1>5, <1>6, CompleteStep DEF Delivering, Candle!Critical
  <2>2. run[t].event \in processed /\ processed' = processed
    BY <1>6, CompleteStep DEF Progress
  <2> QED  BY <1>6, <2>1, <2>2, CompleteStep DEF Leases
<1>7. ASSUME NEW t \in Tasks, Candle!Fail(t) PROVE Leases'
  <2>1. \A v \in Tasks, e \in Events : Has(v, e)' => Has(v, e)
    BY <1>5, <1>7, FailStep DEF Delivering, Candle!Critical
  <2> QED  BY <1>7, <2>1, FailStep DEF Leases
<1>8. ASSUME NEW p \in Processes, Candle!Crash(p) PROVE Leases'
  <2>1. \A v \in Tasks, e \in Events : Has(v, e)' => Has(v, e)
    BY <1>8, CrashStep DEF Has, Delivering, Candle!Critical
  <2> QED  BY <1>8, <2>1, CrashStep DEF Leases
<1>9. CASE UNCHANGED Candle!vars
  BY <1>9 DEF Candle!vars, Leases, Has
<1> QED
  BY <1>1, <1>2, <1>3, <1>4, <1>6, <1>7, <1>8, <1>9 DEF Candle!Next, Candle!Work, Time, Busy

-----------------------------------------------------------------------------
(* What was marked has its signal.                                          *)

LEMMA ProgressStep == Types /\ Progress /\ [Candle!Next]_(Candle!vars) => Progress'
<1> SUFFICES ASSUME Types, Progress, [Candle!Next]_(Candle!vars), NEW v \in Tasks
             PROVE  /\ run'[v].pc = "publish" => run'[v].decision \in Decisions
                    /\ run'[v].pc = "mark" =>
                         /\ run'[v].decision # "open"
                         /\ run'[v].decision \in Decisions =>
                              [event |-> run'[v].event, decision |-> run'[v].decision] \in signals'
                    /\ run'[v].pc \in {"trace", "complete"} => run'[v].event \in processed'
  BY DEF Progress
<1>1. CASE run'[v] = run[v] /\ signals \subseteq signals' /\ processed \subseteq processed'
  BY <1>1 DEF Progress
<1>2. CASE (\E e \in Events : Candle!Enqueue(e)) \/ Time
  BY <1>1, <1>2, EnqueueStep, TimeStep
<1>3. ASSUME NEW t \in Tasks, Candle!Claim(t) PROVE Progress'
  BY <1>3, ClaimStep DEF Progress
<1>4. ASSUME NEW t \in Tasks, Candle!Deliver(t) PROVE Progress'
  BY <1>4, DeliverStep DEF Progress
<1>5. ASSUME NEW t \in Tasks, Candle!Enter(t) PROVE Progress'
  BY <1>5, EnterStep DEF Progress
<1>6. ASSUME NEW t \in Tasks, Candle!Evaluate(t) PROVE Progress'
  BY <1>6, EvaluateStep DEF Progress
<1>7. ASSUME NEW t \in Tasks, Candle!Publish(t) PROVE Progress'
  BY <1>7, PublishStep DEF Progress
<1>8. ASSUME NEW t \in Tasks, Candle!Mark(t) PROVE Progress'
  BY <1>8, MarkStep DEF Progress
<1>9. ASSUME NEW t \in Tasks, Candle!Trace(t) PROVE Progress'
  <2>1. /\ run[t].event \in processed /\ run'[t].event = run[t].event /\ run'[t].pc = "complete"
        /\ processed' = processed /\ signals' = signals /\ \A u \in Tasks \ {t} : run'[u] = run[u]
    BY <1>9, TraceStep DEF Progress
  <2> QED  BY <2>1 DEF Progress
<1>10. ASSUME NEW t \in Tasks, Candle!Complete(t) PROVE Progress'
  BY <1>10, CompleteStep DEF Progress
<1>11. ASSUME NEW t \in Tasks, Candle!Raise(t) PROVE Progress'
  BY <1>11, RaiseStep DEF Progress
<1>12. ASSUME NEW t \in Tasks, Candle!Fail(t) PROVE Progress'
  BY <1>12, FailStep DEF Progress
<1>13. ASSUME NEW p \in Processes, Candle!Crash(p) PROVE Progress'
  BY <1>13, CrashStep DEF Progress
<1>14. CASE UNCHANGED Candle!vars
  BY <1>1, <1>14 DEF Candle!vars
<1>15. CASE Progress'
  BY <1>15 DEF Progress
<1> QED
  BY <1>2, <1>3, <1>4, <1>5, <1>6, <1>7, <1>8, <1>9, <1>10, <1>11, <1>12, <1>13, <1>14, <1>15
  DEF Candle!Next, Candle!Work, Time

LEMMA MarksStep == Types /\ Progress /\ Marks /\ [Candle!Next]_(Candle!vars) => Marks'
<1> SUFFICES ASSUME Types, Progress, Marks, [Candle!Next]_(Candle!vars) PROVE Marks'
  OBVIOUS
<1>1. CASE processed' = processed /\ verdict' = verdict /\ signals \subseteq signals'
  BY <1>1 DEF Marks
<1>2. CASE (\E e \in Events : Candle!Enqueue(e)) \/ Time
  BY <1>1, <1>2, EnqueueStep, TimeStep
<1>3. ASSUME NEW t \in Tasks, Candle!Mark(t) PROVE Marks'
  BY <1>3, MarkStep DEF Marks, Progress, Types
<1>4. ASSUME NEW t \in Tasks,
             \/ Candle!Claim(t) \/ Candle!Deliver(t) \/ Candle!Enter(t) \/ Candle!Evaluate(t)
             \/ Candle!Publish(t) \/ Candle!Trace(t) \/ Candle!Complete(t) \/ Candle!Raise(t)
             \/ Candle!Fail(t)
      PROVE  Marks'
  <2>1. processed' = processed /\ verdict' = verdict /\ signals \subseteq signals'
    BY <1>4, ClaimStep, DeliverStep, EnterStep, EvaluateStep, PublishStep, TraceStep, CompleteStep,
       RaiseStep, FailStep
  <2> QED  BY <1>1, <2>1
<1>5. ASSUME NEW p \in Processes, Candle!Crash(p) PROVE Marks'
  BY <1>1, <1>5, CrashStep
<1>6. CASE UNCHANGED Candle!vars
  BY <1>1, <1>6 DEF Candle!vars
<1> QED  BY <1>2, <1>3, <1>4, <1>5, <1>6 DEF Candle!Next, Candle!Work, Time

-----------------------------------------------------------------------------
(* The counts of what a task has and may publish.                           *)

LEMMA Subsets ==
  ASSUME NEW A, NEW B, IsFiniteSet(A)
  PROVE  /\ Cardinality(A) \in Nat
         /\ B \subseteq A => Cardinality(B) \in Nat /\ Cardinality(B) <= Cardinality(A)
         /\ \A t \in A : B \subseteq A \ {t} => Cardinality(B) \in Nat /\ Cardinality(B) <= Cardinality(A) - 1
         /\ \A t : B \subseteq A \cup {t} =>
              IsFiniteSet(B) /\ Cardinality(B) \in Nat /\ Cardinality(B) <= Cardinality(A) + 1
<1>1. Cardinality(A) \in Nat
  BY FS_CardinalityType
<1>2. ASSUME B \subseteq A PROVE Cardinality(B) \in Nat /\ Cardinality(B) <= Cardinality(A)
  BY <1>2, FS_Subset, FS_CardinalityType
<1>3. ASSUME NEW t \in A, B \subseteq A \ {t}
      PROVE  Cardinality(B) \in Nat /\ Cardinality(B) <= Cardinality(A) - 1
  <2>1. IsFiniteSet(A \ {t}) /\ Cardinality(A \ {t}) = Cardinality(A) - 1
    BY FS_RemoveElement
  <2> QED  BY <1>3, <2>1, FS_Subset, FS_CardinalityType
<1>4. ASSUME NEW t, B \subseteq A \cup {t}
      PROVE  IsFiniteSet(B) /\ Cardinality(B) \in Nat /\ Cardinality(B) <= Cardinality(A) + 1
  <2>1. /\ IsFiniteSet(A \cup {t})
        /\ Cardinality(A \cup {t}) = Cardinality(A) \/ Cardinality(A \cup {t}) = Cardinality(A) + 1
    BY FS_AddElement
  <2>2. IsFiniteSet(B) /\ Cardinality(B) \in Nat /\ Cardinality(B) <= Cardinality(A \cup {t})
    BY <1>4, <2>1, FS_Subset, FS_CardinalityType
  <2> QED  BY <1>1, <2>1, <2>2
<1> QED  BY <1>1, <1>2, <1>3, <1>4

LEMMA TaskSets == \A S \in SUBSET Tasks : IsFiniteSet(S)
  BY SameFinite, FS_Subset

(* A step keeps who has an event and its lease, or takes the event from a   *)
(* task, or is an overrun, or a claim.                                      *)
HoldersMove(e) ==
  \/ Having(e)' \subseteq Having(e) /\ (Held(e) => Held(e)')
  \/ \E t \in Having(e) : Having(e)' \subseteq Having(e) \ {t}
  \/ Having(e)' \subseteq Having(e) /\ used'["overruns"] > used["overruns"]
  \/ ~Held(e) /\ Held(e)' /\ \E t \in Tasks : Having(e)' \subseteq Having(e) \cup {t}

LEMMA HoldersKept ==
  ASSUME NEW e \in Events, HoldersMove(e), Holders(e) <= 1 + used["overruns"],
         used["overruns"] \in Nat, used'["overruns"] \in Nat, used'["overruns"] >= used["overruns"]
  PROVE  Holders(e)' <= 1 + used'["overruns"]
<1> DEFINE n == Cardinality(Having(e))
           m == Cardinality(Having(e)')
           c == IF Held(e) THEN 0 ELSE 1
           d == IF Held(e)' THEN 0 ELSE 1
           p == used["overruns"]
           q == used'["overruns"]
<1>1. IsFiniteSet(Having(e))
  <2>1. Having(e) \in SUBSET Tasks
    BY DEF Having
  <2> QED  BY <2>1, TaskSets
<1>2. /\ c \in 0..1 /\ d \in 0..1 /\ (Held(e) => c = 0) /\ (~Held(e) => c = 1)
      /\ (Held(e)' => d = 0) /\ (~Held(e)' => d = 1)
  OBVIOUS
<1>3. n + c <= 1 + p
  BY DEF Holders
<1>4. n \in Nat /\ m \in Nat
      /\ \/ m <= n /\ d <= c
         \/ m <= n - 1
         \/ m <= n /\ q > p
         \/ m <= n + 1 /\ c = 1 /\ d = 0
  <2>1. CASE Having(e)' \subseteq Having(e) /\ (Held(e) => Held(e)')
    <3>1. n \in Nat /\ m \in Nat /\ m <= n
      BY <1>1, <2>1, Subsets
    <3>2. d <= c
      BY <2>1
    <3> QED  BY <3>1, <3>2
  <2>2. CASE \E t \in Having(e) : Having(e)' \subseteq Having(e) \ {t}
    BY <1>1, <2>2, Subsets
  <2>3. CASE Having(e)' \subseteq Having(e) /\ q > p
    BY <1>1, <2>3, Subsets
  <2>4. CASE ~Held(e) /\ Held(e)' /\ \E t \in Tasks : Having(e)' \subseteq Having(e) \cup {t}
    BY <1>1, <2>4, Subsets
  <2> QED  BY <2>1, <2>2, <2>3, <2>4 DEF HoldersMove
<1>5. m + d <= 1 + q
  <2> HIDE DEF n, m, c, d
  <2> QED  BY <1>2, <1>3, <1>4
<1> QED  BY <1>5 DEF Holders

(* Signals and publishers stay, a publisher goes, one comes that takes the  *)
(* open event, one publishes, and the rest are faults.                      *)
CostMove(e) ==
  \/ /\ SignalsOf(e)' = SignalsOf(e) /\ Publishers(e)' \subseteq Publishers(e)
     /\ (Open(e)' => Open(e)) \/ Candle!FaultsSoFar' > Candle!FaultsSoFar
  \/ /\ SignalsOf(e)' = SignalsOf(e)
     /\ \E t \in Publishers(e) : Publishers(e)' \subseteq Publishers(e) \ {t}
  \/ /\ SignalsOf(e)' = SignalsOf(e)
     /\ \E t \in Tasks : Publishers(e)' \subseteq Publishers(e) \cup {t}
     /\ \/ Open(e) /\ ~Open(e)'
        \/ (Open(e)' => Open(e)) /\ Candle!FaultsSoFar' > Candle!FaultsSoFar
  \/ /\ \E s : SignalsOf(e)' \subseteq SignalsOf(e) \cup {s}
     /\ \E t \in Publishers(e) : Publishers(e)' \subseteq Publishers(e) \ {t}
     /\ Open(e)' => Open(e)

LEMMA CostKept ==
  ASSUME NEW e \in Events, CostMove(e), IsFiniteSet(SignalsOf(e)), Cost(e) <= 1 + Candle!FaultsSoFar,
         Candle!FaultsSoFar \in Nat, Candle!FaultsSoFar' \in Nat,
         Candle!FaultsSoFar' >= Candle!FaultsSoFar
  PROVE  IsFiniteSet(SignalsOf(e)') /\ Cost(e)' <= 1 + Candle!FaultsSoFar'
<1> DEFINE n == Cardinality(Publishers(e))
           m == Cardinality(Publishers(e)')
           i == Cardinality(SignalsOf(e))
           j == Cardinality(SignalsOf(e)')
           c == IF Open(e) THEN 1 ELSE 0
           d == IF Open(e)' THEN 1 ELSE 0
           p == Candle!FaultsSoFar
           q == Candle!FaultsSoFar'
<1>1. IsFiniteSet(Publishers(e)) /\ IsFiniteSet(Publishers(e)')
  <2>1. Publishers(e) \in SUBSET Tasks /\ Publishers(e)' \in SUBSET Tasks
    BY DEF Publishers
  <2> QED  BY <2>1, TaskSets
<1>2. /\ c \in 0..1 /\ d \in 0..1 /\ (Open(e) => c = 1) /\ (~Open(e) => c = 0)
      /\ ((Open(e)' => Open(e)) => d <= c) /\ (Open(e) /\ ~Open(e)' => c = 1 /\ d = 0)
  OBVIOUS
<1>3. i + n + c <= 1 + p
  BY DEF Cost
<1>4. n \in Nat /\ m \in Nat /\ i \in Nat
  BY <1>1, FS_CardinalityType
<1>5. IsFiniteSet(SignalsOf(e)') /\ j \in Nat /\ j <= i + 1
  <2>1. \E s : SignalsOf(e)' \subseteq SignalsOf(e) \cup {s}
    BY DEF CostMove
  <2> QED  BY <2>1, Subsets
<1>6. ASSUME Publishers(e)' \subseteq Publishers(e) PROVE m <= n
  BY <1>1, <1>6, Subsets
<1>7. ASSUME \E t \in Publishers(e) : Publishers(e)' \subseteq Publishers(e) \ {t} PROVE m <= n - 1
  BY <1>1, <1>7, Subsets
<1>8. ASSUME \E t \in Tasks : Publishers(e)' \subseteq Publishers(e) \cup {t} PROVE m <= n + 1
  BY <1>1, <1>8, Subsets
<1>9. SignalsOf(e)' = SignalsOf(e) => j = i
  OBVIOUS
<1>10. \/ j = i /\ m <= n /\ (d <= c \/ q > p)
       \/ j = i /\ m <= n - 1
       \/ j = i /\ m <= n + 1 /\ ((c = 1 /\ d = 0) \/ (d <= c /\ q > p))
       \/ m <= n - 1 /\ d <= c
  <2> HIDE DEF n, m, i, j, c, d
  <2> QED  BY <1>2, <1>6, <1>7, <1>8, <1>9 DEF CostMove
<1>11. j + m + d <= 1 + q
  <2>1. p \in Nat /\ q \in Nat /\ q >= p
    OBVIOUS
  <2> HIDE DEF n, m, i, j, c, d, p, q
  <2> QED  BY <1>2, <1>3, <1>4, <1>5, <1>10, <2>1
<1> QED  BY <1>5, <1>11 DEF Cost

(* A lease goes with what its holder has, or by itself, which is an overrun *)
(* if it still has a holder.                                                *)
LEMMA HeldKept ==
  ASSUME NEW e \in Events, row'[e].leased = row[e].leased, row'[e].by = row[e].by,
         \A v \in Tasks : Has(v, e) => Has(v, e)'
  PROVE  Held(e) => Held(e)'
  BY DEF Held

LEMMA HeldInTime ==
  ASSUME Types, Time, NEW e \in Events
  PROVE  (\A v \in Tasks : Has(v, e)' <=> Has(v, e)) /\ ((Held(e) => Held(e)') \/ Candle!Spend("overruns"))
<1>1. \A v \in Tasks : Has(v, e)' <=> Has(v, e)
  BY TimeStep DEF Has
<1>2. CASE row'[e].leased = row[e].leased
  BY <1>1, <1>2, TimeStep, HeldKept
<1>3. CASE row'[e].leased # row[e].leased
  <2>1. IF \E t \in Tasks : Home[t] = row[e].by /\ e \in run[t].batch \cup {run[t].event}
          THEN Candle!Spend("overruns") ELSE used' = used
    BY <1>3, TimeStep
  <2>2. CASE \E t \in Tasks : Home[t] = row[e].by /\ e \in run[t].batch \cup {run[t].event}
    BY <1>1, <2>1, <2>2
  <2>3. CASE ~\E t \in Tasks : Home[t] = row[e].by /\ e \in run[t].batch \cup {run[t].event}
    <3>1. ~Held(e)
      BY <2>3 DEF Held, Has
    <3> QED  BY <1>1, <3>1
  <2> QED  BY <2>2, <2>3
<1> QED  BY <1>2, <1>3

LEMMA OverrunStep ==
  ASSUME Types, Candle!Spend("overruns")
  PROVE  used'["overruns"] > used["overruns"] /\ Candle!FaultsSoFar' > Candle!FaultsSoFar
<1>1. "overruns" \in Candle!Faults /\ used["overruns"] \in Nat /\ Candle!FaultsSoFar \in Nat
  BY DEF Types, Candle!Faults, Candle!FaultsSoFar
<1>2. used'["overruns"] = used["overruns"] + 1 /\ Candle!FaultsSoFar' = Candle!FaultsSoFar + 1
  BY <1>1, SpendStep
<1> QED  BY <1>1, <1>2

LEMMA HoldersStep ==
  ASSUME Types, Progress, Leases, [Candle!Next]_(Candle!vars), NEW e \in Events
  PROVE  HoldersMove(e)
<1>1. ASSUME \A v \in Tasks : Has(v, e)' => Has(v, e), Held(e) => Held(e)' PROVE HoldersMove(e)
  BY <1>1 DEF HoldersMove, Having
<1>2. ASSUME NEW t \in Tasks, Has(t, e), ~Has(t, e)', \A v \in Tasks \ {t} : Has(v, e)' => Has(v, e)
      PROVE  HoldersMove(e)
  <2>1. t \in Having(e) /\ Having(e)' \subseteq Having(e) \ {t}
    BY <1>2 DEF Having
  <2> QED  BY <2>1 DEF HoldersMove
<1>3. ASSUME \A v \in Tasks : Has(v, e)' <=> Has(v, e), row'[e].leased = row[e].leased,
             row'[e].by = row[e].by
      PROVE  HoldersMove(e)
  BY <1>1, <1>3, HeldKept
<1>4. ASSUME NEW f \in Events, Candle!Enqueue(f) PROVE HoldersMove(e)
  <2>1. \A v \in Tasks : Has(v, e)' <=> Has(v, e)
    BY <1>4, EnqueueStep DEF Has
  <2>2. CASE e = f
    <3>1. ~Held(e)
      BY <1>4, <2>2, EnqueueStep DEF Held, Leases
    <3> QED  BY <1>1, <2>1, <3>1
  <2>3. CASE e # f
    BY <1>3, <1>4, <2>1, <2>3, EnqueueStep
  <2> QED  BY <2>2, <2>3
<1>5. CASE Time
  <2>1. CASE Held(e) => Held(e)'
    BY <1>1, <1>5, <2>1, HeldInTime
  <2>2. CASE Candle!Spend("overruns")
    <3>1. Having(e)' \subseteq Having(e)
      BY <1>5, HeldInTime DEF Having
    <3> QED  BY <2>2, <3>1, OverrunStep DEF HoldersMove
  <2> QED  BY <1>5, <2>1, <2>2, HeldInTime
<1>6. ASSUME NEW t \in Tasks, Candle!Claim(t) PROVE HoldersMove(e)
  <2>1. /\ ~Has(t, e) /\ (Has(t, e)' <=> e \in run'[t].batch)
        /\ \A v \in Tasks \ {t} : Has(v, e)' <=> Has(v, e)
    BY <1>6, ClaimStep DEF Has, Delivering, Candle!Critical
  <2>2. CASE e \in run'[t].batch
    <3>1. ~Held(e) /\ Held(e)'
      BY <1>6, <2>1, <2>2, ClaimStep DEF Held
    <3>2. Having(e)' \subseteq Having(e) \cup {t}
      BY <2>1 DEF Having
    <3> QED  BY <3>1, <3>2 DEF HoldersMove
  <2>3. CASE e \notin run'[t].batch
    BY <1>3, <1>6, <2>1, <2>3, ClaimStep
  <2> QED  BY <2>2, <2>3
<1>7. ASSUME NEW t \in Tasks, Busy(t) PROVE HoldersMove(e)
  BY <1>3, <1>7, BusyStep
<1>8. ASSUME NEW t \in Tasks, run[t].pc \in Delivering, run'[t].pc \notin Delivering,
             \A v \in Tasks \ {t} : run'[v] = run[v],
             run'[t].batch = run[t].batch \/ run'[t].batch = {},
             e # run[t].event => row'[e] = row[e]
      PROVE  HoldersMove(e)
  <2>1. \A v \in Tasks \ {t} : Has(v, e)' <=> Has(v, e)
    BY <1>8 DEF Has
  <2>2. Has(t, e)' => Has(t, e)
    BY <1>8 DEF Has
  <2>3. CASE e = run[t].event
    <3>1. Has(t, e) /\ ~Has(t, e)'
      BY <1>8, <2>3 DEF Has, Types
    <3> QED  BY <1>2, <2>1, <3>1
  <2>4. CASE e # run[t].event
    <3>1. CASE Has(t, e) /\ ~Has(t, e)'
      BY <1>2, <2>1, <3>1
    <3>2. CASE Has(t, e)' <=> Has(t, e)
      BY <1>3, <1>8, <2>1, <2>4, <3>2
    <3> QED  BY <2>2, <3>1, <3>2
  <2> QED  BY <2>3, <2>4
<1>9. ASSUME NEW t \in Tasks, Candle!Complete(t) PROVE HoldersMove(e)
  BY <1>8, <1>9, CompleteStep DEF Delivering, Candle!Critical
<1>10. ASSUME NEW t \in Tasks, Candle!Fail(t) PROVE HoldersMove(e)
  BY <1>8, <1>10, FailStep DEF Delivering, Candle!Critical
<1>11. ASSUME NEW p \in Processes, Candle!Crash(p) PROVE HoldersMove(e)
  <2>1. \A v \in Tasks : IF Home[v] = p THEN ~Has(v, e)' ELSE Has(v, e)' <=> Has(v, e)
    BY <1>11, CrashStep DEF Has, Delivering, Candle!Critical
  <2>2. CASE \E v \in Tasks : Home[v] = p /\ Has(v, e)
    BY <1>2, <2>1, <2>2
  <2>3. CASE \A v \in Tasks : Home[v] = p => ~Has(v, e)
    <3>1. Held(e) => Held(e)'
      BY <1>11, <2>1, <2>3, CrashStep DEF Held
    <3> QED  BY <1>1, <2>1, <3>1
  <2> QED  BY <2>2, <2>3
<1>12. CASE UNCHANGED Candle!vars
  <2>1. run' = run /\ row' = row
    BY <1>12 DEF Candle!vars
  <2> QED  BY <1>3, <2>1 DEF Has
<1> QED
  BY <1>4, <1>5, <1>6, <1>7, <1>9, <1>10, <1>11, <1>12 DEF Candle!Next, Candle!Work, Time, Busy

LEMMA CostStep ==
  ASSUME Types, Progress, Leases, [Candle!Next]_(Candle!vars), NEW e \in Events
  PROVE  CostMove(e)
<1> USE DEF Delivering, Candle!Critical
<1>1. ASSUME signals' = signals, \A v \in Tasks : MayPublish(v, e)' => MayPublish(v, e),
             (Open(e)' => Open(e)) \/ Candle!FaultsSoFar' > Candle!FaultsSoFar
      PROVE  CostMove(e)
  BY <1>1 DEF CostMove, SignalsOf, Publishers
<1>2. ASSUME signals' = signals, NEW t \in Tasks, MayPublish(t, e), ~MayPublish(t, e)',
             \A v \in Tasks \ {t} : MayPublish(v, e)' => MayPublish(v, e)
      PROVE  CostMove(e)
  <2>1. t \in Publishers(e) /\ Publishers(e)' \subseteq Publishers(e) \ {t}
    BY <1>2 DEF Publishers
  <2>2. SignalsOf(e)' = SignalsOf(e)
    BY <1>2 DEF SignalsOf
  <2> QED  BY <2>1, <2>2 DEF CostMove
<1>3. ASSUME signals' = signals, NEW t \in Tasks,
             \A v \in Tasks \ {t} : MayPublish(v, e)' => MayPublish(v, e),
             \/ Open(e) /\ ~Open(e)'
             \/ (Open(e)' => Open(e)) /\ Candle!FaultsSoFar' > Candle!FaultsSoFar
      PROVE  CostMove(e)
  <2>1. Publishers(e)' \subseteq Publishers(e) \cup {t}
    BY <1>3 DEF Publishers
  <2>2. SignalsOf(e)' = SignalsOf(e)
    BY <1>3 DEF SignalsOf
  <2> QED  BY <1>3, <2>1, <2>2 DEF CostMove
<1>4. ASSUME NEW t \in Tasks, \A v \in Tasks \ {t} : run'[v] = run[v], processed \subseteq processed'
      PROVE  \A v \in Tasks \ {t} : MayPublish(v, e)' => MayPublish(v, e)
  BY <1>4 DEF MayPublish
<1>5. ASSUME processed \subseteq processed', Held(e) => Held(e)' PROVE Open(e)' => Open(e)
  BY <1>5 DEF Open
<1>6. ASSUME NEW f \in Events, Candle!Enqueue(f) PROVE CostMove(e)
  <2>1. signals' = signals /\ processed' = processed /\ run' = run
    BY <1>6, EnqueueStep
  <2>2. Held(e) => Held(e)'
    BY <1>6, <2>1, EnqueueStep DEF Held, Leases, Has
  <2>3. \A v \in Tasks : MayPublish(v, e)' => MayPublish(v, e)
    BY <2>1 DEF MayPublish
  <2> QED  BY <1>1, <1>5, <2>1, <2>2, <2>3
<1>7. CASE Time
  <2>1. signals' = signals /\ processed' = processed /\ run' = run
    BY <1>7, TimeStep
  <2>2. \A v \in Tasks : MayPublish(v, e)' => MayPublish(v, e)
    BY <2>1 DEF MayPublish
  <2>3. CASE Held(e) => Held(e)'
    BY <1>1, <1>5, <2>1, <2>2, <2>3
  <2>4. CASE Candle!Spend("overruns")
    BY <1>1, <2>1, <2>2, <2>4, OverrunStep
  <2> QED  BY <1>7, <2>3, <2>4, HeldInTime
<1>8. ASSUME NEW t \in Tasks, Candle!Claim(t) PROVE CostMove(e)
  <2>1. /\ signals' = signals /\ processed' = processed /\ \A v \in Tasks \ {t} : run'[v] = run[v]
        /\ ~Has(t, e) /\ (Has(t, e)' <=> e \in run'[t].batch) /\ run'[t].pc = "batch"
    BY <1>8, ClaimStep DEF Has
  <2>2. \A v \in Tasks \ {t} : (MayPublish(v, e)' => MayPublish(v, e)) /\ (Has(v, e)' <=> Has(v, e))
    BY <2>1 DEF MayPublish, Has
  <2>3. CASE e \in run'[t].batch
    <3>1. ~Held(e) /\ Held(e)'
      BY <1>8, <2>1, <2>3, ClaimStep DEF Held
    <3>2. CASE e \notin processed
      BY <1>3, <2>1, <2>2, <3>1, <3>2 DEF Open
    <3>3. CASE e \in processed
      <4>1. ~MayPublish(t, e)'
        BY <2>1, <3>3 DEF MayPublish
      <4> QED  BY <1>1, <2>1, <2>2, <3>3, <4>1 DEF Open
    <3> QED  BY <3>2, <3>3
  <2>4. CASE e \notin run'[t].batch
    <3>1. row'[e] = row[e] /\ ~MayPublish(t, e)'
      BY <1>8, <2>1, <2>4, ClaimStep DEF MayPublish
    <3> QED  BY <1>1, <1>5, <2>1, <2>2, <2>4, <3>1, HeldKept
  <2> QED  BY <2>3, <2>4
<1>9. ASSUME NEW t \in Tasks, Busy(t)
      PROVE  /\ processed \subseteq processed' /\ \A v \in Tasks \ {t} : run'[v] = run[v]
             /\ Open(e)' => Open(e)
             /\ \A v \in Tasks \ {t} : MayPublish(v, e)' => MayPublish(v, e)
  BY <1>4, <1>5, <1>9, BusyStep, HeldKept
<1>10. ASSUME NEW t \in Tasks, signals' = signals, Busy(t), MayPublish(t, e)' => MayPublish(t, e)
       PROVE  CostMove(e)
  BY <1>1, <1>9, <1>10
<1>11. ASSUME NEW t \in Tasks, Candle!Deliver(t) PROVE CostMove(e)
  <2>1. MayPublish(t, e)' => MayPublish(t, e)
    BY <1>11, DeliverStep DEF MayPublish
  <2> QED  BY <1>10, <1>11, <2>1, DeliverStep DEF Busy
<1>12. ASSUME NEW t \in Tasks, Candle!Enter(t) PROVE CostMove(e)
  <2>1. MayPublish(t, e)' => MayPublish(t, e)
    BY <1>12, EnterStep DEF MayPublish
  <2> QED  BY <1>10, <1>12, <2>1, EnterStep DEF Busy
<1>13. ASSUME NEW t \in Tasks, Candle!Evaluate(t) PROVE CostMove(e)
  <2>1. MayPublish(t, e)' => MayPublish(t, e)
    BY <1>13, EvaluateStep DEF MayPublish
  <2> QED  BY <1>10, <1>13, <2>1, EvaluateStep DEF Busy
<1>14. ASSUME NEW t \in Tasks, Candle!Mark(t) PROVE CostMove(e)
  <2>1. MayPublish(t, e)' => MayPublish(t, e)
    BY <1>14, MarkStep DEF MayPublish
  <2> QED  BY <1>10, <1>14, <2>1, MarkStep DEF Busy
<1>15. ASSUME NEW t \in Tasks, Candle!Trace(t) PROVE CostMove(e)
  <2>1. MayPublish(t, e)' => MayPublish(t, e)
    BY <1>15, TraceStep DEF MayPublish
  <2> QED  BY <1>10, <1>15, <2>1, TraceStep DEF Busy
<1>16. ASSUME NEW t \in Tasks, Candle!Publish(t) PROVE CostMove(e)
  <2>1. Busy(t)
    BY <1>16 DEF Busy
  <2>2. CASE e # run[t].event
    <3>1. SignalsOf(e)' = SignalsOf(e)
      BY <1>16, <2>2, PublishStep DEF SignalsOf
    <3>2. MayPublish(t, e)' => MayPublish(t, e)
      BY <1>16, <2>2, PublishStep DEF MayPublish
    <3> QED  BY <1>9, <2>1, <3>1, <3>2 DEF CostMove, Publishers
  <2>3. CASE e = run[t].event
    <3>1. SignalsOf(e)' \subseteq
            SignalsOf(e) \cup {[event |-> run[t].event, decision |-> run[t].decision]}
      BY <1>16, PublishStep DEF SignalsOf
    <3>2. MayPublish(t, e)
      BY <1>16, <2>3, PublishStep DEF MayPublish
    <3>3. ~MayPublish(t, e)'
      BY <1>16, <2>3, PublishStep DEF MayPublish, Types
    <3>4. t \in Publishers(e) /\ Publishers(e)' \subseteq Publishers(e) \ {t}
      BY <1>9, <2>1, <3>2, <3>3 DEF Publishers
    <3> QED  BY <1>9, <2>1, <3>1, <3>4 DEF CostMove
  <2> QED  BY <2>2, <2>3
<1>17. ASSUME NEW t \in Tasks, Candle!Raise(t) PROVE CostMove(e)
  <2>1. Candle!FaultsSoFar' > Candle!FaultsSoFar
    <3>1. Candle!FaultsSoFar \in Nat
      BY DEF Types, Candle!Faults, Candle!FaultsSoFar
    <3>2. Candle!FaultsSoFar' = Candle!FaultsSoFar + 1
      BY <1>17, RaiseStep, SpendStep DEF Candle!Faults
    <3> QED  BY <3>1, <3>2
  <2>2. signals' = signals /\ Busy(t)
    BY <1>17, RaiseStep DEF Busy
  <2> QED  BY <1>3, <1>9, <2>1, <2>2
<1>18. ASSUME NEW t \in Tasks, Candle!Complete(t) PROVE CostMove(e)
  <2>1. signals' = signals /\ processed' = processed /\ \A v \in Tasks \ {t} : run'[v] = run[v]
    BY <1>18, CompleteStep
  <2>2. MayPublish(t, e)' => MayPublish(t, e)
    BY <1>18, CompleteStep DEF MayPublish
  <2>3. CASE e = run[t].event
    <3>1. ~Open(e)'
      BY <1>18, <2>1, <2>3, CompleteStep DEF Open, Progress
    <3> QED  BY <1>1, <1>4, <2>1, <2>2, <3>1
  <2>4. CASE e # run[t].event
    <3>1. row'[e] = row[e] /\ \A v \in Tasks : Has(v, e) => Has(v, e)'
      BY <1>18, <2>4, CompleteStep DEF Has
    <3> QED  BY <1>1, <1>4, <1>5, <2>1, <2>2, <3>1, HeldKept
  <2> QED  BY <2>3, <2>4
<1>19. ASSUME NEW t \in Tasks, Candle!Fail(t) PROVE CostMove(e)
  <2>1. signals' = signals /\ processed' = processed /\ \A v \in Tasks \ {t} : run'[v] = run[v]
    BY <1>19, FailStep
  <2>2. CASE e = run[t].event
    <3>1. MayPublish(t, e) /\ ~MayPublish(t, e)'
      BY <1>19, <2>2, FailStep DEF MayPublish, Types
    <3> QED  BY <1>2, <1>4, <2>1, <3>1
  <2>3. CASE e # run[t].event
    <3>1. row'[e] = row[e] /\ (MayPublish(t, e)' => MayPublish(t, e))
      BY <1>19, <2>3, FailStep DEF MayPublish
    <3>2. CASE e \in run[t].batch /\ e \notin run'[t].batch /\ e \notin processed
      <4>1. MayPublish(t, e) /\ ~MayPublish(t, e)'
        BY <1>19, <3>2, FailStep DEF MayPublish
      <4> QED  BY <1>2, <1>4, <2>1, <4>1
    <3>3. CASE e \in processed
      <4>1. ~Open(e)'
        BY <2>1, <3>3 DEF Open
      <4> QED  BY <1>1, <1>4, <2>1, <3>1, <4>1
    <3>4. CASE e \in run[t].batch => e \in run'[t].batch
      <4>1. \A v \in Tasks : Has(v, e) => Has(v, e)'
        BY <1>19, <2>1, <2>3, <3>4, FailStep DEF Has
      <4> QED  BY <1>1, <1>4, <1>5, <2>1, <3>1, <4>1, HeldKept
    <3> QED  BY <3>2, <3>3, <3>4
  <2> QED  BY <2>2, <2>3
<1>20. ASSUME NEW p \in Processes, Candle!Crash(p) PROVE CostMove(e)
  <2>1. Candle!FaultsSoFar' > Candle!FaultsSoFar
    <3>1. Candle!FaultsSoFar \in Nat
      BY DEF Types, Candle!Faults, Candle!FaultsSoFar
    <3>2. Candle!FaultsSoFar' = Candle!FaultsSoFar + 1
      BY <1>20, CrashStep, SpendStep DEF Candle!Faults
    <3> QED  BY <3>1, <3>2
  <2>2. \A v \in Tasks : MayPublish(v, e)' => MayPublish(v, e)
    BY <1>20, CrashStep DEF MayPublish
  <2> QED  BY <1>1, <1>20, <2>1, <2>2, CrashStep
<1>21. CASE UNCHANGED Candle!vars
  <2>1. signals' = signals /\ processed' = processed /\ run' = run /\ row' = row
    BY <1>21 DEF Candle!vars
  <2>2. (Held(e) => Held(e)') /\ \A v \in Tasks : MayPublish(v, e)' => MayPublish(v, e)
    BY <2>1 DEF MayPublish, Held, Has
  <2> QED  BY <1>1, <1>5, <2>1, <2>2
<1> QED
  BY <1>6, <1>7, <1>8, <1>11, <1>12, <1>13, <1>14, <1>15, <1>16, <1>17, <1>18, <1>19, <1>20, <1>21
  DEF Candle!Next, Candle!Work, Time

(* What is spent stays spent. *)
LEMMA UsedStep ==
  ASSUME Types, [Candle!Next]_(Candle!vars)
  PROVE  /\ used["overruns"] \in Nat /\ used'["overruns"] \in Nat /\ used'["overruns"] >= used["overruns"]
         /\ Candle!FaultsSoFar \in Nat /\ Candle!FaultsSoFar' \in Nat
         /\ Candle!FaultsSoFar' >= Candle!FaultsSoFar
<1> DEFINE Grown == /\ used'["overruns"] \in Nat /\ used'["overruns"] >= used["overruns"]
                    /\ Candle!FaultsSoFar' \in Nat /\ Candle!FaultsSoFar' >= Candle!FaultsSoFar
<1>1. /\ used["overruns"] \in Nat /\ Candle!FaultsSoFar \in Nat
      /\ \A f \in Candle!Faults : used[f] \in Nat
  BY DEF Types, Candle!Faults, Candle!FaultsSoFar
<1>2. ASSUME used' = used PROVE Grown
  <2>1. Candle!FaultsSoFar' = Candle!FaultsSoFar
    BY <1>2 DEF Candle!FaultsSoFar
  <2> QED  BY <1>1, <1>2, <2>1
<1>3. ASSUME NEW fault \in Candle!Faults, Candle!Spend(fault) PROVE Grown
  <2>1. /\ used'[fault] = used[fault] + 1 /\ \A f \in Candle!Faults \ {fault} : used'[f] = used[f]
        /\ Candle!FaultsSoFar' = Candle!FaultsSoFar + 1
    BY <1>3, SpendStep
  <2>2. "overruns" \in Candle!Faults
    BY DEF Candle!Faults
  <2> QED  BY <1>1, <2>1, <2>2
<1>4. ASSUME Time PROVE Grown
  <2>1. used' = used \/ Candle!Spend("overruns")
    BY <1>4, TimeStep
  <2> QED  BY <1>2, <1>3, <2>1 DEF Candle!Faults
<1>5. ASSUME NEW t \in Tasks, Candle!Raise(t) PROVE Grown
  BY <1>3, <1>5, RaiseStep DEF Candle!Faults
<1>6. ASSUME NEW p \in Processes, Candle!Crash(p) PROVE Grown
  BY <1>3, <1>6, CrashStep DEF Candle!Faults
<1>7. ASSUME \/ \E e \in Events : Candle!Enqueue(e)
             \/ \E t \in Tasks : \/ Candle!Claim(t) \/ Candle!Work(t)
             \/ UNCHANGED Candle!vars
      PROVE  Grown
  <2>1. used' = used
    BY <1>7 DEF Candle!Enqueue, Candle!Claim, Candle!Work, Candle!vars, Candle!Deliver, Candle!Enter,
       Candle!Evaluate, Candle!Publish, Candle!Mark, Candle!Trace, Candle!Complete, Candle!Fail
  <2> QED  BY <1>2, <2>1
<1> HIDE DEF Grown
<1>8. Grown
  BY <1>4, <1>5, <1>6, <1>7 DEF Candle!Next, Time
<1> QED  BY <1>1, <1>8 DEF Grown

LEMMA BudgetStep ==
  Types /\ Progress /\ Leases /\ Budget /\ [Candle!Next]_(Candle!vars) => Budget'
<1> SUFFICES ASSUME Types, Progress, Leases, Budget, [Candle!Next]_(Candle!vars), NEW e \in Events
             PROVE  /\ IsFiniteSet(SignalsOf(e))'
                    /\ Holders(e)' <= 1 + used'["overruns"]
                    /\ Cost(e)' <= 1 + Candle!FaultsSoFar'
  BY DEF Budget
<1>1. /\ IsFiniteSet(SignalsOf(e)) /\ Holders(e) <= 1 + used["overruns"]
      /\ Cost(e) <= 1 + Candle!FaultsSoFar
  BY DEF Budget
<1>2. HoldersMove(e) /\ CostMove(e)
  BY HoldersStep, CostStep
<1> QED  BY <1>1, <1>2, UsedStep, HoldersKept, CostKept

(* Without an overrun an event is with one task at most. *)
LEMMA OneHolder ==
  ASSUME Budget, used["overruns"] = 0, NEW e \in Events, NEW t \in Tasks, NEW v \in Tasks,
         Has(t, e), Has(v, e)
  PROVE  t = v
<1> SUFFICES ASSUME t # v PROVE FALSE
  OBVIOUS
<1>1. Having(e) \in SUBSET Tasks /\ t \in Having(e) /\ {v} \subseteq Having(e) \ {t}
  BY DEF Having
<1>2. /\ IsFiniteSet(Having(e)) /\ Cardinality(Having(e)) \in Nat
      /\ Cardinality({v}) <= Cardinality(Having(e)) - 1
  BY <1>1, TaskSets, Subsets
<1>3. Cardinality({v}) = 1
  BY FS_Singleton
<1>4. Cardinality(Having(e)) + (IF Held(e) THEN 0 ELSE 1) <= 1
  BY DEF Budget, Holders
<1> DEFINE n == Cardinality(Having(e))
           k == Cardinality({v})
<1>5. n \in Nat /\ k = 1 /\ k <= n - 1 /\ (n <= 1 \/ n + 1 <= 1)
  BY <1>2, <1>3, <1>4
<1> QED  BY <1>5

LEMMA UndisturbedStep ==
  Types /\ Progress /\ Leases /\ Budget /\ Undisturbed /\ [Candle!Next]_(Candle!vars) => Undisturbed'
<1> SUFFICES ASSUME Types, Progress, Leases, Budget, Undisturbed, [Candle!Next]_(Candle!vars)
             PROVE  Undisturbed'
  OBVIOUS
<1> SUFFICES ASSUME Candle!FaultsSoFar' = 0
             PROVE  /\ \A e \in Events \ processed' : SignalsOf(e)' # {} =>
                         \E t \in Tasks : /\ run'[t].event = e /\ run'[t].pc = "mark"
                                          /\ run'[t].decision \in Decisions
                    /\ \A t \in Tasks : run'[t].pc \in {"run", "publish", "mark"} =>
                         run'[t].event \notin processed'
                    /\ \A e \in processed' : verdict'[e] = "blocked" => SignalsOf(e)' = {}
  BY DEF Undisturbed
<1>1. Candle!FaultsSoFar = 0 /\ used["overruns"] = 0
  <2>1. Candle!FaultsSoFar = 0
    BY UsedStep
  <2>2. /\ used["crashes"] \in Nat /\ used["overruns"] \in Nat
        /\ used["errors"] \in Nat /\ used["exhaustions"] \in Nat
    BY DEF Types, Candle!Faults
  <2>3. used["crashes"] + used["overruns"] + used["errors"] + used["exhaustions"] = 0
    BY <2>1 DEF Candle!FaultsSoFar
  <2>4. \A a, b, c, d \in Nat : a + b + c + d = 0 => b = 0
    OBVIOUS
  <2>5. used["overruns"] = 0
    BY <2>2, <2>3, <2>4, Zenon
  <2> QED  BY <2>1, <2>5
<1>2. /\ \A e \in Events \ processed : SignalsOf(e) # {} =>
           \E t \in Tasks : /\ run[t].event = e /\ run[t].pc = "mark"
                            /\ run[t].decision \in Decisions
      /\ \A t \in Tasks : run[t].pc \in {"run", "publish", "mark"} => run[t].event \notin processed
      /\ \A e \in processed : verdict[e] = "blocked" => SignalsOf(e) = {}
  BY <1>1 DEF Undisturbed
<1>3. ASSUME NEW fault \in Candle!Faults, Candle!Spend(fault) PROVE FALSE
  <2>1. Candle!FaultsSoFar' = Candle!FaultsSoFar + 1
    BY <1>3, SpendStep
  <2> QED  BY <1>1, <2>1
<1>4. CASE signals' = signals /\ processed' = processed /\ verdict' = verdict /\ run' = run
  BY <1>2, <1>4 DEF SignalsOf
<1>5. CASE (\E e \in Events : Candle!Enqueue(e)) \/ Time
  BY <1>4, <1>5, EnqueueStep, TimeStep
<1>6. ASSUME NEW t \in Tasks, signals' = signals, processed' = processed, verdict' = verdict,
             \A v \in Tasks \ {t} : run'[v] = run[v], run[t].pc # "mark",
             run'[t].pc \in {"run", "publish", "mark"} => run'[t].event \notin processed
      PROVE  Undisturbed'
  <2>1. \A e \in Events : SignalsOf(e)' = SignalsOf(e)
    BY <1>6 DEF SignalsOf
  <2>2. \A e \in Events \ processed' : SignalsOf(e)' # {} =>
          \E v \in Tasks : run'[v].event = e /\ run'[v].pc = "mark" /\ run'[v].decision \in Decisions
    BY <1>2, <1>6, <2>1
  <2>3. \A v \in Tasks : run'[v].pc \in {"run", "publish", "mark"} => run'[v].event \notin processed'
    BY <1>2, <1>6
  <2>4. \A e \in processed' : verdict'[e] = "blocked" => SignalsOf(e)' = {}
    BY <1>2, <1>6, <2>1 DEF Types
  <2> QED  BY <2>2, <2>3, <2>4 DEF Undisturbed
<1>7. ASSUME NEW t \in Tasks, Candle!Claim(t) PROVE Undisturbed'
  BY <1>6, <1>7, ClaimStep
<1>8. ASSUME NEW t \in Tasks, Candle!Deliver(t) PROVE Undisturbed'
  BY <1>6, <1>8, DeliverStep
<1>9. ASSUME NEW t \in Tasks, Candle!Enter(t) PROVE Undisturbed'
  BY <1>6, <1>9, EnterStep
<1>10. ASSUME NEW t \in Tasks, Candle!Evaluate(t) PROVE Undisturbed'
  BY <1>2, <1>6, <1>10, EvaluateStep
<1>11. ASSUME NEW t \in Tasks, Candle!Trace(t) PROVE Undisturbed'
  BY <1>6, <1>11, TraceStep
<1>12. ASSUME NEW t \in Tasks, Candle!Complete(t) PROVE Undisturbed'
  BY <1>6, <1>12, CompleteStep
<1>13. ASSUME NEW t \in Tasks, Candle!Fail(t) PROVE Undisturbed'
  BY <1>6, <1>13, FailStep
<1>14. ASSUME NEW t \in Tasks, Candle!Publish(t) PROVE Undisturbed'
  <2> DEFINE x == run[t].event
  <2>1. /\ x \in Events /\ x \notin processed /\ \A v \in Tasks \ {t} : run'[v] = run[v]
        /\ run'[t].event = x /\ run'[t].pc = "mark" /\ run'[t].decision \in Decisions
        /\ processed' = processed /\ verdict' = verdict /\ run[t].pc = "publish"
    BY <1>2, <1>14, PublishStep
  <2>2. \A e \in Events \ {x} : SignalsOf(e)' = SignalsOf(e)
    BY <1>14, PublishStep DEF SignalsOf
  <2>3. processed \subseteq Events
    BY DEF Types
  <2> HIDE DEF x
  <2> QED  BY <1>2, <2>1, <2>2, <2>3 DEF Undisturbed
<1>15. ASSUME NEW t \in Tasks, Candle!Mark(t) PROVE Undisturbed'
  <2> DEFINE x == run[t].event
  <2>1. /\ x \in Events /\ x \notin processed /\ \A v \in Tasks \ {t} : run'[v] = run[v]
        /\ run[t].pc = "mark" /\ run'[t].pc = "trace" /\ processed' = processed \cup {x}
        /\ verdict'[x] = run[t].decision /\ \A e \in processed : verdict'[e] = verdict[e]
    BY <1>2, <1>15, MarkStep DEF Types
  <2>2. \A e \in Events : SignalsOf(e)' = SignalsOf(e)
    BY <1>15, MarkStep DEF SignalsOf
  <2>3. \A v \in Tasks \ {t} : run[v].pc \in {"run", "publish", "mark"} => run[v].event # x
    <3>1. Has(t, x)
      BY <2>1 DEF Has, Delivering, Candle!Critical
    <3>2. ASSUME NEW v \in Tasks \ {t}, run[v].pc \in {"run", "publish", "mark"}, run[v].event = x
          PROVE  FALSE
      <4>1. Has(v, x)
        BY <3>2 DEF Has, Delivering, Candle!Critical
      <4> QED  BY <1>1, <2>1, <3>1, <3>2, <4>1, OneHolder
    <3> QED  BY <3>2
  <2>4. run[t].decision = "blocked" => SignalsOf(x) = {}
    <3>1. run[t].decision = "blocked" => run[t].decision \notin Decisions
      OBVIOUS
    <3> HIDE DEF x
    <3> QED  BY <1>2, <2>1, <2>3, <3>1
  <2>5. processed \subseteq Events
    BY DEF Types
  <2> HIDE DEF x
  <2>6. \A e \in Events \ processed' : SignalsOf(e)' # {} =>
          \E v \in Tasks : run'[v].event = e /\ run'[v].pc = "mark" /\ run'[v].decision \in Decisions
    <3>1. run[t].event = x
      BY DEF x
    <3> QED  BY <1>2, <2>1, <2>2, <3>1
  <2>7. \A v \in Tasks : run'[v].pc \in {"run", "publish", "mark"} => run'[v].event \notin processed'
    BY <1>2, <2>1, <2>3
  <2>8. \A e \in processed' : verdict'[e] = "blocked" => SignalsOf(e)' = {}
    BY <1>2, <2>1, <2>2, <2>4, <2>5
  <2> QED  BY <2>6, <2>7, <2>8 DEF Undisturbed
<1>16. ASSUME NEW t \in Tasks, Candle!Raise(t) PROVE FALSE
  BY <1>3, <1>16, RaiseStep DEF Candle!Faults
<1>17. ASSUME NEW p \in Processes, Candle!Crash(p) PROVE FALSE
  BY <1>3, <1>17, CrashStep DEF Candle!Faults
<1>18. CASE UNCHANGED Candle!vars
  BY <1>4, <1>18 DEF Candle!vars
<1>19. CASE Undisturbed'
  BY <1>19 DEF Undisturbed
<1> QED
  BY <1>5, <1>7, <1>8, <1>9, <1>10, <1>11, <1>12, <1>13, <1>14, <1>15, <1>16, <1>17, <1>18, <1>19
  DEF Candle!Next, Candle!Work, Time

-----------------------------------------------------------------------------
(* The invariant holds, and with it the properties of the outbox.           *)

LEMMA CandleInit == Candle!Init => IInv
<1> SUFFICES ASSUME Candle!Init PROVE IInv
  OBVIOUS
<1>1. /\ \A t \in Tasks : /\ run[t] = Candle!Idle /\ run[t].pc = "idle" /\ run[t].batch = {}
                          /\ run[t] \in Runs
      /\ \A e \in Events : /\ row[e].status = "absent" /\ ~row[e].leased /\ row[e].by = NoProcess
                           /\ row[e] \in Rows
      /\ processed = {} /\ signals = {}
  BY DEF Candle!Init, Candle!Idle, Candle!Free, Runs, Rows, Phases
<1>2. Types
  BY <1>1 DEF Candle!Init, Types, Delivering, Candle!Critical, Candle!Outcomes
<1>3. Locks /\ Leases /\ Progress /\ Marks
  BY <1>1 DEF Candle!Init, Locks, Leases, Progress, Marks, Has, Delivering, Candle!Critical
<1>4. Budget
  <2> SUFFICES ASSUME NEW e \in Events
               PROVE  /\ IsFiniteSet(SignalsOf(e)) /\ Holders(e) <= 1 + used["overruns"]
                      /\ Cost(e) <= 1 + Candle!FaultsSoFar
    BY DEF Budget
  <2>1. SignalsOf(e) = {} /\ Publishers(e) = {} /\ Having(e) = {}
    BY <1>1 DEF SignalsOf, Publishers, MayPublish, Having, Has, Delivering, Candle!Critical
  <2>2. IsFiniteSet({}) /\ Cardinality({}) = 0
    BY FS_EmptySet
  <2>3. used["overruns"] = 0 /\ Candle!FaultsSoFar = 0
    BY DEF Candle!Init, Candle!FaultsSoFar, Candle!Faults
  <2> QED  BY <2>1, <2>2, <2>3 DEF Holders, Cost
<1>5. Undisturbed
  BY <1>1 DEF Undisturbed, SignalsOf
<1> QED  BY <1>2, <1>3, <1>4, <1>5 DEF IInv

LEMMA CandleStep == IInv /\ [Candle!Next]_(Candle!vars) => IInv'
  BY TypesStep, LocksStep, LeasesStep, ProgressStep, MarksStep, BudgetStep, UndisturbedStep DEF IInv

(* The outbox takes its steps, or rests while an attempt takes one. *)
LEMMA CandleRuns == Spec => Candle!Init /\ [][Candle!Next]_(Candle!vars)
<1>1. Init => Candle!Init
  BY DEF Init
<1>2. [Next]_vars => [Candle!Next]_(Candle!vars)
  BY DEF Next, vars, candleVars, Candle!vars
<1> QED  BY <1>1, <1>2, PTL DEF Spec

LEMMA CandleInvariant == Spec => []IInv
  BY CandleInit, CandleStep, CandleRuns, PTL

LEMMA CandleTypes == IInv => Candle!TypeOK
<1> SUFFICES ASSUME IInv PROVE Candle!TypeOK
  OBVIOUS
<1>1. Types /\ Locks /\ Leases
  BY DEF IInv
<1> QED  BY <1>1 DEF Types, Locks, Leases, Rows, Runs, Phases, Delivering, Candle!TypeOK

(* Whatever decided to publish and marked its event has stored its signal,  *)
(* and without a fault an event that was blocked has none: MarkStep and     *)
(* Undisturbed, for any number of tasks and processes.                      *)
THEOREM MarksMatchSignals == Spec => []SignalMatchesMark
<1>1. IInv => SignalMatchesMark
  BY DEF IInv, Marks, Undisturbed, SignalMatchesMark, Candle!SignalMatchesMark, SignalsOf
<1> QED  BY <1>1, CandleInvariant, PTL

(* Second signals of an event, and simultaneous cycles of it, are paid for: *)
(* who has an event, and who may yet publish it, is counted by Holders and  *)
(* Cost, which no step raises without a fault.                              *)
THEOREM RerunsAreFaults == Spec => []RerunsCostFaults
<1>1. ASSUME IInv, NEW e \in Events
      PROVE  /\ Cardinality(SignalsOf(e)) <= 1 + Candle!FaultsSoFar
             /\ Cardinality({ t \in Tasks : run[t].event = e /\ run[t].pc \in Candle!Critical })
                  <= 1 + used["overruns"]
  <2>1. /\ IsFiniteSet(SignalsOf(e)) /\ Holders(e) <= 1 + used["overruns"]
        /\ Cost(e) <= 1 + Candle!FaultsSoFar
    BY <1>1 DEF IInv, Budget
  <2>2. /\ used["overruns"] \in Nat /\ used["crashes"] \in Nat
        /\ used["errors"] \in Nat /\ used["exhaustions"] \in Nat
    BY <1>1 DEF IInv, Types, Candle!Faults
  <2>3. Candle!FaultsSoFar \in Nat
    BY <2>2 DEF Candle!FaultsSoFar
  <2> DEFINE S == { t \in Tasks : run[t].event = e /\ run[t].pc \in Candle!Critical }
  <2>4. S \subseteq Having(e) /\ Having(e) \in SUBSET Tasks /\ Publishers(e) \in SUBSET Tasks
    BY DEF Having, Has, Delivering, Publishers
  <2>5. /\ Cardinality(S) \in Nat /\ Cardinality(Having(e)) \in Nat
        /\ Cardinality(S) <= Cardinality(Having(e))
    <3> HIDE DEF S
    <3> QED  BY <2>4, TaskSets, Subsets
  <2>6. Cardinality(Publishers(e)) \in Nat /\ Cardinality(SignalsOf(e)) \in Nat
    BY <2>1, <2>4, TaskSets, FS_CardinalityType
  <2> DEFINE s == Cardinality(S)
             h == Cardinality(Having(e))
             n == Cardinality(Publishers(e))
             i == Cardinality(SignalsOf(e))
             c == IF Held(e) THEN 0 ELSE 1
             d == IF Open(e) THEN 1 ELSE 0
             p == used["overruns"]
             q == Candle!FaultsSoFar
  <2>7. c \in 0..1 /\ d \in 0..1 /\ h + c <= 1 + p /\ i + n + d <= 1 + q
    BY <2>1 DEF Holders, Cost
  <2>8. s \in Nat /\ h \in Nat /\ n \in Nat /\ i \in Nat /\ p \in Nat /\ q \in Nat /\ s <= h
    BY <2>2, <2>3, <2>5, <2>6
  <2>9. i <= 1 + q /\ s <= 1 + p
    <3> HIDE DEF s, h, n, i, c, d, p, q
    <3> QED  BY <2>7, <2>8
  <2> QED  BY <2>9
<1>2. IInv => RerunsCostFaults
  BY <1>1, SameCount DEF RerunsCostFaults, Candle!RerunsCostFaults, SignalsOf
<1> QED  BY <1>2, CandleInvariant, PTL

-----------------------------------------------------------------------------
(* The rows deliver: they implement the outbox of Delivery.                 *)

Stage(status) == IF status = "published" THEN "settled" ELSE status

(* What a step does to the rows, as a step of the abstract outbox.          *)
LEMMA Rests ==
  ASSUME \A e \in Events : row'[e].status = row[e].status, processed' = processed
  PROVE  UNCHANGED Candle!Outbox!vars
  BY DEF Candle!Outbox!vars

LEMMA Moves ==
  ASSUME NEW e \in Events, \A f \in Events \ {e} : row'[f].status = row[f].status,
         processed' = processed,
         \/ row[e].status = "absent" /\ row'[e].status = "waiting"
         \/ row[e].status = "waiting" /\ row'[e].status = "published" /\ e \in processed
  PROVE  Candle!Outbox!Next
<1> DEFINE S == [f \in Events |-> IF row[f].status = "published" THEN "settled" ELSE row[f].status]
           T == [f \in Events |-> IF row'[f].status = "published" THEN "settled" ELSE row'[f].status]
<1>1. T = [S EXCEPT ![e] = Stage(row'[e].status)] /\ S[e] = Stage(row[e].status)
  <2>1. \A f \in Events : T[f] = IF f = e THEN Stage(row'[e].status) ELSE S[f]
    BY DEF Stage
  <2>2. DOMAIN S = Events /\ DOMAIN T = Events /\ S[e] = Stage(row[e].status)
    BY DEF Stage
  <2>3. S = [f \in Events |-> S[f]] /\ T = [f \in Events |-> T[f]]
    OBVIOUS
  <2> HIDE DEF S, T
  <2> QED  BY <2>1, <2>2, <2>3
<1> HIDE DEF S, T
<1>2. \/ S[e] = "absent" /\ T = [S EXCEPT ![e] = "waiting"]
      \/ S[e] = "waiting" /\ T = [S EXCEPT ![e] = "settled"] /\ e \in processed
  BY <1>1 DEF Stage
<1> QED  BY <1>2 DEF S, T, Candle!Outbox!Next, Candle!Outbox!Accept, Candle!Outbox!Settle

LEMMA InitDelivers == Candle!Init => Candle!Outbox!Init
<1> SUFFICES ASSUME Candle!Init PROVE Candle!Outbox!Init
  OBVIOUS
<1>1. \A e \in Events : row[e].status = "absent"
  BY DEF Candle!Init, Candle!Free
<1> QED  BY <1>1 DEF Candle!Init, Candle!Outbox!Init

LEMMA StepDelivers == IInv /\ [Candle!Next]_(Candle!vars) => [Candle!Outbox!Next]_(Candle!Outbox!vars)
<1> DEFINE Abstract == [Candle!Outbox!Next]_(Candle!Outbox!vars)
<1> SUFFICES ASSUME IInv, [Candle!Next]_(Candle!vars) PROVE Abstract
  OBVIOUS
<1>1. Types /\ Leases /\ Progress
  BY DEF IInv
<1>2. ASSUME processed' = processed, \A e \in Events : row'[e].status = row[e].status PROVE Abstract
  BY <1>2, Rests
<1>3. ASSUME NEW e \in Events, Candle!Enqueue(e) PROVE Abstract
  BY <1>1, <1>3, EnqueueStep, Moves
<1>4. ASSUME Time PROVE Abstract
  BY <1>1, <1>2, <1>4, TimeStep
<1>5. ASSUME NEW t \in Tasks, Candle!Claim(t) PROVE Abstract
  BY <1>1, <1>2, <1>5, ClaimStep
<1>6. ASSUME NEW t \in Tasks, Busy(t), processed' = processed PROVE Abstract
  BY <1>1, <1>2, <1>6, BusyStep
<1>7. ASSUME NEW t \in Tasks,
             \/ Candle!Deliver(t) \/ Candle!Enter(t) \/ Candle!Evaluate(t) \/ Candle!Publish(t)
             \/ Candle!Trace(t) \/ Candle!Raise(t)
      PROVE  Abstract
  <2>1. Busy(t) /\ processed' = processed
    BY <1>1, <1>7, DeliverStep, EnterStep, EvaluateStep, PublishStep, TraceStep, RaiseStep DEF Busy
  <2> QED  BY <1>6, <2>1
<1>8. ASSUME NEW t \in Tasks, Candle!Mark(t) PROVE Abstract
  <2>1. /\ run[t].event \in Events /\ processed' = processed \cup {run[t].event} /\ row' = row
        /\ run[t].pc = "mark"
    BY <1>1, <1>8, MarkStep
  <2>2. row[run[t].event].status # "absent"
    BY <1>1, <2>1 DEF Leases, Has, Delivering, Candle!Critical
  <2>3. Candle!Outbox!Handle(run[t].event)
    BY <2>1, <2>2 DEF Candle!Outbox!Handle
  <2> QED  BY <2>1, <2>3 DEF Candle!Outbox!Next
<1>9. ASSUME NEW t \in Tasks, Candle!Complete(t) PROVE Abstract
  <2>1. /\ run[t].event \in processed /\ run[t].event \in Events /\ processed' = processed
        /\ \A f \in Events \ {run[t].event} : row'[f].status = row[f].status
        /\ IF row[run[t].event].by = Home[t]
             THEN row'[run[t].event].status = "published" ELSE row' = row
    BY <1>1, <1>9, CompleteStep DEF Progress
  <2>2. row[run[t].event].by = Home[t] => row[run[t].event].status = "waiting"
    BY <1>1, <2>1, Homes DEF Leases
  <2>3. CASE row' = row
    BY <1>2, <2>1, <2>3
  <2>4. CASE row[run[t].event].by = Home[t]
    BY <2>1, <2>2, <2>4, Moves
  <2> QED  BY <2>1, <2>3, <2>4
<1>10. ASSUME NEW t \in Tasks, Candle!Fail(t) PROVE Abstract
  <2>1. /\ run[t].event \in Events /\ processed' = processed
        /\ \A f \in Events \ {run[t].event} : row'[f].status = row[f].status
        /\ \/ row' = row
           \/ row[run[t].event].by = Home[t] /\ row'[run[t].event].status = "waiting"
    BY <1>1, <1>10, FailStep
  <2>2. row[run[t].event].by = Home[t] => row[run[t].event].status = "waiting"
    BY <1>1, <2>1, Homes DEF Leases
  <2> QED  BY <1>2, <2>1, <2>2
<1>11. ASSUME NEW p \in Processes, Candle!Crash(p) PROVE Abstract
  BY <1>1, <1>2, <1>11, CrashStep
<1>12. ASSUME UNCHANGED Candle!vars PROVE Abstract
  BY <1>2, <1>12 DEF Candle!vars
<1> HIDE DEF Abstract
<1> QED
  BY <1>3, <1>4, <1>5, <1>7, <1>8, <1>9, <1>10, <1>11, <1>12 DEF Candle!Next, Candle!Work, Time

(* An enqueued event waits until it was processed and never waits again:    *)
(* claims that expire, late holders, failures and crashes implement the     *)
(* outbox of Delivery.                                                      *)
THEOREM CandlesAreDelivered == Spec => Delivers
<1>1. Candle!Init => Candle!Outbox!Init
  BY InitDelivers
<1>2. IInv /\ [Candle!Next]_(Candle!vars) => [Candle!Outbox!Next]_(Candle!Outbox!vars)
  BY StepDelivers
<1> QED
  BY <1>1, <1>2, CandleRuns, CandleInvariant, PTL DEF Delivers, Candle!Delivers, Candle!Outbox!Spec
=============================================================================
