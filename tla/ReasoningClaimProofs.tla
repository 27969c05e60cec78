------------------------ MODULE ReasoningClaimProofs ------------------------
(***************************************************************************)
(* Proofs about ReasoningClaim, for any number of workers, market states   *)
(* and faults.                                                             *)
(***************************************************************************)
EXTENDS ReasoningClaim, FiniteSetTheorems, TLAPS

USE WorkersAssumption

(* The phases of a worker that holds, or held, a claim. *)
Asking == {"prepare", "ask", "call"}
Active == Asking \cup {"confirm", "save", "artifact", "publish", "close"}
Working == Active \cup {"stop"}

(* A worker that is about to close its claim knows how. *)
Endings == Closed \cup {"FAILED", "FAILED_SCHEMA", "WAITING_PROVIDER"}
Ends == \A w \in Workers : run[w].pc = "close" => run[w].outcome \in Endings

(* A claim_id belongs to one worker: to its process() call and to the       *)
(* heartbeat that this call started.                                        *)
Ids ==
  /\ row.claim <= granted /\ (row.status = "none" <=> row.claim = 0)
  /\ \A w \in Workers :
       /\ run[w].claim <= granted /\ beat[w] <= granted
       /\ run[w].pc \in {"idle", "claim"} => run[w].claim = 0
       /\ run[w].pc \in Working => run[w].claim # 0
  /\ \A w, v \in Workers :
       /\ run[w].claim # 0 /\ run[v].claim = run[w].claim => w = v
       /\ run[w].claim # 0 /\ beat[v] = run[w].claim => w = v
       /\ beat[w] # 0 /\ beat[v] = beat[w] => w = v

(* What a worker is about to commit is in the store already. *)
Stored(w) == analysis = [state |-> run[w].state, ok |-> TRUE]
Whole ==
  /\ \A w \in Workers :
       /\ run[w].pc \in Working /\ run[w].claim = row.claim => row.state = run[w].state
       /\ run[w].pc = "artifact" /\ run[w].outcome = "ok" => Stored(w)
       /\ run[w].pc = "publish" => Stored(w)
       /\ run[w].pc = "close" /\ run[w].outcome \in Closed => Stored(w) /\ signal
  /\ CommittedIsWhole

(* Nobody is left who could reopen a committed cycle. *)
Over ==
  /\ row.status \in Closed => \A w \in Workers :
       /\ run[w].pc \in Working /\ run[w].claim = row.claim => run[w].pc = "stop"
       /\ beat[w] = row.claim => run[w].claim = row.claim
  /\ \A w \in Workers : run[w].pc = "down" => used["shutdowns"] > 0

(* Without a stall or a shutdown the working holder has the row's claim and *)
(* a fresh lease, or its deadline has passed; and a cycle that was ever     *)
(* committed is never claimed again.                                        *)
Quiet ==
  used["stalls"] + used["shutdowns"] = 0 =>
    /\ \A w \in Workers : run[w].pc \in Active =>
         /\ row.claim = run[w].claim
         /\ row.status # "FAILED" =>
              row.status = "ACTIVE_CLAIM" /\ row.fresh /\ beat[w] = run[w].claim
    /\ done => /\ row.status \in Closed \cup {"FAILED"}
               /\ \A w \in Workers : run[w].pc \notin Active

(* A worker may call the provider for as long as it asks; and one more may  *)
(* come to that, unless one that asks holds the row under a live lease.     *)
Askers == { w \in Workers : run[w].pc \in Asking }
Covers(w) == run[w].pc \in Asking /\ beat[w] = row.claim /\ run[w].claim = row.claim
Covered == row.status = "ACTIVE_CLAIM" /\ row.fresh /\ \E w \in Workers : Covers(w)
Budget ==
  Cardinality(Askers) + (IF Covered THEN 0 ELSE 1) <= 1 + used["stalls"] + used["overruns"]

IInv == TypeOK /\ Ends /\ Ids /\ Whole /\ Over /\ Quiet /\ Budget

-----------------------------------------------------------------------------
(* What the steps do to a worker.                                           *)

LEMMA GotoStep ==
  ASSUME TypeOK, NEW w \in Workers, NEW pc \in Phases, Goto(w, pc)
  PROVE  /\ run' \in [Workers -> Runs] /\ \A v \in Workers \ {w} : run'[v] = run[v]
         /\ run'[w].pc = pc /\ run'[w].state = run[w].state /\ run'[w].claim = run[w].claim
         /\ run'[w].outcome = run[w].outcome
  BY DEF TypeOK, Goto, Runs, Phases

LEMMA ConcludeStep ==
  ASSUME TypeOK, NEW w \in Workers, NEW pc \in Phases, NEW o \in Statuses \cup {"ok", "bad"},
         Conclude(w, o, pc)
  PROVE  /\ run' \in [Workers -> Runs] /\ \A v \in Workers \ {w} : run'[v] = run[v]
         /\ run'[w].pc = pc /\ run'[w].state = run[w].state /\ run'[w].claim = run[w].claim
         /\ run'[w].outcome = o
<1> DEFINE q == [run[w] EXCEPT !.pc = pc, !.outcome = o]
<1>1. run \in [Workers -> Runs] /\ run[w] \in Runs
  BY DEF TypeOK
<1>2. /\ q \in Runs /\ q.pc = pc /\ q.outcome = o
      /\ q.state = run[w].state /\ q.claim = run[w].claim
  BY <1>1 DEF Runs
<1>3. run' = [run EXCEPT ![w] = q]
  BY <1>1 DEF Conclude, Runs
<1> HIDE DEF q
<1> QED  BY <1>1, <1>2, <1>3

LEMMA LeaveStep ==
  ASSUME TypeOK, NEW w \in Workers, Leave(w)
  PROVE  /\ run' \in [Workers -> Runs] /\ \A v \in Workers \ {w} : run'[v] = run[v]
         /\ run'[w].pc = "idle" /\ run'[w].claim = 0
  BY DEF TypeOK, Leave, Runs, Phases, Idle, Statuses

LEMMA SpendStep ==
  ASSUME TypeOK, NEW fault \in Faults, Spend(fault)
  PROVE  /\ used' \in [Faults -> Nat] /\ used'[fault] = used[fault] + 1
         /\ \A f \in Faults \ {fault} : used'[f] = used[f]
  BY DEF TypeOK, Spend

LEMMA TypeStep == TypeOK /\ Ends /\ [Next]_vars => TypeOK'
<1> SUFFICES ASSUME TypeOK, Ends, [Next]_vars PROVE TypeOK'
  OBVIOUS
<1> USE DEF Faults, At
<1>1. ASSUME NEW w \in Workers, NEW s \in States, Start(w, s) PROVE TypeOK'
  <2>1. run' \in [Workers -> Runs]
    <3> DEFINE q == [run[w] EXCEPT !.pc = "claim", !.state = s]
    <3>1. run \in [Workers -> Runs] /\ run[w] \in Runs
      BY DEF TypeOK
    <3>2. "claim" \in Phases
      BY DEF Phases
    <3>3. q \in Runs
      BY <3>1, <3>2 DEF Runs
    <3>4. run' = [run EXCEPT ![w] = q]
      BY <1>1, <3>1 DEF Start
    <3> HIDE DEF q
    <3> QED  BY <3>1, <3>3, <3>4
  <2> QED  BY <1>1, <2>1 DEF Start, TypeOK, store
<1>2. ASSUME NEW w \in Workers, Claim(w) PROVE TypeOK'
  <2>1. CASE Claimable
    <3>1. run[w] \in Runs /\ granted + 1 \in Nat
      BY DEF TypeOK
    <3>2. [run[w] EXCEPT !.pc = "prepare", !.claim = granted + 1,
                         !.takeover = (row.status # "none")] \in Runs
      BY <3>1 DEF Runs, Phases
    <3>3. run' \in [Workers -> Runs]
      BY <1>2, <2>1, <3>2 DEF Claim, TypeOK
    <3>4. row' \in Rows
      <4>1. run[w].state \in States \cup {"none"}
        BY <3>1 DEF Runs
      <4>2. row' = [status |-> "ACTIVE_CLAIM", claim |-> granted + 1,
                    state |-> run[w].state, fresh |-> TRUE, due |-> FALSE]
        BY <1>2, <2>1 DEF Claim
      <4> QED  BY <3>1, <4>1, <4>2 DEF Rows, Statuses
    <3> QED  BY <1>2, <2>1, <3>1, <3>3, <3>4 DEF Claim, TypeOK
  <2>2. CASE ~Claimable
    BY <1>2, <2>2, LeaveStep DEF Claim, TypeOK
  <2> QED  BY <2>1, <2>2
<1>3. ASSUME NEW w \in Workers, Prepare(w) PROVE TypeOK'
  <2>1. run' \in [Workers -> Runs]
    BY <1>3, GotoStep, ConcludeStep DEF Prepare, Close, Phases, Statuses
  <2> QED  BY <1>3, <2>1, SpendStep DEF Prepare, TypeOK, store
<1>4. ASSUME NEW w \in Workers, Ask(w) PROVE TypeOK'
  <2>1. run' \in [Workers -> Runs]
    BY <1>4, GotoStep, ConcludeStep DEF Ask, Phases
  <2> QED  BY <1>4, <2>1 DEF Ask, TypeOK, store
<1>5. ASSUME NEW w \in Workers, Answer(w) PROVE TypeOK'
  <2>1. run' \in [Workers -> Runs]
    BY <1>5, ConcludeStep DEF Answer, Close, Phases, Statuses
  <2>2. used' \in [Faults -> Nat]
    BY <1>5, SpendStep DEF Answer, TypeOK
  <2>3. artifact' \in [States -> {"none", "valid", "bad", "committed"}]
    BY <1>5 DEF Answer, TypeOK
  <2> QED  BY <1>5, <2>1, <2>2, <2>3 DEF Answer, TypeOK
<1>6. ASSUME NEW w \in Workers, Confirm(w) PROVE TypeOK'
  <2>1. run' \in [Workers -> Runs]
    BY <1>6, GotoStep, LeaveStep DEF Confirm, Phases
  <2>2. row' \in Rows
    BY <1>6 DEF Confirm, TypeOK, Rows
  <2> QED  BY <1>6, <2>1, <2>2 DEF Confirm, TypeOK
<1>7. ASSUME NEW w \in Workers, Save(w) PROVE TypeOK'
  <2>1. run' \in [Workers -> Runs]
    BY <1>7, GotoStep, ConcludeStep DEF Save, Close, Phases, Statuses
  <2>2. used' \in [Faults -> Nat]
    BY <1>7, SpendStep DEF Save, TypeOK
  <2>3. analysis' \in [state : States \cup {"none"}, ok : BOOLEAN]
    <3>1. [state |-> run[w].state, ok |-> run[w].outcome = "ok"]
            \in [state : States \cup {"none"}, ok : BOOLEAN]
      BY DEF TypeOK, Runs
    <3> QED  BY <1>7, <3>1 DEF Save, TypeOK
  <2> QED  BY <1>7, <2>1, <2>2, <2>3 DEF Save, TypeOK
<1>8. ASSUME NEW w \in Workers, Archive(w) PROVE TypeOK'
  <2>1. run' \in [Workers -> Runs]
    BY <1>8, GotoStep, ConcludeStep, LeaveStep DEF Archive, Close, Phases, Statuses
  <2>2. used' \in [Faults -> Nat]
    BY <1>8, SpendStep DEF Archive, TypeOK
  <2> QED  BY <1>8, <2>1, <2>2 DEF Archive, TypeOK
<1>9. ASSUME NEW w \in Workers, Publish(w) PROVE TypeOK'
  <2>1. run' \in [Workers -> Runs]
    <3>1. CommitStatus(run[w].takeover) \in Statuses /\ "FAILED" \in Statuses /\ "close" \in Phases
      BY DEF CommitStatus, Statuses, Closed, Phases
    <3> QED  BY <1>9, <3>1, ConcludeStep DEF Publish, Close
  <2>2. used' \in [Faults -> Nat]
    BY <1>9, SpendStep DEF Publish, TypeOK
  <2> QED  BY <1>9, <2>1, <2>2 DEF Publish, TypeOK
<1>10. ASSUME NEW w \in Workers, Complete(w) PROVE TypeOK'
  <2>1. run' \in [Workers -> Runs]
    BY <1>10, GotoStep DEF Complete, Phases
  <2>2. CASE Mine(run[w].claim)
    <3>1. row \in Rows /\ run[w].outcome \in Statuses
      BY <1>10 DEF Complete, TypeOK, Ends, Endings, Statuses
    <3>2. row' \in Rows
      BY <1>10, <2>2, <3>1 DEF Complete, Rows
    <3> QED  BY <1>10, <2>1, <2>2, <3>2 DEF Complete, TypeOK
  <2>3. CASE ~Mine(run[w].claim)
    BY <1>10, <2>1, <2>3 DEF Complete, TypeOK
  <2> QED  BY <2>2, <2>3
<1>11. ASSUME NEW w \in Workers, StopHeartbeat(w) PROVE TypeOK'
  BY <1>11, LeaveStep DEF StopHeartbeat, TypeOK, store
<1>12. ASSUME NEW w \in Workers, ReleaseOnExit(w) PROVE TypeOK'
  <2>1. row' \in Rows
    BY <1>12 DEF ReleaseOnExit, ReleaseRow, TypeOK, Rows, Statuses
  <2> QED  BY <1>12, <2>1, LeaveStep DEF ReleaseOnExit, TypeOK
<1>13. ASSUME NEW w \in Workers, Beat(w) PROVE TypeOK'
  <2>1. row' \in Rows
    BY <1>13 DEF Beat, TypeOK, Rows
  <2>2. used' \in [Faults -> Nat] /\ beat' \in [Workers -> Nat]
    BY <1>13, SpendStep DEF Beat, TypeOK
  <2> QED  BY <1>13, <2>1, <2>2 DEF Beat, TypeOK
<1>14. ASSUME NEW w \in Workers, Deadline(w) PROVE TypeOK'
  <2>1. row' \in Rows
    BY <1>14 DEF Deadline, ReleaseRow, TypeOK, Rows, Statuses
  <2>2. used' \in [Faults -> Nat] /\ beat' \in [Workers -> Nat]
    BY <1>14, SpendStep DEF Deadline, TypeOK
  <2> QED  BY <1>14, <2>1, <2>2 DEF Deadline, TypeOK
<1>15. ASSUME NEW w \in Workers, Crash(w) PROVE TypeOK'
  BY <1>15, LeaveStep, SpendStep DEF Crash, TypeOK, store
<1>16. ASSUME NEW w \in Workers, Shutdown(w) PROVE TypeOK'
  <2>1. [Idle EXCEPT !.pc = "down", !.claim = beat[w]] \in Runs
    BY DEF Idle, Runs, Phases, Statuses, TypeOK
  <2>2. used' \in [Faults -> Nat] /\ run' \in [Workers -> Runs] /\ beat' \in [Workers -> Nat]
    BY <1>16, <2>1, SpendStep DEF Shutdown, TypeOK
  <2> QED  BY <1>16, <2>2 DEF Shutdown, TypeOK, store
<1>17. CASE LeaseExpires
  <2>1. row' \in Rows /\ used' \in [Faults -> Nat]
    BY <1>17, SpendStep DEF LeaseExpires, TypeOK, Rows
  <2> QED  BY <1>17, <2>1 DEF LeaseExpires, TypeOK
<1>18. CASE RetryDue
  BY <1>18 DEF RetryDue, TypeOK, Rows
<1>19. CASE UNCHANGED vars
  BY <1>19 DEF vars, store, TypeOK
<1> QED
  BY <1>1, <1>2, <1>3, <1>4, <1>5, <1>6, <1>7, <1>8, <1>9, <1>10, <1>11, <1>12, <1>13,
     <1>14, <1>15, <1>16, <1>17, <1>18, <1>19 DEF Next, Work

LEMMA EndsStep == TypeOK /\ Ends /\ [Next]_vars => Ends'
<1> SUFFICES ASSUME TypeOK, Ends, [Next]_vars, NEW w \in Workers, run'[w].pc = "close"
             PROVE  run'[w].outcome \in Endings
  BY DEF Ends
<1> USE DEF At
<1>1. CASE run'[w] = run[w]
  BY <1>1 DEF Ends
<1>2. ASSUME NEW v \in Workers, NEW s \in States, Start(v, s) PROVE run'[w] = run[w]
  <2>1. v = w => run'[w].pc = "claim"
    BY <1>2 DEF Start, TypeOK, Runs
  <2> QED  BY <1>2, <2>1 DEF Start, TypeOK
<1>3. ASSUME NEW v \in Workers, Claim(v) PROVE run'[w] = run[w]
  <2>1. v = w => run'[w].pc \in {"prepare", "idle"}
    BY <1>3, LeaveStep DEF Claim, TypeOK, Runs
  <2> QED  BY <1>3, <2>1, LeaveStep DEF Claim, TypeOK
<1>4. ASSUME NEW v \in Workers, NEW pc \in Phases \ {"close"}, Goto(v, pc) PROVE run'[w] = run[w]
  BY <1>4, GotoStep
<1>5. ASSUME NEW v \in Workers, NEW o \in Statuses \cup {"ok", "bad"}, NEW pc \in Phases \ {"close"},
             Conclude(v, o, pc)
      PROVE  run'[w] = run[w]
  BY <1>5, ConcludeStep
<1>6. ASSUME NEW v \in Workers, NEW o \in Endings, Close(v, o)
      PROVE  run'[w] = run[w] \/ run'[w].outcome = o
  BY <1>6, ConcludeStep DEF Close, Phases, Endings, Statuses
<1>7. ASSUME NEW v \in Workers, Leave(v) PROVE run'[w] = run[w]
  BY <1>7, LeaveStep
<1>8. {"FAILED", "FAILED_SCHEMA", "WAITING_PROVIDER"} \subseteq Endings
      /\ \A b : CommitStatus(b) \in Endings
  BY DEF Endings, CommitStatus, Closed
<1>9. {"ask", "call", "save", "artifact", "publish", "stop", "confirm"} \subseteq Phases \ {"close"}
  BY DEF Phases
<1>10. ASSUME NEW v \in Workers, Work(v) PROVE run'[w] = run[w] \/ run'[w].outcome \in Endings
  BY <1>3, <1>4, <1>5, <1>6, <1>7, <1>8, <1>9, <1>10
  DEF Work, Prepare, Ask, Answer, Confirm, Save, Archive, Publish, Complete, StopHeartbeat, ReleaseOnExit
<1>11. ASSUME NEW v \in Workers, Beat(v) \/ Deadline(v) PROVE run'[w] = run[w]
  BY <1>11 DEF Beat, Deadline
<1>12. ASSUME NEW v \in Workers, Crash(v) PROVE run'[w] = run[w]
  BY <1>7, <1>12 DEF Crash
<1>13. ASSUME NEW v \in Workers, Shutdown(v) PROVE run'[w] = run[w]
  <2>1. v = w => run'[w].pc = "down"
    BY <1>13 DEF Shutdown, Idle, TypeOK
  <2> QED  BY <1>13, <2>1 DEF Shutdown, TypeOK
<1>14. CASE LeaseExpires \/ RetryDue \/ UNCHANGED vars
  BY <1>1, <1>14 DEF LeaseExpires, RetryDue, vars
<1> QED  BY <1>1, <1>2, <1>10, <1>11, <1>12, <1>13, <1>14 DEF Next

-----------------------------------------------------------------------------
(* What the steps of a worker do to the claims.                             *)

(* Most leave the row as it is and keep the claim, or give it up.           *)
Private(w) ==
  Prepare(w) \/ Ask(w) \/ Answer(w) \/ Save(w) \/ Archive(w) \/ Publish(w)

LEMMA PrivateStep ==
  ASSUME TypeOK, NEW w \in Workers, Private(w)
  PROVE  /\ UNCHANGED <<row, beat, granted, done>>
         /\ \A v \in Workers \ {w} : run'[v] = run[v]
         /\ run[w].pc \in Active
         /\ \/ run'[w].pc \in Active /\ run'[w].claim = run[w].claim /\ run'[w].state = run[w].state
            \/ run'[w].pc = "idle" /\ run'[w].claim = 0
         /\ run'[w].pc \in Asking => run[w].pc \in Asking
<1> USE DEF At, Active, Asking, Close, store
<1>1. {"ask", "call", "confirm", "save", "artifact", "publish", "close"} \subseteq Phases
  BY DEF Phases
<1>2. {"ok", "bad", "FAILED", "FAILED_SCHEMA", "WAITING_PROVIDER"} \subseteq Statuses \cup {"ok", "bad"}
      /\ \A b : CommitStatus(b) \in Statuses \cup {"ok", "bad"}
  BY DEF Statuses, CommitStatus, Closed
<1>3. CASE Prepare(w)
  BY <1>1, <1>2, <1>3, GotoStep, ConcludeStep DEF Prepare
<1>4. CASE Ask(w)
  BY <1>1, <1>2, <1>4, GotoStep, ConcludeStep DEF Ask
<1>5. CASE Answer(w)
  BY <1>1, <1>2, <1>5, ConcludeStep DEF Answer
<1>6. CASE Save(w)
  BY <1>1, <1>2, <1>6, GotoStep, ConcludeStep DEF Save
<1>7. CASE Archive(w)
  BY <1>1, <1>2, <1>7, GotoStep, ConcludeStep, LeaveStep DEF Archive
<1>8. CASE Publish(w)
  BY <1>1, <1>2, <1>8, ConcludeStep DEF Publish
<1> QED  BY <1>3, <1>4, <1>5, <1>6, <1>7, <1>8 DEF Private

LEMMA StartStep ==
  ASSUME TypeOK, NEW w \in Workers, NEW s \in States, Start(w, s)
  PROVE  /\ UNCHANGED <<row, beat, granted, done, used, calls, analysis, signal>>
         /\ \A v \in Workers \ {w} : run'[v] = run[v]
         /\ run[w].pc = "idle" /\ run'[w].pc = "claim" /\ run'[w].claim = run[w].claim
  BY DEF Start, At, TypeOK, Runs, store

LEMMA ClaimStep ==
  ASSUME TypeOK, NEW w \in Workers, Claim(w)
  PROVE  /\ UNCHANGED <<done, used, calls, analysis, signal>>
         /\ \A v \in Workers \ {w} : run'[v] = run[v] /\ beat'[v] = beat[v]
         /\ run[w].pc = "claim"
         /\ \/ /\ Claimable /\ granted' = granted + 1 /\ row'.claim = granted + 1
               /\ row'.status = "ACTIVE_CLAIM" /\ row'.fresh /\ row'.state = run[w].state
               /\ run'[w].pc = "prepare" /\ run'[w].claim = granted + 1 /\ run'[w].state = run[w].state
               /\ beat'[w] = granted + 1
            \/ /\ UNCHANGED <<row, beat, granted>> /\ run'[w].pc = "idle" /\ run'[w].claim = 0
<1>1. CASE Claimable
  BY <1>1 DEF Claim, At, TypeOK, Runs
<1>2. CASE ~Claimable
  BY <1>2, LeaveStep DEF Claim, At
<1> QED  BY <1>1, <1>2

LEMMA ConfirmStep ==
  ASSUME TypeOK, NEW w \in Workers, Confirm(w)
  PROVE  /\ UNCHANGED <<beat, granted, done, used, calls, analysis, signal>>
         /\ \A v \in Workers \ {w} : run'[v] = run[v]
         /\ row'.claim = row.claim /\ row'.status = row.status /\ row'.state = row.state
         /\ row'.fresh = row.fresh \/ row'.fresh
         /\ run[w].pc = "confirm"
         /\ \/ run'[w].pc = "save" /\ run'[w].claim = run[w].claim /\ run'[w].state = run[w].state
            \/ run'[w].pc = "idle" /\ run'[w].claim = 0
  BY GotoStep, LeaveStep DEF Confirm, At, TypeOK, Rows, Phases

LEMMA CompleteStep ==
  ASSUME TypeOK, Ends, NEW w \in Workers, Complete(w)
  PROVE  /\ UNCHANGED <<beat, granted, used, calls, analysis, signal>>
         /\ \A v \in Workers \ {w} : run'[v] = run[v]
         /\ run[w].pc = "close" /\ run[w].outcome \in Endings
         /\ run'[w].pc = "stop" /\ run'[w].claim = run[w].claim /\ run'[w].state = run[w].state
         /\ row'.claim = row.claim /\ row'.state = row.state
         /\ IF row.claim = run[w].claim
              THEN /\ row'.status = run[w].outcome
                   /\ done' = (done \/ run[w].outcome \in Closed)
              ELSE row' = row /\ done' = done
  BY GotoStep DEF Complete, Mine, At, TypeOK, Rows, Phases, Ends

LEMMA StopStep ==
  ASSUME TypeOK, NEW w \in Workers, StopHeartbeat(w)
  PROVE  /\ UNCHANGED <<row, granted, done, used, calls, analysis, signal>>
         /\ \A v \in Workers \ {w} : run'[v] = run[v] /\ beat'[v] = beat[v]
         /\ run[w].pc = "stop" /\ run'[w].pc = "idle" /\ run'[w].claim = 0 /\ beat'[w] = 0
  BY LeaveStep DEF StopHeartbeat, At, TypeOK, store

LEMMA ReleaseStep ==
  ASSUME TypeOK, NEW w \in Workers, ReleaseOnExit(w)
  PROVE  /\ UNCHANGED <<beat, granted, done, used, calls, analysis, signal>>
         /\ \A v \in Workers \ {w} : run'[v] = run[v]
         /\ run[w].pc = "down" /\ run'[w].pc = "idle" /\ run'[w].claim = 0
         /\ row'.claim = row.claim /\ row'.state = row.state
         /\ IF run[w].claim # 0 /\ row.claim = run[w].claim
              THEN row'.status = "RELEASED" ELSE row' = row
  BY LeaveStep DEF ReleaseOnExit, ReleaseRow, At, TypeOK, Rows

LEMMA BeatStep ==
  ASSUME TypeOK, NEW w \in Workers, Beat(w)
  PROVE  /\ UNCHANGED <<run, granted, done, calls, analysis, signal>>
         /\ \A v \in Workers \ {w} : beat'[v] = beat[v]
         /\ row'.claim = row.claim /\ row'.status = row.status /\ row'.state = row.state
         /\ beat[w] # 0
         /\ \/ Owned(beat[w]) /\ beat' = beat /\ row'.fresh /\ used' = used
            \/ ~Owned(beat[w]) /\ beat'[w] = 0 /\ row' = row /\ used' = used
            \/ Spend("stalls") /\ beat'[w] = 0 /\ row' = row
  BY DEF Beat, TypeOK, Rows

LEMMA DeadlineStep ==
  ASSUME TypeOK, NEW w \in Workers, Deadline(w)
  PROVE  /\ UNCHANGED <<run, granted, done, calls, analysis, signal>>
         /\ \A v \in Workers \ {w} : beat'[v] = beat[v]
         /\ row'.claim = row.claim /\ row'.state = row.state
         /\ IF row.claim = beat[w] THEN row'.status = "FAILED" ELSE row' = row
         /\ beat[w] # 0 /\ beat'[w] = 0
         /\ IF run[w].claim = beat[w] THEN Spend("overruns") ELSE used' = used
  BY DEF Deadline, ReleaseRow, TypeOK, Rows

LEMMA CrashStep ==
  ASSUME TypeOK, NEW w \in Workers, Crash(w)
  PROVE  /\ UNCHANGED <<row, granted, done, calls, analysis, signal>>
         /\ \A v \in Workers \ {w} : run'[v] = run[v] /\ beat'[v] = beat[v]
         /\ run'[w].pc = "idle" /\ run'[w].claim = 0 /\ beat'[w] = 0 /\ Spend("crashes")
  BY LeaveStep DEF Crash, TypeOK, store

LEMMA ShutdownStep ==
  ASSUME TypeOK, NEW w \in Workers, Shutdown(w)
  PROVE  /\ UNCHANGED <<row, granted, done, calls, analysis, signal>>
         /\ \A v \in Workers \ {w} : run'[v] = run[v] /\ beat'[v] = beat[v]
         /\ run'[w].pc = "down" /\ run'[w].claim = beat[w] /\ beat'[w] = 0 /\ Spend("shutdowns")
  BY DEF Shutdown, Idle, TypeOK, store

LEMMA TimeStep ==
  ASSUME TypeOK, LeaseExpires \/ RetryDue
  PROVE  /\ UNCHANGED <<run, beat, granted, done, calls, analysis, signal>>
         /\ row'.claim = row.claim /\ row'.status = row.status /\ row'.state = row.state
         /\ \/ used' = used /\ row'.fresh = row.fresh
            \/ /\ row.status = "ACTIVE_CLAIM"
               /\ IF \E w \in Workers : beat[w] = row.claim THEN Spend("stalls") ELSE used' = used
  BY DEF LeaseExpires, RetryDue, TypeOK, Rows

-----------------------------------------------------------------------------
(* The invariant is inductive: the claims.                                  *)

(* Every step but a grant and a shutdown keeps a claim or gives it up. *)
LEMMA IdsKept ==
  ASSUME Ids, granted' = granted, row'.claim = row.claim,
         row'.status = "none" <=> row.status = "none",
         \A v \in Workers :
           /\ run'[v].claim \in {run[v].claim, 0} /\ beat'[v] \in {beat[v], 0}
           /\ run'[v].pc \in {"idle", "claim"} => run'[v].claim = 0
           /\ run'[v].pc \in Working => run[v].pc \in Working /\ run'[v].claim = run[v].claim,
         granted \in Nat
  PROVE  Ids'
  BY DEF Ids

LEMMA IdsStep == TypeOK /\ Ends /\ Ids /\ [Next]_vars => Ids'
<1> SUFFICES ASSUME TypeOK, Ends, Ids, [Next]_vars PROVE Ids'
  OBVIOUS
<1> USE DEF Working, Active, Asking
<1>1. /\ granted \in Nat /\ row.claim \in Nat
      /\ \A v \in Workers : run[v].claim \in Nat /\ beat[v] \in Nat
  BY DEF TypeOK, Rows, Runs
<1>2. ASSUME NEW w \in Workers, NEW s \in States, Start(w, s) PROVE Ids'
  <2>1. run[w].claim = 0
    BY <1>2, StartStep DEF Ids
  <2> QED  BY <1>1, <1>2, <2>1, StartStep, IdsKept DEF Ids
<1>3. ASSUME NEW w \in Workers, Claim(w) PROVE Ids'
  <2>1. CASE row' = row /\ beat' = beat /\ granted' = granted
             /\ run'[w].pc = "idle" /\ run'[w].claim = 0
    BY <1>1, <1>3, <2>1, ClaimStep, IdsKept DEF Ids
  <2>2. CASE /\ granted' = granted + 1 /\ row'.claim = granted + 1 /\ row'.status = "ACTIVE_CLAIM"
             /\ run'[w].pc = "prepare" /\ run'[w].claim = granted + 1 /\ beat'[w] = granted + 1
    BY <1>1, <1>3, <2>2, ClaimStep DEF Ids
  <2> QED  BY <1>3, <2>1, <2>2, ClaimStep
<1>4. ASSUME NEW w \in Workers, Private(w) PROVE Ids'
  BY <1>1, <1>4, PrivateStep, IdsKept DEF Ids
<1>5. ASSUME NEW w \in Workers, Confirm(w) PROVE Ids'
  BY <1>1, <1>5, ConfirmStep, IdsKept DEF Ids
<1>6. ASSUME NEW w \in Workers, Complete(w) PROVE Ids'
  <2>1. run[w].claim # 0 /\ (row.claim = run[w].claim => row.status # "none" /\ row'.status # "none")
    BY <1>6, CompleteStep DEF Ids, Endings, Closed
  <2> QED  BY <1>1, <1>6, <2>1, CompleteStep, IdsKept DEF Ids
<1>7. ASSUME NEW w \in Workers, StopHeartbeat(w) PROVE Ids'
  BY <1>1, <1>7, StopStep, IdsKept DEF Ids
<1>8. ASSUME NEW w \in Workers, ReleaseOnExit(w) PROVE Ids'
  BY <1>1, <1>8, ReleaseStep, IdsKept DEF Ids
<1>9. ASSUME NEW w \in Workers, Beat(w) PROVE Ids'
  BY <1>1, <1>9, BeatStep, IdsKept DEF Ids
<1>10. ASSUME NEW w \in Workers, Deadline(w) PROVE Ids'
  BY <1>1, <1>10, DeadlineStep, IdsKept DEF Ids
<1>11. ASSUME NEW w \in Workers, Crash(w) PROVE Ids'
  BY <1>1, <1>11, CrashStep, IdsKept DEF Ids
<1>12. ASSUME NEW w \in Workers, Shutdown(w) PROVE Ids'
  BY <1>1, <1>12, ShutdownStep DEF Ids
<1>13. CASE LeaseExpires \/ RetryDue
  BY <1>1, <1>13, TimeStep, IdsKept DEF Ids
<1>14. CASE UNCHANGED vars
  BY <1>1, <1>14, IdsKept DEF vars, store, Ids
<1> QED
  BY <1>2, <1>3, <1>4, <1>5, <1>6, <1>7, <1>8, <1>9, <1>10, <1>11, <1>12, <1>13, <1>14
  DEF Next, Work, Private

-----------------------------------------------------------------------------
(* What is committed is whole.                                              *)

(* The first analysis stays; whoever goes on has its own market state's.    *)
LEMMA StoreStep ==
  ASSUME TypeOK, Whole, NEW w \in Workers, Private(w)
  PROVE  /\ analysis' = analysis \/ analysis = NoAnalysis
         /\ signal => signal'
         /\ \/ run'[w].pc = "artifact" /\ run'[w].outcome = "ok"
            \/ run'[w].pc = "publish"
            \/ run'[w].pc = "close" /\ run'[w].outcome \in Closed
            => analysis' = [state |-> run[w].state, ok |-> TRUE]
         /\ run'[w].pc = "close" /\ run'[w].outcome \in Closed => signal'
<1> USE DEF At, Close, store, Closed
<1>1. {"ask", "call", "confirm", "save", "artifact", "publish", "close"} \subseteq Phases
  BY DEF Phases
<1>2. {"ok", "bad", "FAILED", "FAILED_SCHEMA", "WAITING_PROVIDER"} \subseteq Statuses \cup {"ok", "bad"}
      /\ \A b : CommitStatus(b) \in Statuses \cup {"ok", "bad"}
  BY DEF Statuses, CommitStatus
<1>3. CASE Prepare(w)
  BY <1>1, <1>2, <1>3, GotoStep, ConcludeStep DEF Prepare
<1>4. CASE Ask(w)
  BY <1>1, <1>2, <1>4, GotoStep, ConcludeStep DEF Ask
<1>5. CASE Answer(w)
  BY <1>1, <1>2, <1>5, ConcludeStep DEF Answer
<1>6. CASE Save(w)
  <2> DEFINE s == run[w].state
             ok == run[w].outcome = "ok"
  <2>1. signal' = signal
    BY <1>6 DEF Save
  <2>2. CASE analysis = NoAnalysis /\ analysis' = [state |-> s, ok |-> ok] /\ Goto(w, "artifact")
    BY <1>1, <2>1, <2>2, GotoStep
  <2>3. CASE SamePayload(s, ok) /\ analysis' = analysis
             /\ Conclude(w, IF analysis.ok THEN "ok" ELSE "bad", "artifact")
    <3>1. analysis = [state |-> s, ok |-> ok] /\ ok \in BOOLEAN
      BY <2>3 DEF SamePayload
    <3>2. run'[w].pc = "artifact" /\ (run'[w].outcome = "ok" => ok)
      <4>1. run'[w].pc = "artifact" /\ run'[w].outcome = IF analysis.ok THEN "ok" ELSE "bad"
        BY <1>1, <1>2, <2>3, ConcludeStep
      <4> QED  BY <3>1, <4>1
    <3> HIDE DEF s, ok
    <3>3. ok => analysis = [state |-> s, ok |-> TRUE]
      BY <3>1
    <3> QED  BY <2>1, <2>3, <3>2, <3>3 DEF s
  <2>4. CASE analysis' = analysis /\ Close(w, "FAILED")
    BY <1>1, <1>2, <2>1, <2>4, ConcludeStep
  <2> QED  BY <1>6, <2>2, <2>3, <2>4 DEF Save
<1>7. CASE Archive(w)
  BY <1>1, <1>2, <1>7, GotoStep, ConcludeStep, LeaveStep DEF Archive, Whole, Stored
<1>8. CASE Publish(w)
  BY <1>1, <1>2, <1>8, ConcludeStep DEF Publish, Whole, Stored
<1> QED  BY <1>3, <1>4, <1>5, <1>6, <1>7, <1>8 DEF Private

(* Other steps keep the store, and bring no worker to where it must be whole. *)
LEMMA WholeKept ==
  ASSUME Whole, analysis' = analysis, signal' = signal, row'.state = row.state,
         row'.claim = row.claim, row'.status \in Closed => row.status \in Closed,
         \A v \in Workers :
           \/ run'[v] = run[v]
           \/ /\ run'[v].pc \notin {"artifact", "publish", "close"}
              /\ run'[v].pc \in Working => /\ run[v].pc \in Working /\ run'[v].claim = run[v].claim
                                           /\ run'[v].state = run[v].state
  PROVE  Whole'
  BY DEF Whole, CommittedIsWhole, Stored

LEMMA WholeStep == TypeOK /\ Ends /\ Ids /\ Whole /\ [Next]_vars => Whole'
<1> SUFFICES ASSUME TypeOK, Ends, Ids, Whole, [Next]_vars PROVE Whole'
  OBVIOUS
<1> USE DEF Working, Active, Asking
<1>1. ASSUME NEW w \in Workers, NEW s \in States, Start(w, s) PROVE Whole'
  BY <1>1, StartStep, WholeKept
<1>2. ASSUME NEW w \in Workers, Claim(w) PROVE Whole'
  <2>1. CASE row' = row /\ run'[w].pc = "idle"
    BY <1>2, <2>1, ClaimStep, WholeKept
  <2>2. CASE /\ row'.claim = granted + 1 /\ row'.status = "ACTIVE_CLAIM" /\ row'.state = run[w].state
             /\ run'[w].pc = "prepare" /\ run'[w].claim = granted + 1 /\ run'[w].state = run[w].state
    <3>1. \A v \in Workers : run[v].claim # granted + 1
      BY DEF Ids, TypeOK, Runs
    <3>2. analysis' = analysis /\ signal' = signal /\ \A v \in Workers \ {w} : run'[v] = run[v]
      BY <1>2, ClaimStep
    <3> QED  BY <2>2, <3>1, <3>2 DEF Whole, CommittedIsWhole, Stored, Closed
  <2> QED  BY <1>2, <2>1, <2>2, ClaimStep
<1>3. ASSUME NEW w \in Workers, Private(w) PROVE Whole'
  <2>1. /\ row' = row /\ \A v \in Workers \ {w} : run'[v] = run[v]
        /\ run[w].pc \in Working
        /\ run'[w].pc \in Working => run'[w].claim = run[w].claim /\ run'[w].state = run[w].state
    BY <1>3, PrivateStep
  <2>2. ASSUME NEW s, analysis = [state |-> s, ok |-> TRUE] PROVE analysis' = analysis
    BY <1>3, <2>2, StoreStep DEF NoAnalysis
  <2>3. signal => signal'
    BY <1>3, StoreStep
  <2>4. CommittedIsWhole'
    BY <2>1, <2>2, <2>3 DEF Whole, CommittedIsWhole
  <2>5. ASSUME NEW v \in Workers
        PROVE  /\ run'[v].pc \in Working /\ run'[v].claim = row'.claim => row'.state = run'[v].state
               /\ run'[v].pc = "artifact" /\ run'[v].outcome = "ok" => Stored(v)'
               /\ run'[v].pc = "publish" => Stored(v)'
               /\ run'[v].pc = "close" /\ run'[v].outcome \in Closed => Stored(v)' /\ signal'
    <3>1. CASE v = w
      BY <1>3, <2>1, <3>1, StoreStep DEF Whole, Stored
    <3>2. CASE v # w
      BY <2>1, <2>2, <2>3, <3>2 DEF Whole, Stored
    <3> QED  BY <3>1, <3>2
  <2> QED  BY <2>4, <2>5 DEF Whole
<1>4. ASSUME NEW w \in Workers, Confirm(w) PROVE Whole'
  BY <1>4, ConfirmStep, WholeKept
<1>5. ASSUME NEW w \in Workers, Complete(w) PROVE Whole'
  <2>1. CASE row'.status \in Closed => row.status \in Closed
    BY <1>5, <2>1, CompleteStep, WholeKept
  <2>2. CASE row'.status \in Closed /\ row.status \notin Closed
    <3>1. /\ row.claim = run[w].claim /\ run[w].outcome \in Closed /\ run[w].pc = "close"
          /\ row'.claim = row.claim /\ row'.state = row.state
          /\ analysis' = analysis /\ signal' = signal
          /\ run'[w].claim = run[w].claim /\ run'[w].state = run[w].state /\ run'[w].pc = "stop"
          /\ \A v \in Workers \ {w} : run'[v] = run[v]
      BY <1>5, <2>2, CompleteStep
    <3>2. Stored(w) /\ signal /\ row.state = run[w].state
      BY <3>1 DEF Whole
    <3> QED  BY <3>1, <3>2 DEF Whole, CommittedIsWhole, Stored
  <2> QED  BY <2>1, <2>2
<1>6. ASSUME NEW w \in Workers, StopHeartbeat(w) PROVE Whole'
  BY <1>6, StopStep, WholeKept
<1>7. ASSUME NEW w \in Workers, ReleaseOnExit(w) PROVE Whole'
  BY <1>7, ReleaseStep, WholeKept DEF Closed
<1>8. ASSUME NEW w \in Workers, Beat(w) PROVE Whole'
  BY <1>8, BeatStep, WholeKept
<1>9. ASSUME NEW w \in Workers, Deadline(w) PROVE Whole'
  BY <1>9, DeadlineStep, WholeKept DEF Closed
<1>10. ASSUME NEW w \in Workers, Crash(w) PROVE Whole'
  BY <1>10, CrashStep, WholeKept
<1>11. ASSUME NEW w \in Workers, Shutdown(w) PROVE Whole'
  BY <1>11, ShutdownStep, WholeKept
<1>12. CASE LeaseExpires \/ RetryDue
  BY <1>12, TimeStep, WholeKept
<1>13. CASE UNCHANGED vars
  BY <1>13, WholeKept DEF vars, store
<1> QED
  BY <1>1, <1>2, <1>3, <1>4, <1>5, <1>6, <1>7, <1>8, <1>9, <1>10, <1>11, <1>12, <1>13
  DEF Next, Work, Private

-----------------------------------------------------------------------------
(* What was committed stays, and what that costs.                           *)

LEMMA UsedStep ==
  ASSUME TypeOK, [Next]_vars
  PROVE  \A f \in Faults : used[f] \in Nat /\ used'[f] \in Nat /\ used'[f] >= used[f]
<1> DEFINE Grows == \A f \in Faults : used[f] \in Nat /\ used'[f] \in Nat /\ used'[f] >= used[f]
<1>1. {"crashes", "shutdowns", "stalls", "overruns", "errors", "waits"} \subseteq Faults
      /\ \A f \in Faults : used[f] \in Nat
  BY DEF Faults, TypeOK
<1>2. ASSUME NEW f \in Faults, Spend(f) PROVE Grows
  <2>1. \A g \in Faults : used'[g] = used[g] + 1 \/ used'[g] = used[g]
    BY <1>2, SpendStep
  <2> QED  BY <1>1, <2>1
<1>3. CASE used' = used
  BY <1>1, <1>3
<1>4. used' = used \/ \E f \in Faults : Spend(f)
  BY <1>1 DEF Next, vars, store, Work, Start, Claim, Prepare, Ask, Answer, Confirm, Save, Archive,
     Publish, Complete, StopHeartbeat, ReleaseOnExit, Beat, Deadline, Crash, Shutdown, LeaseExpires,
     RetryDue
<1> QED  BY <1>2, <1>3, <1>4

(* Nobody takes up a closed row, unless it is closed anew. *)
LEMMA OverKept ==
  ASSUME Over, Ids, row'.claim = row.claim, row'.status \in Closed => row.status \in Closed,
         \A v \in Workers :
           /\ run'[v].pc = "down" => run[v].pc = "down"
           /\ run'[v].pc \in Working => /\ run[v].pc \in Working /\ run'[v].claim = run[v].claim
                                        /\ run[v].pc = "stop" => run'[v].pc = "stop"
           /\ \/ beat'[v] = beat[v] /\ run'[v].claim = run[v].claim
              \/ beat'[v] = 0
              \/ beat'[v] = beat[v] /\ run[v].pc \in Active,
         used["shutdowns"] \in Nat /\ used'["shutdowns"] \in Nat,
         used'["shutdowns"] >= used["shutdowns"]
  PROVE  Over'
<1> USE DEF Working, Active, Asking
<1>1. row.status \in Closed => row.claim # 0
  BY DEF Ids, Closed
<1>2. \A v \in Workers : run'[v].pc = "down" => used'["shutdowns"] > 0
  BY DEF Over
<1>3. ASSUME row'.status \in Closed, NEW v \in Workers
      PROVE  /\ run'[v].pc \in Working /\ run'[v].claim = row'.claim => run'[v].pc = "stop"
             /\ beat'[v] = row'.claim => run'[v].claim = row'.claim
  BY <1>1, <1>3 DEF Over
<1> QED  BY <1>2, <1>3 DEF Over

LEMMA OverStep == TypeOK /\ Ends /\ Ids /\ Over /\ [Next]_vars => Over'
<1> SUFFICES ASSUME TypeOK, Ends, Ids, Over, [Next]_vars PROVE Over'
  OBVIOUS
<1> USE DEF Working, Active, Asking
<1>1. used["shutdowns"] \in Nat /\ used'["shutdowns"] \in Nat /\ used'["shutdowns"] >= used["shutdowns"]
  BY UsedStep DEF Faults
<1>2. ASSUME NEW w \in Workers, NEW s \in States, Start(w, s) PROVE Over'
  BY <1>1, <1>2, StartStep, OverKept
<1>3. ASSUME NEW w \in Workers, Claim(w) PROVE Over'
  <2>1. CASE row' = row /\ beat' = beat /\ run'[w].pc = "idle" /\ run'[w].claim = 0
    <3>1. run[w].claim = 0
      BY <1>3, ClaimStep DEF Ids
    <3> QED  BY <1>1, <1>3, <2>1, <3>1, ClaimStep, OverKept
  <2>2. CASE row'.status = "ACTIVE_CLAIM" /\ run'[w].pc = "prepare"
    BY <1>1, <1>3, <2>2, ClaimStep DEF Over, Closed
  <2> QED  BY <1>3, <2>1, <2>2, ClaimStep
<1>4. ASSUME NEW w \in Workers, Private(w) PROVE Over'
  BY <1>1, <1>4, PrivateStep, OverKept
<1>5. ASSUME NEW w \in Workers, Confirm(w) PROVE Over'
  BY <1>1, <1>5, ConfirmStep, OverKept
<1>6. ASSUME NEW w \in Workers, Complete(w) PROVE Over'
  <2>1. CASE row.claim # run[w].claim
    BY <1>1, <1>6, <2>1, CompleteStep, OverKept
  <2>2. CASE row.claim = run[w].claim
    <3>1. /\ row'.claim = row.claim /\ beat' = beat /\ \A v \in Workers \ {w} : run'[v] = run[v]
          /\ run'[w].pc = "stop" /\ run'[w].claim = run[w].claim /\ run[w].claim # 0
      BY <1>6, CompleteStep DEF Ids
    <3>2. \A v \in Workers : v = w \/ (run[v].claim # row.claim /\ beat[v] # row.claim)
      BY <2>2, <3>1 DEF Ids
    <3> QED  BY <1>1, <2>2, <3>1, <3>2 DEF Over
  <2> QED  BY <2>1, <2>2
<1>7. ASSUME NEW w \in Workers, StopHeartbeat(w) PROVE Over'
  BY <1>1, <1>7, StopStep, OverKept
<1>8. ASSUME NEW w \in Workers, ReleaseOnExit(w) PROVE Over'
  <2>1. row'.claim = row.claim /\ (row'.status \in Closed => row.status \in Closed /\ row' = row)
    BY <1>8, ReleaseStep DEF Closed
  <2>2. CASE row'.status \in Closed
    <3>1. row' = row /\ (run[w].claim = 0 \/ row.claim # run[w].claim)
      BY <1>8, <2>2, ReleaseStep DEF Closed
    <3>2. row.status \in Closed => beat[w] # row.claim
      BY <2>1, <3>1 DEF Over, Ids, Closed
    <3> QED  BY <1>1, <1>8, <2>1, <2>2, <3>1, <3>2, ReleaseStep DEF Over
  <2>3. CASE row'.status \notin Closed
    BY <1>1, <1>8, <2>3, ReleaseStep DEF Over
  <2> QED  BY <2>2, <2>3
<1>9. ASSUME NEW w \in Workers, Beat(w) PROVE Over'
  BY <1>1, <1>9, BeatStep, OverKept
<1>10. ASSUME NEW w \in Workers, Deadline(w) PROVE Over'
  BY <1>1, <1>10, DeadlineStep, OverKept DEF Closed
<1>11. ASSUME NEW w \in Workers, Crash(w) PROVE Over'
  BY <1>1, <1>11, CrashStep, OverKept
<1>12. ASSUME NEW w \in Workers, Shutdown(w) PROVE Over'
  <2>1. used'["shutdowns"] > 0
    BY <1>1, <1>12, ShutdownStep, SpendStep DEF Faults
  <2> QED  BY <1>12, <2>1, ShutdownStep DEF Over, Ids, Closed
<1>13. CASE LeaseExpires \/ RetryDue
  BY <1>1, <1>13, TimeStep, OverKept
<1>14. CASE UNCHANGED vars
  BY <1>1, <1>14, OverKept DEF vars, store
<1> QED
  BY <1>2, <1>3, <1>4, <1>5, <1>6, <1>7, <1>8, <1>9, <1>10, <1>11, <1>12, <1>13, <1>14
  DEF Next, Work, Private

(* What Quiet says of the working holder, and of a cycle that was committed. *)
Holder ==
  \A w \in Workers : run[w].pc \in Active =>
    /\ row.claim = run[w].claim
    /\ row.status # "FAILED" => row.status = "ACTIVE_CLAIM" /\ row.fresh /\ beat[w] = run[w].claim
Finished ==
  done => row.status \in Closed \cup {"FAILED"} /\ \A w \in Workers : run[w].pc \notin Active

LEMMA QuietStep == TypeOK /\ Ends /\ Ids /\ Over /\ Quiet /\ [Next]_vars => Quiet'
<1> SUFFICES ASSUME TypeOK, Ends, Ids, Over, Quiet, [Next]_vars,
                    used'["stalls"] + used'["shutdowns"] = 0
             PROVE  Holder' /\ Finished'
  BY DEF Quiet, Holder, Finished
<1> USE DEF Working, Active, Asking
<1>1. used'["stalls"] = used["stalls"] /\ used'["shutdowns"] = used["shutdowns"]
      /\ used["stalls"] = 0 /\ used["shutdowns"] = 0
  BY UsedStep DEF Faults
<1>2. Holder /\ Finished
  BY <1>1 DEF Quiet, Holder, Finished
<1>3. ~Spend("stalls") /\ ~Spend("shutdowns")
  BY <1>1, SpendStep DEF Faults
<1>4. ASSUME NEW w \in Workers, NEW s \in States, Start(w, s) PROVE Holder' /\ Finished'
  BY <1>2, <1>4, StartStep DEF Holder, Finished
<1>5. ASSUME NEW w \in Workers, Claim(w) PROVE Holder' /\ Finished'
  <2>1. CASE row' = row /\ beat' = beat /\ run'[w].pc = "idle"
    BY <1>2, <1>5, <2>1, ClaimStep DEF Holder, Finished
  <2>2. CASE /\ Claimable /\ row'.claim = granted + 1 /\ row'.status = "ACTIVE_CLAIM" /\ row'.fresh
             /\ run'[w].pc = "prepare" /\ run'[w].claim = granted + 1 /\ beat'[w] = granted + 1
    <3>1. row.status \notin Closed \cup {"FAILED"} /\ ~(row.status = "ACTIVE_CLAIM" /\ row.fresh)
      BY <2>2 DEF Claimable, Unclaimed, Closed
    <3>2. ~done /\ \A v \in Workers : run[v].pc \notin Active
      BY <1>2, <3>1 DEF Holder, Finished
    <3>3. done' = done /\ \A v \in Workers \ {w} : run'[v] = run[v]
      BY <1>5, ClaimStep
    <3> QED  BY <2>2, <3>2, <3>3 DEF Holder, Finished
  <2> QED  BY <1>5, <2>1, <2>2, ClaimStep
<1>6. ASSUME NEW w \in Workers, Private(w) PROVE Holder' /\ Finished'
  BY <1>2, <1>6, PrivateStep DEF Holder, Finished
<1>7. ASSUME NEW w \in Workers, Confirm(w) PROVE Holder' /\ Finished'
  BY <1>2, <1>7, ConfirmStep DEF Holder, Finished
<1>8. ASSUME NEW w \in Workers, Complete(w) PROVE Holder' /\ Finished'
  <2>1. /\ run[w].pc \in Active /\ run[w].claim # 0 /\ row.claim = run[w].claim
    BY <1>2, <1>8, CompleteStep DEF Holder, Ids
  <2>2. \A v \in Workers \ {w} : run[v].pc \notin Active
    BY <1>2, <2>1 DEF Holder, Ids
  <2>3. ~done
    BY <1>2, <2>1 DEF Finished
  <2>4. \A v \in Workers : run'[v].pc \notin Active
    BY <1>8, <2>2, CompleteStep
  <2>5. done' => row'.status \in Closed
    BY <1>8, <2>1, <2>3, CompleteStep
  <2> QED  BY <2>4, <2>5 DEF Holder, Finished
<1>9. ASSUME NEW w \in Workers, StopHeartbeat(w) PROVE Holder' /\ Finished'
  BY <1>2, <1>9, StopStep DEF Holder, Finished
<1>10. ASSUME NEW w \in Workers, ReleaseOnExit(w) PROVE FALSE
  BY <1>1, <1>10, ReleaseStep DEF Over
<1>11. ASSUME NEW w \in Workers, Beat(w) PROVE Holder' /\ Finished'
  BY <1>2, <1>3, <1>11, BeatStep DEF Holder, Finished, Owned
<1>12. ASSUME NEW w \in Workers, Deadline(w) PROVE Holder' /\ Finished'
  BY <1>2, <1>12, DeadlineStep DEF Holder, Finished
<1>13. ASSUME NEW w \in Workers, Crash(w) PROVE Holder' /\ Finished'
  BY <1>2, <1>13, CrashStep DEF Holder, Finished
<1>14. ASSUME NEW w \in Workers, Shutdown(w) PROVE FALSE
  BY <1>3, <1>14, ShutdownStep
<1>15. CASE LeaseExpires \/ RetryDue
  <2>1. CASE row'.fresh = row.fresh
    BY <1>2, <1>15, <2>1, TimeStep DEF Holder, Finished
  <2>2. CASE row.status = "ACTIVE_CLAIM" /\ ~\E w \in Workers : beat[w] = row.claim
    BY <1>2, <1>15, <2>2, TimeStep DEF Holder, Finished
  <2> QED  BY <1>3, <1>15, <2>1, <2>2, TimeStep
<1>16. CASE UNCHANGED vars
  BY <1>2, <1>16 DEF vars, store, Holder, Finished
<1> QED
  BY <1>4, <1>5, <1>6, <1>7, <1>8, <1>9, <1>10, <1>11, <1>12, <1>13, <1>14, <1>15, <1>16
  DEF Next, Work, Private

-----------------------------------------------------------------------------
(* The count of workers that ask.                                           *)

LEMMA AskersFinite == IsFiniteSet(Askers) /\ Cardinality(Askers) \in Nat
<1>1. Askers \in SUBSET Workers
  BY DEF Askers
<1> QED  BY <1>1, FS_Subset, FS_CardinalityType

(* A step does not raise the count, or pays for it: it was not covered but  *)
(* is now, a worker stops asking, or there is a fault more.                 *)
Paid == used["stalls"] + used["overruns"]
LEMMA BudgetKept ==
  ASSUME Budget, used["stalls"] \in Nat, used["overruns"] \in Nat,
         used'["stalls"] \in Nat, used'["overruns"] \in Nat, Paid' >= Paid,
         IsFiniteSet(Askers), IsFiniteSet(Askers'),
         \/ Askers' \subseteq Askers /\ (Covered => Covered')
         \/ \E w \in Askers : Askers' \subseteq Askers \ {w}
         \/ Askers' \subseteq Askers /\ Paid' > Paid
         \/ \E w \in Workers : ~Covered /\ Covered' /\ Askers' \subseteq Askers \cup {w}
  PROVE  Budget'
<1> DEFINE n == Cardinality(Askers)
           m == Cardinality(Askers')
           c == IF Covered THEN 0 ELSE 1
           d == IF Covered' THEN 0 ELSE 1
           p == Paid
           q == Paid'
<1>1. n \in Nat /\ m \in Nat /\ c \in 0..1 /\ d \in 0..1
  BY FS_CardinalityType
<1>2. n + c <= 1 + p
  BY <1>1 DEF Budget, Paid
<1>3. Askers' \subseteq Askers => m <= n
  BY FS_Subset
<1>4. ASSUME NEW w \in Askers, Askers' \subseteq Askers \ {w} PROVE m <= n - 1
  <2>1. IsFiniteSet(Askers \ {w}) /\ Cardinality(Askers \ {w}) = n - 1
    BY FS_RemoveElement
  <2> QED  BY <1>4, <2>1, FS_Subset
<1>5. ASSUME NEW w \in Workers, Askers' \subseteq Askers \cup {w} PROVE m <= n + 1
  <2>1. IsFiniteSet(Askers \cup {w}) /\ Cardinality(Askers \cup {w}) <= n + 1
    <3>1. IsFiniteSet(Askers \cup {w})
          /\ (Cardinality(Askers \cup {w}) = n \/ Cardinality(Askers \cup {w}) = n + 1)
      BY FS_AddElement
    <3> HIDE DEF n
    <3> QED  BY <1>1, <3>1
  <2>2. m <= Cardinality(Askers \cup {w}) /\ Cardinality(Askers \cup {w}) \in Nat
    BY <1>5, <2>1, FS_Subset, FS_CardinalityType
  <2> QED  BY <1>1, <2>1, <2>2
<1>6. \/ m <= n /\ d <= c
      \/ m <= n - 1
      \/ m <= n /\ q > p
      \/ m <= n + 1 /\ c = 1 /\ d = 0
  BY <1>3, <1>4, <1>5
<1>7. m + d <= 1 + q
  <2> HIDE DEF n, m, c, d, p, q
  <2>1. p \in Nat /\ q \in Nat /\ q >= p
    BY DEF p, q, Paid
  <2> QED  BY <1>1, <1>2, <1>6, <2>1
<1> QED  BY <1>1, <1>7 DEF Budget, Paid

LEMMA BudgetStep == TypeOK /\ Ends /\ Ids /\ Budget /\ [Next]_vars => Budget'
<1> SUFFICES ASSUME TypeOK, Ends, Ids, Budget, [Next]_vars PROVE Budget'
  OBVIOUS
<1> SUFFICES \/ Askers' \subseteq Askers /\ (Covered => Covered')
             \/ \E w \in Askers : Askers' \subseteq Askers \ {w}
             \/ Askers' \subseteq Askers /\ Paid' > Paid
             \/ \E w \in Workers : ~Covered /\ Covered' /\ Askers' \subseteq Askers \cup {w}
  <2>1. IsFiniteSet(Askers) /\ IsFiniteSet(Askers')
    <3>1. Askers \in SUBSET Workers /\ Askers' \in SUBSET Workers
      BY DEF Askers
    <3> QED  BY <3>1, FS_Subset
  <2>2. /\ used["stalls"] \in Nat /\ used["overruns"] \in Nat
        /\ used'["stalls"] \in Nat /\ used'["overruns"] \in Nat /\ Paid' >= Paid
    BY UsedStep DEF Paid, Faults
  <2> QED  BY <2>1, <2>2, BudgetKept
<1> DEFINE Goal == \/ Askers' \subseteq Askers /\ (Covered => Covered')
                   \/ \E w \in Askers : Askers' \subseteq Askers \ {w}
                   \/ Askers' \subseteq Askers /\ Paid' > Paid
                   \/ \E w \in Workers : ~Covered /\ Covered' /\ Askers' \subseteq Askers \cup {w}
<1> USE DEF Working, Active
<1>1. ASSUME \A v \in Workers : run'[v].pc \in Asking => run[v].pc \in Asking
      PROVE  Askers' \subseteq Askers
  BY <1>1 DEF Askers
<1>2. ASSUME row.status = "ACTIVE_CLAIM" /\ row.fresh => row'.status = row.status /\ row'.fresh,
             row'.claim = row.claim,
             \A v \in Workers : Covers(v) /\ row.status = "ACTIVE_CLAIM" => Covers(v)'
      PROVE  Covered => Covered'
  BY <1>2 DEF Covered
<1>3. ASSUME NEW w \in Workers, NEW s \in States, Start(w, s) PROVE Goal
  BY <1>1, <1>2, <1>3, StartStep DEF Covers, Asking
<1>4. ASSUME NEW w \in Workers, Claim(w) PROVE Goal
  <2>1. CASE row' = row /\ beat' = beat /\ run'[w].pc = "idle"
    BY <1>1, <1>2, <1>4, <2>1, ClaimStep DEF Covers, Asking
  <2>2. CASE /\ Claimable /\ row'.claim = granted + 1 /\ row'.status = "ACTIVE_CLAIM" /\ row'.fresh
             /\ run'[w].pc = "prepare" /\ run'[w].claim = granted + 1 /\ beat'[w] = granted + 1
    <3>1. ~Covered
      BY <2>2 DEF Claimable, Unclaimed, Covered
    <3>2. Covered'
      BY <2>2 DEF Covered, Covers, Asking
    <3>3. Askers' \subseteq Askers \cup {w}
      BY <1>4, ClaimStep DEF Askers
    <3> QED  BY <3>1, <3>2, <3>3
  <2> QED  BY <1>4, <2>1, <2>2, ClaimStep
<1>5. ASSUME NEW w \in Workers, Private(w) PROVE Goal
  <2>1. CASE run[w].pc \in Asking /\ run'[w].pc \notin Asking
    <3>1. w \in Askers /\ Askers' \subseteq Askers \ {w}
      BY <1>5, <2>1, PrivateStep DEF Askers
    <3> QED  BY <3>1
  <2>2. CASE run[w].pc \in Asking <=> run'[w].pc \in Asking
    <3>1. Askers' \subseteq Askers
      BY <1>1, <1>5, <2>2, PrivateStep
    <3>2. \A v \in Workers : Covers(v) => Covers(v)'
      <4>1. run'[w].pc \in Asking => run'[w].claim = run[w].claim
        BY <1>5, PrivateStep DEF Asking
      <4> QED  BY <1>5, <2>2, <4>1, PrivateStep DEF Covers
    <3> QED  BY <1>2, <1>5, <3>1, <3>2, PrivateStep
  <2> QED  BY <1>5, <2>1, <2>2, PrivateStep
<1>6. ASSUME NEW w \in Workers, Confirm(w) PROVE Goal
  BY <1>1, <1>2, <1>6, ConfirmStep DEF Covers, Asking
<1>7. ASSUME NEW w \in Workers, Complete(w) PROVE Goal
  <2>1. Askers' \subseteq Askers
    BY <1>1, <1>7, CompleteStep DEF Asking
  <2>2. CASE row.claim = run[w].claim
    <3>1. ~Covered
      BY <1>7, <2>2, CompleteStep DEF Covered, Covers, Ids, Asking
    <3> QED  BY <2>1, <3>1
  <2>3. CASE row.claim # run[w].claim
    BY <1>2, <1>7, <2>1, <2>3, CompleteStep DEF Covers, Asking
  <2> QED  BY <2>2, <2>3
<1>8. ASSUME NEW w \in Workers, StopHeartbeat(w) PROVE Goal
  BY <1>1, <1>2, <1>8, StopStep DEF Covers, Asking
<1>9. ASSUME NEW w \in Workers, ReleaseOnExit(w) PROVE Goal
  <2>1. Askers' \subseteq Askers
    BY <1>1, <1>9, ReleaseStep DEF Asking
  <2>2. CASE run[w].claim # 0 /\ row.claim = run[w].claim
    <3>1. ~Covered
      BY <1>9, <2>2, ReleaseStep DEF Covered, Covers, Ids, Asking
    <3> QED  BY <2>1, <3>1
  <2>3. CASE row' = row
    BY <1>2, <1>9, <2>1, <2>3, ReleaseStep DEF Covers, Asking
  <2> QED  BY <1>9, <2>2, <2>3, ReleaseStep
<1>10. ASSUME NEW w \in Workers, Beat(w) PROVE Goal
  <2>1. Askers' \subseteq Askers
    BY <1>1, <1>10, BeatStep
  <2>2. CASE Spend("stalls")
    <3>1. Paid' > Paid
      BY <2>2, SpendStep DEF Paid, Faults, TypeOK
    <3> QED  BY <2>1, <3>1
  <2>3. CASE Owned(beat[w]) /\ beat' = beat /\ row'.fresh
    BY <1>2, <1>10, <2>1, <2>3, BeatStep DEF Covers
  <2>4. CASE ~Owned(beat[w]) /\ row' = row
    BY <1>2, <1>10, <2>1, <2>4, BeatStep DEF Covers, Owned
  <2> QED  BY <1>10, <2>2, <2>3, <2>4, BeatStep
<1>11. ASSUME NEW w \in Workers, Deadline(w) PROVE Goal
  <2>1. Askers' \subseteq Askers
    BY <1>1, <1>11, DeadlineStep
  <2>2. CASE run[w].claim = beat[w]
    <3>1. Paid' > Paid
      BY <1>11, <2>2, DeadlineStep, SpendStep DEF Paid, Faults, TypeOK
    <3> QED  BY <2>1, <3>1
  <2>3. CASE run[w].claim # beat[w] /\ row.claim = beat[w]
    <3>1. ~Covered
      BY <1>11, <2>3, DeadlineStep DEF Covered, Covers, Ids
    <3> QED  BY <2>1, <3>1
  <2>4. CASE run[w].claim # beat[w] /\ row.claim # beat[w]
    BY <1>2, <1>11, <2>1, <2>4, DeadlineStep DEF Covers
  <2> QED  BY <2>2, <2>3, <2>4
<1>12. ASSUME NEW w \in Workers, run'[w].pc \notin Asking, row' = row,
              \A v \in Workers \ {w} : run'[v] = run[v] /\ beat'[v] = beat[v]
       PROVE  Goal
  <2>1. CASE w \in Askers
    <3>1. Askers' \subseteq Askers \ {w}
      BY <1>12 DEF Askers
    <3> QED  BY <2>1, <3>1
  <2>2. CASE w \notin Askers
    BY <1>1, <1>2, <1>12, <2>2 DEF Covers, Askers
  <2> QED  BY <2>1, <2>2
<1>13. ASSUME NEW w \in Workers, Crash(w) PROVE Goal
  BY <1>12, <1>13, CrashStep DEF Asking
<1>14. ASSUME NEW w \in Workers, Shutdown(w) PROVE Goal
  BY <1>12, <1>14, ShutdownStep DEF Asking
<1>15. CASE LeaseExpires \/ RetryDue
  <2>1. Askers' \subseteq Askers
    BY <1>1, <1>15, TimeStep
  <2>2. CASE row'.fresh = row.fresh
    BY <1>2, <1>15, <2>1, <2>2, TimeStep DEF Covers
  <2>3. CASE Spend("stalls")
    <3>1. Paid' > Paid
      BY <2>3, SpendStep DEF Paid, Faults, TypeOK
    <3> QED  BY <2>1, <3>1
  <2>4. CASE ~\E w \in Workers : beat[w] = row.claim
    BY <2>1, <2>4 DEF Covered, Covers
  <2> QED  BY <1>15, <2>2, <2>3, <2>4, TimeStep
<1>16. CASE UNCHANGED vars
  BY <1>1, <1>2, <1>16 DEF vars, store, Covers
<1> QED
  BY <1>3, <1>4, <1>5, <1>6, <1>7, <1>8, <1>9, <1>10, <1>11, <1>13, <1>14, <1>15, <1>16
  DEF Next, Work, Private

-----------------------------------------------------------------------------
(* The theorems.                                                            *)

LEMMA InitIInv == Init => IInv
<1> SUFFICES ASSUME Init PROVE IInv
  OBVIOUS
<1> USE DEF Init, Idle, Working, Active, Asking
<1>1. TypeOK
  BY DEF TypeOK, Rows, Statuses, Closed, NoAnalysis, Runs, Phases, Faults
<1>2. Ends /\ Ids /\ Whole /\ Over
  BY DEF Ends, Ids, Whole, CommittedIsWhole, Over, Closed
<1>3. Quiet
  BY DEF Quiet
<1>4. Askers = {} /\ ~Covered
  BY DEF Askers, Covered
<1>5. Budget
  BY <1>4, FS_EmptySet DEF Budget, Faults
<1> QED  BY <1>1, <1>2, <1>3, <1>5 DEF IInv

LEMMA NextIInv == IInv /\ [Next]_vars => IInv'
  BY TypeStep, EndsStep, IdsStep, WholeStep, OverStep, QuietStep, BudgetStep DEF IInv

LEMMA Inductive == Spec => []IInv
  BY InitIInv, NextIInv, PTL DEF Spec

(* Rows, analyses, workers and counters have their types.                   *)
THEOREM TypeCorrect == Spec => []TypeOK
<1>1. IInv => TypeOK
  BY DEF IInv
<1> QED  BY <1>1, Inductive, PTL

(* complete_analysis_cycle closes a claim as COMMITTED or RECOVERED only    *)
(* with the valid analysis of the claimed market state and its signal in    *)
(* the store, however many workers have held the claim.                     *)
THEOREM CommittedCyclesAreWhole == Spec => []CommittedIsWhole
<1>1. IInv => CommittedIsWhole
  BY DEF IInv, Whole
<1> QED  BY <1>1, Inductive, PTL

(* A worker that lost its claim cannot reopen the committed cycle: only a   *)
(* shutdown, or the deadline of the worker that committed, changes it.      *)
THEOREM CommitIsKept == Spec => CommittedStays
<1>1. ASSUME IInv, [Next]_vars, row.status \in Closed, row'.status \notin Closed
      PROVE  used'["shutdowns"] + used'["overruns"] > 0
  <2> USE DEF Working, Active, Asking
  <2>1. TypeOK /\ Ends /\ Ids /\ Over /\ row.claim # 0
    BY <1>1 DEF IInv, Ids, Closed
  <2>2. \A f \in Faults : used[f] \in Nat /\ used'[f] \in Nat /\ used'[f] >= used[f]
    BY <1>1, <2>1, UsedStep
  <2>3. row'.status # row.status
    BY <1>1
  <2>4. ASSUME NEW w \in Workers, Claim(w) PROVE FALSE
    BY <1>1, <2>1, <2>3, <2>4, ClaimStep DEF Claimable, Unclaimed, Closed
  <2>5. ASSUME NEW w \in Workers, Complete(w) PROVE FALSE
    BY <1>1, <2>1, <2>3, <2>5, CompleteStep DEF Over
  <2>6. ASSUME NEW w \in Workers, ReleaseOnExit(w) PROVE used'["shutdowns"] > 0
    <3>1. used["shutdowns"] > 0
      BY <2>1, <2>6, ReleaseStep DEF Over
    <3> QED  BY <2>2, <3>1 DEF Faults
  <2>7. ASSUME NEW w \in Workers, Deadline(w) PROVE used'["overruns"] > 0
    <3>1. row.claim = beat[w]
      BY <2>1, <2>3, <2>7, DeadlineStep
    <3>2. Spend("overruns")
      BY <1>1, <2>1, <2>7, <3>1, DeadlineStep DEF Over
    <3> QED  BY <2>1, <2>2, <3>2, SpendStep DEF Faults
  <2>8. ASSUME NEW w \in Workers,
               Private(w) \/ Confirm(w) \/ StopHeartbeat(w) \/ Beat(w) \/ Crash(w) \/ Shutdown(w)
        PROVE  FALSE
    BY <2>1, <2>3, <2>8, PrivateStep, ConfirmStep, StopStep, BeatStep, CrashStep, ShutdownStep
  <2>9. ASSUME NEW w \in Workers, NEW s \in States, Start(w, s) PROVE FALSE
    BY <2>1, <2>3, <2>9, StartStep
  <2>10. ASSUME LeaseExpires \/ RetryDue PROVE FALSE
    BY <2>1, <2>3, <2>10, TimeStep
  <2>11. ASSUME UNCHANGED vars PROVE FALSE
    BY <2>3, <2>11 DEF vars, store
  <2> DEFINE Fault == used'["shutdowns"] > 0 \/ used'["overruns"] > 0
  <2>12. Fault
    <3>1. ASSUME NEW w \in Workers, ReleaseOnExit(w) \/ Deadline(w) PROVE Fault
      BY <2>6, <2>7, <3>1
    <3> HIDE DEF Fault
    <3> QED
      BY <1>1, <2>4, <2>5, <2>8, <2>9, <2>10, <2>11, <3>1 DEF Next, Work, Private
  <2> QED  BY <2>2, <2>12 DEF Faults
<1>2. IInv /\ [Next]_vars =>
        (row.status \in Closed /\ row'.status \notin Closed
           => used'["shutdowns"] + used'["overruns"] > 0)
  BY <1>1
<1> QED  BY <1>2, Inductive, PTL DEF Spec, CommittedStays

(* A provider call for a finished cycle takes a stalled lease or a          *)
(* shutdown, and every further concurrent call for one cycle takes a        *)
(* stalled lease or an overrun of its own.                                  *)
THEOREM CallsHaveACost == Spec => CallsCost
<1>1. ASSUME IInv, [Next]_vars, calls' # calls
      PROVE  /\ done => used["stalls"] + used["shutdowns"] > 0
             /\ Cardinality({ w \in Workers : run'[w].pc = "call" })
                  <= 1 + used["stalls"] + used["overruns"]
  <2> USE DEF Working, Active, Asking
  <2>1. TypeOK /\ Ends /\ Quiet /\ Budget
    BY <1>1 DEF IInv
  <2>2. PICK w \in Workers : Ask(w) /\ At(w, "ask") /\ Goto(w, "call") /\ used' = used
    BY <1>1 DEF Next, vars, store, Work, Start, Claim, Prepare, Ask, Answer, Confirm, Save, Archive,
       Publish, Complete, StopHeartbeat, ReleaseOnExit, Beat, Deadline, Crash, Shutdown, LeaseExpires,
       RetryDue
  <2>3. /\ used["stalls"] \in Nat /\ used["shutdowns"] \in Nat /\ used["overruns"] \in Nat
    BY <2>1 DEF TypeOK, Faults
  <2>4. done => used["stalls"] + used["shutdowns"] > 0
    BY <2>1, <2>2, <2>3 DEF Quiet, At
  <2>5. { v \in Workers : run'[v].pc = "call" } \subseteq Askers
    <3>1. \A v \in Workers \ {w} : run'[v] = run[v]
      BY <2>1, <2>2, GotoStep DEF Phases
    <3> QED  BY <2>2, <3>1 DEF Askers, At
  <2>6. Cardinality({ v \in Workers : run'[v].pc = "call" }) <= Cardinality(Askers)
        /\ Cardinality({ v \in Workers : run'[v].pc = "call" }) \in Nat
    BY <2>5, AskersFinite, FS_Subset, FS_CardinalityType
  <2>7. Cardinality(Askers) <= 1 + used["stalls"] + used["overruns"]
    BY <2>1, <2>3, AskersFinite DEF Budget
  <2> QED  BY <2>3, <2>4, <2>6, <2>7, AskersFinite
<1>2. IInv /\ [Next]_vars =>
        (calls' # calls =>
           /\ done => used["stalls"] + used["shutdowns"] > 0
           /\ Cardinality({ w \in Workers : At(w, "call")' })
                <= 1 + used["stalls"] + used["overruns"])
  BY <1>1 DEF At
<1> QED  BY <1>2, Inductive, PTL DEF Spec, CallsCost

-----------------------------------------------------------------------------
(* How often the provider is asked.                                         *)

(* What frees the cycle for another claim.  Errors and overruns do not:     *)
(* they end it as FAILED, from which nothing is claimed.                    *)
Cost == used["crashes"] + used["shutdowns"] + used["stalls"] + used["waits"]

(* A worker that will write a status from which the cycle is claimed.       *)
Reopens(w) ==
  /\ run[w].claim = row.claim
  /\ run[w].pc = "down" \/ (run[w].pc = "close" /\ run[w].outcome = "WAITING_PROVIDER")

(* Somebody may claim the cycle, or will without another fault.             *)
Loose ==
  \/ row.status \in {"none", "RELEASED", "WAITING_PROVIDER"}
  \/ row.status = "ACTIVE_CLAIM" /\ ~(row.fresh /\ \E w \in Workers : beat[w] = row.claim)
  \/ \E w \in Workers : Reopens(w)
Charged == granted <= Cost + (IF Loose THEN 0 ELSE 1)

(* A worker stops no heartbeat but its own, and that with its claim ended.  *)
Tended ==
  \A w \in Workers : run[w].pc \in Working =>
    /\ beat[w] \in {0, run[w].claim}
    /\ run[w].pc = "stop" /\ run[w].claim = row.claim => row.status # "ACTIVE_CLAIM"

(* A claim is good for one call.                                            *)
Entitled == { w \in Workers : run[w].pc \in {"prepare", "ask"} }
Asked == calls + Cardinality(Entitled) <= granted

LEMMA TendedStep == TypeOK /\ Ends /\ Ids /\ Tended /\ [Next]_vars => Tended'
<1> SUFFICES ASSUME TypeOK, Ends, Ids, Tended, [Next]_vars PROVE Tended'
  OBVIOUS
<1> USE DEF Working, Active, Asking
<1>1. ASSUME row'.claim = row.claim,
             row'.status = "ACTIVE_CLAIM" => row.status = "ACTIVE_CLAIM",
             \A v \in Workers : run'[v].pc \in Working =>
               /\ run[v].pc \in Working /\ run'[v].claim = run[v].claim
               /\ beat'[v] \in {beat[v], 0}
               /\ run'[v].pc = "stop" => run[v].pc = "stop"
      PROVE  Tended'
  BY <1>1 DEF Tended
<1>2. ASSUME NEW w \in Workers, NEW s \in States, Start(w, s) PROVE Tended'
  BY <1>1, <1>2, StartStep
<1>3. ASSUME NEW w \in Workers, Claim(w) PROVE Tended'
  <2>1. CASE row' = row /\ beat' = beat /\ run'[w].pc = "idle"
    BY <1>1, <1>3, <2>1, ClaimStep
  <2>2. CASE /\ row'.claim = granted + 1
             /\ run'[w].pc = "prepare" /\ run'[w].claim = granted + 1 /\ beat'[w] = granted + 1
    <3>1. \A v \in Workers : run[v].claim <= granted /\ run[v].claim \in Nat /\ granted \in Nat
      BY DEF Ids, TypeOK, Runs
    <3>2. \A v \in Workers \ {w} : run[v].claim # row'.claim
      BY <2>2, <3>1
    <3> QED  BY <1>3, <2>2, <3>2, ClaimStep DEF Tended
  <2> QED  BY <1>3, <2>1, <2>2, ClaimStep
<1>4. ASSUME NEW w \in Workers, Private(w) PROVE Tended'
  <2>1. run'[w].pc # "stop"
    BY <1>4, PrivateStep
  <2> QED  BY <1>1, <1>4, <2>1, PrivateStep
<1>5. ASSUME NEW w \in Workers, Confirm(w) PROVE Tended'
  BY <1>1, <1>5, ConfirmStep
<1>6. ASSUME NEW w \in Workers, Complete(w) PROVE Tended'
  <2>1. CASE row.claim = run[w].claim
    <3>1. row'.status # "ACTIVE_CLAIM" /\ row'.claim = row.claim
      BY <1>6, <2>1, CompleteStep DEF Endings, Closed
    <3> QED  BY <1>6, <3>1, CompleteStep DEF Tended
  <2>2. CASE row.claim # run[w].claim
    BY <1>6, <2>2, CompleteStep DEF Tended
  <2> QED  BY <2>1, <2>2
<1>7. ASSUME NEW w \in Workers, StopHeartbeat(w) PROVE Tended'
  BY <1>1, <1>7, StopStep
<1>8. ASSUME NEW w \in Workers, ReleaseOnExit(w) PROVE Tended'
  BY <1>1, <1>8, ReleaseStep
<1>9. ASSUME NEW w \in Workers, Beat(w) PROVE Tended'
  BY <1>1, <1>9, BeatStep
<1>10. ASSUME NEW w \in Workers, Deadline(w) PROVE Tended'
  BY <1>1, <1>10, DeadlineStep
<1>11. ASSUME NEW w \in Workers, Crash(w) \/ Shutdown(w) PROVE Tended'
  BY <1>1, <1>11, CrashStep, ShutdownStep
<1>12. CASE LeaseExpires \/ RetryDue
  BY <1>1, <1>12, TimeStep
<1>13. CASE UNCHANGED vars
  BY <1>1, <1>13 DEF vars, store
<1> QED
  BY <1>2, <1>3, <1>4, <1>5, <1>6, <1>7, <1>8, <1>9, <1>10, <1>11, <1>12, <1>13
  DEF Next, Work, Private

(* A grant, a fault that is paid for, or a step that frees nothing.         *)
LEMMA ChargedKept ==
  ASSUME Charged, granted \in Nat, Cost \in Nat, Cost' \in Nat, Cost' >= Cost,
         \/ granted' = granted /\ (Loose' => Loose)
         \/ granted' = granted /\ Cost' > Cost
         \/ granted' = granted + 1 /\ Loose /\ ~Loose'
  PROVE  Charged'
<1> DEFINE c == IF Loose THEN 0 ELSE 1
           d == IF Loose' THEN 0 ELSE 1
           p == Cost
           q == Cost'
           n == granted
           m == granted'
<1>1. c \in 0..1 /\ d \in 0..1 /\ n \in Nat /\ p \in Nat /\ q \in Nat /\ q >= p
  OBVIOUS
<1>2. n <= p + c
  BY DEF Charged
<1>3. \/ m = n /\ c <= d
      \/ m = n /\ q > p
      \/ m = n + 1 /\ c = 0 /\ d = 1
  OBVIOUS
<1>4. m <= q + d
  <2> HIDE DEF c, d, p, q, n, m
  <2> QED  BY <1>1, <1>2, <1>3
<1> QED  BY <1>4 DEF Charged

LEMMA CostStep ==
  ASSUME TypeOK, [Next]_vars
  PROVE  /\ Cost \in Nat /\ Cost' \in Nat /\ Cost' >= Cost
         /\ \A f \in {"crashes", "shutdowns", "stalls", "waits"} : Spend(f) => Cost' > Cost
<1> DEFINE Kinds == {"crashes", "shutdowns", "stalls", "waits"}
<1>1. \A f \in Kinds : used[f] \in Nat /\ used'[f] \in Nat /\ used'[f] >= used[f]
  BY UsedStep DEF Faults
<1>2. Cost \in Nat /\ Cost' \in Nat /\ Cost' >= Cost
  BY <1>1 DEF Cost
<1>3. ASSUME NEW f \in Kinds, Spend(f) PROVE Cost' > Cost
  <2>1. used'[f] = used[f] + 1
    BY <1>3, SpendStep DEF Faults
  <2> QED  BY <1>1, <2>1 DEF Cost
<1> QED  BY <1>2, <1>3

(* Of what a worker does by itself only a postponed answer frees the cycle. *)
LEMMA PrivateReopens ==
  ASSUME TypeOK, NEW w \in Workers, Private(w), run'[w].pc = "close",
         run'[w].outcome = "WAITING_PROVIDER"
  PROVE  Spend("waits")
<1> USE DEF At, Close
<1>1. {"ask", "call", "confirm", "save", "artifact", "publish", "close"} \subseteq Phases
  BY DEF Phases
<1>2. {"ok", "bad", "FAILED", "FAILED_SCHEMA", "WAITING_PROVIDER"} \subseteq Statuses \cup {"ok", "bad"}
      /\ \A b : CommitStatus(b) \in Statuses \cup {"ok", "bad"} /\ CommitStatus(b) # "WAITING_PROVIDER"
  BY DEF Statuses, CommitStatus, Closed
<1>3. CASE Prepare(w)
  BY <1>1, <1>2, <1>3, GotoStep, ConcludeStep DEF Prepare
<1>4. CASE Ask(w)
  BY <1>1, <1>2, <1>4, GotoStep, ConcludeStep DEF Ask
<1>5. CASE Answer(w)
  BY <1>1, <1>2, <1>5, ConcludeStep DEF Answer
<1>6. CASE Save(w)
  BY <1>1, <1>2, <1>6, GotoStep, ConcludeStep DEF Save
<1>7. CASE Archive(w)
  BY <1>1, <1>2, <1>7, GotoStep, ConcludeStep, LeaveStep DEF Archive
<1>8. CASE Publish(w)
  BY <1>1, <1>2, <1>8, ConcludeStep DEF Publish
<1> QED  BY <1>3, <1>4, <1>5, <1>6, <1>7, <1>8 DEF Private

LEMMA ChargedStep == TypeOK /\ Ends /\ Ids /\ Tended /\ Charged /\ [Next]_vars => Charged'
<1> SUFFICES ASSUME TypeOK, Ends, Ids, Tended, Charged, [Next]_vars PROVE Charged'
  OBVIOUS
<1> DEFINE Goal == \/ granted' = granted /\ (Loose' => Loose)
                   \/ granted' = granted /\ Cost' > Cost
                   \/ granted' = granted + 1 /\ Loose /\ ~Loose'
<1> SUFFICES Goal
  <2>1. granted \in Nat
    BY DEF TypeOK
  <2> QED  BY <2>1, CostStep, ChargedKept
<1> USE DEF Working, Active, Asking
<1>1. ASSUME granted' = granted, row'.claim = row.claim, row'.status = row.status,
             row.status = "ACTIVE_CLAIM" /\ row.fresh => row'.fresh,
             row.status = "ACTIVE_CLAIM" =>
               \A v \in Workers : beat[v] = row.claim => beat'[v] = beat[v],
             \A v \in Workers : Reopens(v)' => Reopens(v)
      PROVE  Goal
  BY <1>1 DEF Loose
<1>2. ASSUME NEW f \in {"crashes", "shutdowns", "stalls", "waits"}, Spend(f), granted' = granted
      PROVE  Goal
  BY <1>2, CostStep
<1>3. ASSUME NEW w \in Workers, NEW s \in States, Start(w, s) PROVE Goal
  BY <1>1, <1>3, StartStep DEF Reopens
<1>4. ASSUME NEW w \in Workers, Claim(w) PROVE Goal
  <2>1. CASE row' = row /\ beat' = beat /\ granted' = granted /\ run'[w].pc = "idle"
    BY <1>1, <1>4, <2>1, ClaimStep DEF Reopens
  <2>2. CASE /\ Claimable /\ granted' = granted + 1 /\ row'.claim = granted + 1
             /\ row'.status = "ACTIVE_CLAIM" /\ row'.fresh
             /\ run'[w].pc = "prepare" /\ beat'[w] = granted + 1
    <3>1. Loose
      BY <2>2 DEF Claimable, Unclaimed, Loose
    <3>2. \A v \in Workers : run[v].claim <= granted /\ run[v].claim \in Nat /\ granted \in Nat
      BY DEF Ids, TypeOK, Runs
    <3>3. \A v \in Workers \ {w} : run'[v].claim # row'.claim
      BY <1>4, <2>2, <3>2, ClaimStep
    <3>4. \A v \in Workers : ~Reopens(v)'
      BY <2>2, <3>3 DEF Reopens
    <3>5. ~Loose'
      BY <2>2, <3>4 DEF Loose
    <3> QED  BY <2>2, <3>1, <3>5
  <2> QED  BY <1>4, <2>1, <2>2, ClaimStep
<1>5. ASSUME NEW w \in Workers, Private(w) PROVE Goal
  <2>1. CASE Spend("waits")
    BY <1>2, <1>5, <2>1, PrivateStep
  <2>2. CASE ~Spend("waits")
    <3>1. run'[w].pc # "down" /\ ~(run'[w].pc = "close" /\ run'[w].outcome = "WAITING_PROVIDER")
      BY <1>5, <2>2, PrivateStep, PrivateReopens
    <3>2. \A v \in Workers : Reopens(v)' => Reopens(v)
      BY <1>5, <3>1, PrivateStep DEF Reopens
    <3> QED  BY <1>1, <1>5, <3>2, PrivateStep
  <2> QED  BY <2>1, <2>2
<1>6. ASSUME NEW w \in Workers, Confirm(w) PROVE Goal
  BY <1>1, <1>6, ConfirmStep DEF Reopens
<1>7. ASSUME NEW w \in Workers, Complete(w) PROVE Goal
  <2>1. \A v \in Workers : Reopens(v)' => Reopens(v)
    BY <1>7, CompleteStep DEF Reopens
  <2>2. CASE row.claim = run[w].claim
    <3>1. row'.status \in Endings /\ row'.status = run[w].outcome /\ granted' = granted
      BY <1>7, <2>2, CompleteStep
    <3>2. row'.status = "WAITING_PROVIDER" => Reopens(w)
      BY <1>7, <2>2, <3>1, CompleteStep DEF Reopens
    <3>3. Loose' => Loose
      BY <2>1, <3>1, <3>2 DEF Loose, Endings, Closed
    <3> QED  BY <3>1, <3>3
  <2>3. CASE row.claim # run[w].claim
    BY <1>1, <1>7, <2>1, <2>3, CompleteStep
  <2> QED  BY <2>2, <2>3
<1>8. ASSUME NEW w \in Workers, StopHeartbeat(w) PROVE Goal
  <2>1. row.status = "ACTIVE_CLAIM" => beat[w] # row.claim \/ row.claim = 0
    BY <1>8, StopStep DEF Tended
  <2>2. row.status = "ACTIVE_CLAIM" => row.claim # 0
    BY DEF Ids
  <2> QED  BY <1>1, <1>8, <2>1, <2>2, StopStep DEF Reopens
<1>9. ASSUME NEW w \in Workers, ReleaseOnExit(w) PROVE Goal
  <2>1. CASE row.claim = run[w].claim
    BY <1>9, <2>1, ReleaseStep DEF Reopens, Loose
  <2>2. CASE row.claim # run[w].claim
    BY <1>1, <1>9, <2>2, ReleaseStep DEF Reopens
  <2> QED  BY <2>1, <2>2
<1>10. ASSUME NEW w \in Workers, Beat(w) PROVE Goal
  <2>1. CASE Spend("stalls")
    BY <1>2, <1>10, <2>1, BeatStep
  <2>2. CASE ~Spend("stalls")
    BY <1>1, <1>10, <2>2, BeatStep DEF Owned, Reopens
  <2> QED  BY <2>1, <2>2
<1>11. ASSUME NEW w \in Workers, Deadline(w) PROVE Goal
  <2>1. \A v \in Workers : Reopens(v)' => Reopens(v)
    BY <1>11, DeadlineStep DEF Reopens
  <2>2. CASE row.claim = beat[w]
    <3>1. row'.status = "FAILED" /\ granted' = granted
      BY <1>11, <2>2, DeadlineStep
    <3> QED  BY <2>1, <3>1 DEF Loose
  <2>3. CASE row.claim # beat[w]
    BY <1>1, <1>11, <2>1, <2>3, DeadlineStep
  <2> QED  BY <2>2, <2>3
<1>12. ASSUME NEW w \in Workers, Crash(w) \/ Shutdown(w) PROVE Goal
  BY <1>2, <1>12, CrashStep, ShutdownStep
<1>13. CASE LeaseExpires \/ RetryDue
  <2>1. CASE row'.fresh = row.fresh
    BY <1>1, <1>13, <2>1, TimeStep DEF Reopens
  <2>2. CASE Spend("stalls")
    BY <1>2, <1>13, <2>2, TimeStep
  <2>3. CASE row.status = "ACTIVE_CLAIM" /\ ~\E w \in Workers : beat[w] = row.claim
    <3>1. Loose /\ granted' = granted
      BY <1>13, <2>3, TimeStep DEF Loose
    <3> QED  BY <3>1
  <2> QED  BY <1>13, <2>1, <2>2, <2>3, TimeStep
<1>14. CASE UNCHANGED vars
  BY <1>1, <1>14 DEF vars, store, Reopens
<1> QED
  BY <1>3, <1>4, <1>5, <1>6, <1>7, <1>8, <1>9, <1>10, <1>11, <1>12, <1>13, <1>14
  DEF Next, Work, Private

LEMMA EntitledFinite == Entitled \in SUBSET Workers /\ IsFiniteSet(Entitled)
<1>1. Entitled \in SUBSET Workers
  BY DEF Entitled
<1> QED  BY <1>1, FS_Subset

(* A claim entitles one worker more; a call uses that up.                   *)
LEMMA AskedKept ==
  ASSUME Asked, granted \in Nat, calls \in Nat, IsFiniteSet(Entitled), IsFiniteSet(Entitled'),
         \/ granted' = granted /\ calls' = calls /\ Entitled' \subseteq Entitled
         \/ /\ granted' = granted /\ calls' = calls + 1
            /\ \E w \in Entitled : Entitled' \subseteq Entitled \ {w}
         \/ /\ granted' = granted + 1 /\ calls' = calls
            /\ \E w \in Workers : Entitled' \subseteq Entitled \cup {w}
  PROVE  Asked'
<1> DEFINE n == Cardinality(Entitled)
           m == Cardinality(Entitled')
<1>1. n \in Nat /\ m \in Nat
  BY FS_CardinalityType
<1>2. Entitled' \subseteq Entitled => m <= n
  BY FS_Subset
<1>3. ASSUME NEW w \in Entitled, Entitled' \subseteq Entitled \ {w} PROVE m <= n - 1
  <2>1. IsFiniteSet(Entitled \ {w}) /\ Cardinality(Entitled \ {w}) = n - 1
    BY FS_RemoveElement
  <2> QED  BY <1>3, <2>1, FS_Subset
<1>4. ASSUME NEW w \in Workers, Entitled' \subseteq Entitled \cup {w} PROVE m <= n + 1
  <2>1. IsFiniteSet(Entitled \cup {w}) /\ Cardinality(Entitled \cup {w}) <= n + 1
    <3>1. IsFiniteSet(Entitled \cup {w})
          /\ (Cardinality(Entitled \cup {w}) = n \/ Cardinality(Entitled \cup {w}) = n + 1)
      BY FS_AddElement
    <3> HIDE DEF n
    <3> QED  BY <1>1, <3>1
  <2>2. m <= Cardinality(Entitled \cup {w}) /\ Cardinality(Entitled \cup {w}) \in Nat
    BY <1>4, <2>1, FS_Subset, FS_CardinalityType
  <2> QED  BY <1>1, <2>1, <2>2
<1>5. \/ granted' = granted /\ calls' = calls /\ m <= n
      \/ granted' = granted /\ calls' = calls + 1 /\ m <= n - 1
      \/ granted' = granted + 1 /\ calls' = calls /\ m <= n + 1
  BY <1>2, <1>3, <1>4
<1>6. calls + n <= granted
  BY DEF Asked
<1>7. calls' + m <= granted'
  <2> HIDE DEF n, m
  <2> QED  BY <1>1, <1>5, <1>6
<1> QED  BY <1>7 DEF Asked

LEMMA AskedStep == TypeOK /\ Ends /\ Asked /\ [Next]_vars => Asked'
<1> SUFFICES ASSUME TypeOK, Ends, Asked, [Next]_vars PROVE Asked'
  OBVIOUS
<1> DEFINE Goal == \/ granted' = granted /\ calls' = calls /\ Entitled' \subseteq Entitled
                   \/ /\ granted' = granted /\ calls' = calls + 1
                      /\ \E w \in Entitled : Entitled' \subseteq Entitled \ {w}
                   \/ /\ granted' = granted + 1 /\ calls' = calls
                      /\ \E w \in Workers : Entitled' \subseteq Entitled \cup {w}
<1> SUFFICES Goal
  <2>1. granted \in Nat /\ calls \in Nat
    BY DEF TypeOK
  <2>2. IsFiniteSet(Entitled')
    <3>1. Entitled' \in SUBSET Workers
      BY DEF Entitled
    <3> QED  BY <3>1, FS_Subset
  <2> QED  BY <2>1, <2>2, EntitledFinite, AskedKept
<1> DEFINE Due(v) == run[v].pc \in {"prepare", "ask"}
<1>1. ASSUME granted' = granted, calls' = calls,
             \A v \in Workers : Due(v)' => Due(v)
      PROVE  Goal
  BY <1>1 DEF Entitled
<1>2. ASSUME NEW w \in Workers, NEW s \in States, Start(w, s) PROVE Goal
  BY <1>1, <1>2, StartStep
<1>3. ASSUME NEW w \in Workers, Claim(w) PROVE Goal
  <2>1. CASE granted' = granted /\ run'[w].pc = "idle"
    BY <1>1, <1>3, <2>1, ClaimStep
  <2>2. CASE granted' = granted + 1
    <3>1. Entitled' \subseteq Entitled \cup {w}
      BY <1>3, ClaimStep DEF Entitled
    <3> QED  BY <1>3, <2>2, <3>1, ClaimStep
  <2> QED  BY <1>3, <2>1, <2>2, ClaimStep
<1>4. ASSUME NEW w \in Workers, Ask(w) PROVE Goal
  <2>1. run[w].pc = "ask" /\ granted' = granted
    BY <1>4 DEF Ask, At
  <2>2. /\ \A v \in Workers \ {w} : run'[v] = run[v]
        /\ \/ calls' = calls /\ run'[w].pc = "confirm"
           \/ calls' = calls + 1 /\ run'[w].pc = "call"
    <3>1. {"confirm", "call"} \subseteq Phases /\ {"ok", "bad"} \subseteq Statuses \cup {"ok", "bad"}
      BY DEF Phases
    <3> QED  BY <1>4, <3>1, GotoStep, ConcludeStep DEF Ask
  <2>3. w \in Entitled /\ Entitled' \subseteq Entitled \ {w}
    BY <2>1, <2>2 DEF Entitled
  <2> QED  BY <2>1, <2>2, <2>3
<1>5. ASSUME NEW w \in Workers, Private(w), ~Ask(w) PROVE Goal
  <2>1. UNCHANGED <<calls, granted>>
    BY <1>5 DEF Private, Prepare, Answer, Save, Archive, Publish
  <2>2. Due(w)' => Due(w)
    <3>1. CASE Prepare(w)
      BY <3>1 DEF Prepare, At
    <3>2. CASE ~Prepare(w)
      <4>1. run'[w].pc \notin {"prepare", "ask"}
        <5>1. {"confirm", "close", "save", "artifact", "publish"} \subseteq Phases
              /\ {"ok", "bad", "FAILED", "FAILED_SCHEMA", "WAITING_PROVIDER"}
                   \subseteq Statuses \cup {"ok", "bad"}
              /\ \A b : CommitStatus(b) \in Statuses \cup {"ok", "bad"}
          BY DEF Phases, Statuses, CommitStatus, Closed
        <5>2. CASE Answer(w)
          BY <5>1, <5>2, ConcludeStep DEF Answer, Close
        <5>3. CASE Save(w)
          BY <5>1, <5>3, GotoStep, ConcludeStep DEF Save, Close
        <5>4. CASE Archive(w)
          BY <5>1, <5>4, GotoStep, ConcludeStep, LeaveStep DEF Archive, Close
        <5>5. CASE Publish(w)
          BY <5>1, <5>5, ConcludeStep DEF Publish, Close
        <5> QED  BY <1>5, <3>2, <5>2, <5>3, <5>4, <5>5 DEF Private
      <4> QED  BY <4>1
    <3> QED  BY <3>1, <3>2
  <2> QED  BY <1>1, <1>5, <2>1, <2>2, PrivateStep
<1>6. ASSUME NEW w \in Workers, Confirm(w) PROVE Goal
  BY <1>1, <1>6, ConfirmStep
<1>7. ASSUME NEW w \in Workers, Complete(w) PROVE Goal
  BY <1>1, <1>7, CompleteStep
<1>8. ASSUME NEW w \in Workers, StopHeartbeat(w) \/ ReleaseOnExit(w) PROVE Goal
  BY <1>1, <1>8, StopStep, ReleaseStep
<1>9. ASSUME NEW w \in Workers, Beat(w) \/ Deadline(w) PROVE Goal
  BY <1>1, <1>9, BeatStep, DeadlineStep
<1>10. ASSUME NEW w \in Workers, Crash(w) \/ Shutdown(w) PROVE Goal
  BY <1>1, <1>10, CrashStep, ShutdownStep
<1>11. CASE LeaseExpires \/ RetryDue
  BY <1>1, <1>11, TimeStep
<1>12. CASE UNCHANGED vars
  BY <1>1, <1>12 DEF vars
<1> QED
  BY <1>2, <1>3, <1>4, <1>5, <1>6, <1>7, <1>8, <1>9, <1>10, <1>11, <1>12
  DEF Next, Work, Private

(* One cycle costs one provider call, and one more at most for every crash, *)
(* shutdown, lost lease and postponed answer: a claim is good for one call  *)
(* (service.py process()), and nothing else makes the cycle claimable again *)
(* (repository.py claim_reasoning_cycle), not an error, an overrun, another *)
(* market state or another worker.                                          *)
CallsBounded ==
  calls <= 1 + used["crashes"] + used["shutdowns"] + used["stalls"] + used["waits"]

THEOREM CallsAreBounded == Spec => []CallsBounded
<1> DEFINE Inv == Tended /\ Charged /\ Asked
<1>1. Init => Inv
  <2> SUFFICES ASSUME Init PROVE Inv
    OBVIOUS
  <2>1. Tended
    BY DEF Init, Idle, Tended, Working, Active, Asking
  <2>2. Charged
    BY DEF Init, Charged, Cost, Loose, Faults
  <2>3. Asked
    <3>1. Entitled = {}
      BY DEF Init, Idle, Entitled
    <3> QED  BY <3>1, FS_EmptySet DEF Init, Asked
  <2> QED  BY <2>1, <2>2, <2>3
<1>2. IInv /\ Inv /\ [Next]_vars => Inv'
  BY TendedStep, ChargedStep, AskedStep DEF IInv
<1>3. IInv /\ Inv => CallsBounded
  <2> SUFFICES ASSUME TypeOK, Charged, Asked PROVE CallsBounded
    BY DEF IInv
  <2>1. Cardinality(Entitled) \in Nat /\ granted \in Nat /\ calls \in Nat
    BY EntitledFinite, FS_CardinalityType DEF TypeOK
  <2>2. \A f \in Faults : used[f] \in Nat
    BY DEF TypeOK
  <2>3. Cost \in Nat /\ granted <= Cost + 1
    BY <2>1, <2>2 DEF Charged, Cost, Faults
  <2>4. calls <= 1 + Cost
    BY <2>1, <2>3 DEF Asked
  <2> QED  BY <2>2, <2>4 DEF Cost, CallsBounded, Faults
<1> QED  BY <1>1, <1>2, <1>3, Inductive, PTL DEF Spec

=============================================================================
