------------------------ MODULE ReplaySessionProofs ------------------------
(***************************************************************************)
(* Proofs about ReplaySession, for any number of workers, callers, groups, *)
(* crashes, errors and lease overruns.                                     *)
(***************************************************************************)
EXTENDS ReplaySession, TLAPS

USE GroupsAssumption, UnitsAssumption, ThreadsAssumption, LimitAssumption

(* What the types need to be inductive: a command is one of the five, a     *)
(* group is processed only while one is left, and outputs are saved for a   *)
(* group that was taken.                                                    *)
Located ==
  \A t \in Threads : /\ pc[t] = "command" => cmd[t] \in Commands
                     /\ pc[t] = "process" => at[t] < Groups
                     /\ pc[t] = "outputs" => at[t] >= 1

TInv == TypeOK /\ Located

-----------------------------------------------------------------------------
(* The values a session row takes.                                          *)

(* The inserted row and the placeholder of an idle thread are rows. *)
LEMMA FirstRows == Created \in Rows /\ Blank \in Rows
  <1>1. Created \in Rows
    BY DEF Created, Rows, Statuses, LC!Statuses, Owners
  <1> QED  BY <1>1 DEF Blank, Created, Rows

(* An identity is an owner. *)
LEMMA IdOwner == \A t \in Threads : Id(t) \in Owners
  BY DEF Id, Owners, Threads

(* The updates a step makes to a row yield a row. *)
LEMMA RowUpdates ==
  ASSUME NEW r \in Rows
  PROVE  /\ \A s \in Statuses : [r EXCEPT !.status = s] \in Rows
         /\ \A n \in Nat : [r EXCEPT !.version = n] \in Rows
         /\ \A o \in Owners \cup {NoOwner} : [r EXCEPT !.owner = o] \in Rows
         /\ \A k \in Nat : [r EXCEPT !.ckpt = k] \in Rows
         /\ [r EXCEPT !.failure = TRUE] \in Rows
         /\ \A g \in 0..Groups : [r EXCEPT !.cursor = g, !.processed = @ + 1] \in Rows
<1>1. \A s \in Statuses : [r EXCEPT !.status = s] \in Rows
  BY DEF Rows
<1>2. \A n \in Nat : [r EXCEPT !.version = n] \in Rows
  BY DEF Rows
<1>3. \A o \in Owners \cup {NoOwner} : [r EXCEPT !.owner = o] \in Rows
  BY DEF Rows
<1>4. \A k \in Nat : [r EXCEPT !.ckpt = k] \in Rows
  BY DEF Rows
<1>5. [r EXCEPT !.failure = TRUE] \in Rows
  BY DEF Rows
<1>6. ASSUME NEW g \in 0..Groups
      PROVE  [r EXCEPT !.cursor = g, !.processed = @ + 1] \in Rows
  <2>1. r.processed + 1 \in Nat
    BY DEF Rows
  <2> QED  BY <2>1 DEF Rows
<1> QED  BY <1>1, <1>2, <1>3, <1>4, <1>5, <1>6

LEMMA InitTInv == Init => TInv
<1> SUFFICES ASSUME Init PROVE TInv
  OBVIOUS
<1>1. PICK c \in Callers :
       /\ pc = [t \in Threads |-> IF t = c THEN "transition" ELSE "idle"]
       /\ cmd = [t \in Threads |-> IF t = c THEN "create" ELSE "none"]
       /\ snap = [t \in Threads |-> IF t = c THEN Created ELSE Blank]
       /\ goal = [t \in Threads |-> IF t = c THEN "validating" ELSE "none"]
  BY DEF Init
<1>2. row \in Rows /\ snap \in [Threads -> Rows]
  BY <1>1, FirstRows DEF Init
<1>3. /\ pc \in [Threads -> Places]
      /\ cmd \in [Threads -> Commands \cup {"worker", "create", "none"}]
      /\ goal \in [Threads -> Statuses \cup {"policy", "none"}]
  BY <1>1 DEF Places, Statuses, LC!Statuses
<1>4. Located
  BY <1>1 DEF Located
<1>5. /\ leaseLive \in BOOLEAN
      /\ outputs \in SUBSET (1..Groups)
      /\ log \in SUBSET [version : Nat, to : Statuses]
  BY DEF Init
<1>6. ckpts \in Seq(0..Groups)
  BY DEF Init
<1>7. /\ key \in [Threads -> Nat] /\ at \in [Threads -> 0..Groups]
      /\ stop \in [Threads -> Nat] /\ used \in [Kinds -> Nat]
  BY DEF Init
<1> QED  BY <1>2, <1>3, <1>4, <1>5, <1>6, <1>7 DEF TInv, TypeOK

-----------------------------------------------------------------------------
(* What every step does to the locals of its thread.                        *)

Locals == <<pc, cmd, snap, goal, key, at, stop>>

LocalTypes ==
  /\ pc \in [Threads -> Places]
  /\ cmd \in [Threads -> Commands \cup {"worker", "create", "none"}]
  /\ snap \in [Threads -> Rows]
  /\ goal \in [Threads -> Statuses \cup {"policy", "none"}]
  /\ key \in [Threads -> Nat]
  /\ at \in [Threads -> 0..Groups]
  /\ stop \in [Threads -> Nat]

LocalInv == LocalTypes /\ Located

(* A thread that goes to a place other than the three of Located keeps it. *)
LEMMA GotoInv ==
  ASSUME LocalInv, NEW t \in Threads, NEW l \in Places \ {"command", "process", "outputs"},
         Goto(t, l), KeepLocals
  PROVE  LocalInv'
  BY DEF LocalInv, LocalTypes, Located, Goto, KeepLocals

(* So does one that reads the row on its way. *)
LEMMA ReadInv ==
  ASSUME LocalInv, row \in Rows, NEW t \in Threads,
         NEW l \in Places \ {"command", "process", "outputs"},
         Goto(t, l), snap' = [snap EXCEPT ![t] = row],
         UNCHANGED <<cmd, goal, key, at, stop>>
  PROVE  LocalInv'
<1>1. pc' \in [Threads -> Places]
  BY DEF LocalInv, LocalTypes, Goto
<1>2. snap' \in [Threads -> Rows]
  BY DEF LocalInv, LocalTypes
<1>3. Located'
  BY DEF LocalInv, LocalTypes, Located, Goto
<1> QED  BY <1>1, <1>2, <1>3 DEF LocalInv, LocalTypes

LEMMA FinishInv ==
  ASSUME LocalInv, NEW t \in Threads, Finish(t)
  PROVE  LocalInv'
<1>1. pc' \in [Threads -> Places]
  BY DEF LocalInv, LocalTypes, Finish, Goto, Places
<1>2. snap' \in [Threads -> Rows]
  BY FirstRows DEF LocalInv, LocalTypes, Finish
<1>3. /\ cmd' \in [Threads -> Commands \cup {"worker", "create", "none"}]
      /\ goal' \in [Threads -> Statuses \cup {"policy", "none"}]
      /\ key' \in [Threads -> Nat]
      /\ at' \in [Threads -> 0..Groups]
      /\ stop' \in [Threads -> Nat]
  BY DEF LocalInv, LocalTypes, Finish
<1>4. Located'
  BY DEF LocalInv, LocalTypes, Located, Finish, Goto
<1> QED  BY <1>1, <1>2, <1>3, <1>4 DEF LocalInv, LocalTypes

LEMMA RaiseInv ==
  ASSUME LocalInv, NEW t \in Threads, Raise(t)
  PROVE  LocalInv'
<1>1. CASE Running(t) /\ goal[t] = "failed"
  BY <1>1, GotoInv DEF Raise, Places
<1>2. CASE Running(t) /\ goal[t] # "failed"
  BY <1>2, GotoInv DEF Raise, Places
<1>3. CASE ~Running(t)
  BY <1>3, FinishInv DEF Raise
<1> QED  BY <1>1, <1>2, <1>3

LEMMA WriteTypes ==
  ASSUME LocalTypes, NEW t \in Threads, NEW new \in Rows, Write(t, new)
  PROVE  /\ row' \in Rows
         /\ snap' \in [Threads -> Rows]
<1> DEFINE saved == [new EXCEPT !.version = snap[t].version + 1]
<1>1. snap[t].version + 1 \in Nat
  BY DEF LocalTypes, Rows
<1>2. saved \in Rows
  BY <1>1, RowUpdates
<1> QED  BY <1>2 DEF LocalTypes, Write

(* A write leaves the same row in the database and with the writer. *)
LEMMA WriteFields ==
  ASSUME LocalTypes, NEW t \in Threads, NEW new \in Rows, Write(t, new)
  PROVE  /\ row' = snap'[t]
         /\ row'.status = new.status /\ row'.owner = new.owner
         /\ row'.cursor = new.cursor /\ row'.processed = new.processed
         /\ row'.failure = new.failure /\ row'.ckpt = new.ckpt
<1> DEFINE saved == [new EXCEPT !.version = snap[t].version + 1]
<1>1. row' = saved /\ snap'[t] = saved
  BY DEF Write, LocalTypes
<1>2. /\ saved.status = new.status /\ saved.owner = new.owner
      /\ saved.cursor = new.cursor /\ saved.processed = new.processed
      /\ saved.failure = new.failure /\ saved.ckpt = new.ckpt
  BY DEF Rows
<1> QED  BY <1>1, <1>2

(* The part of the row that only the other actions change. *)
SameBut(t, fields) ==
  /\ row' = snap'[t]
  /\ "status" \notin fields => row'.status = snap[t].status
  /\ "owner" \notin fields => row'.owner = snap[t].owner
  /\ "cursor" \notin fields => /\ row'.cursor = snap[t].cursor
                               /\ row'.processed = snap[t].processed
  /\ "failure" \notin fields => row'.failure = snap[t].failure
  /\ "ckpt" \notin fields => row'.ckpt = snap[t].ckpt

(* What each of the five writes through a copy puts into the row. *)
LEMMA Writes ==
  ASSUME LocalInv, NEW t \in Threads
  PROVE  /\ /\ Write(t, [snap[t] EXCEPT !.status = goal[t]])
            /\ goal[t] \in Transitions[snap[t].status]
            => /\ [snap[t] EXCEPT !.status = goal[t]] \in Rows
               /\ SameBut(t, {"status"}) /\ row'.status = goal[t]
         /\ Write(t, Pointed(t))
            => /\ Pointed(t) \in Rows
               /\ SameBut(t, {"ckpt"}) /\ row'.ckpt = key[t]
         /\ Write(t, [snap[t] EXCEPT !.owner = Id(t)])
            => /\ [snap[t] EXCEPT !.owner = Id(t)] \in Rows
               /\ SameBut(t, {"owner"}) /\ row'.owner = Id(t)
         /\ /\ Write(t, [snap[t] EXCEPT !.cursor = at[t] + 1, !.processed = @ + 1])
            /\ at[t] < Groups
            => /\ [snap[t] EXCEPT !.cursor = at[t] + 1, !.processed = @ + 1] \in Rows
               /\ SameBut(t, {"cursor"})
               /\ row'.cursor = at[t] + 1 /\ row'.processed = snap[t].processed + 1
         /\ Write(t, WithFailure(t))
            => /\ WithFailure(t) \in Rows
               /\ SameBut(t, {"failure"}) /\ row'.failure
<1> DEFINE r == snap[t]
<1>1. r \in Rows /\ LocalTypes /\ key[t] \in Nat /\ at[t] \in 0..Groups
  BY DEF LocalInv, LocalTypes
<1>2. ASSUME Write(t, [r EXCEPT !.status = goal[t]]), goal[t] \in Transitions[r.status]
      PROVE  /\ [r EXCEPT !.status = goal[t]] \in Rows
             /\ SameBut(t, {"status"}) /\ row'.status = goal[t]
  <2>1. r.status \in Statuses
    BY <1>1 DEF Rows
  <2>2. goal[t] \in Statuses
    BY <1>2, <2>1 DEF Statuses, Transitions, LC!Statuses, LC!Transitions
  <2>3. [r EXCEPT !.status = goal[t]] \in Rows
    BY <1>1, <2>2, RowUpdates
  <2> QED  BY <1>1, <1>2, <2>3, WriteFields DEF SameBut, Rows
<1>3. ASSUME Write(t, Pointed(t))
      PROVE  Pointed(t) \in Rows /\ SameBut(t, {"ckpt"}) /\ row'.ckpt = key[t]
  <2>1. Pointed(t) \in Rows
    BY <1>1, RowUpdates DEF Pointed
  <2>2. /\ Pointed(t).status = r.status /\ Pointed(t).owner = r.owner
        /\ Pointed(t).cursor = r.cursor /\ Pointed(t).processed = r.processed
        /\ Pointed(t).failure = r.failure /\ Pointed(t).ckpt = key[t]
    BY <1>1 DEF Pointed, Rows
  <2>3. /\ row' = snap'[t] /\ row'.ckpt = Pointed(t).ckpt
        /\ row'.status = Pointed(t).status /\ row'.owner = Pointed(t).owner
        /\ row'.cursor = Pointed(t).cursor /\ row'.processed = Pointed(t).processed
        /\ row'.failure = Pointed(t).failure
    BY <1>1, <1>3, <2>1, WriteFields
  <2> QED  BY <2>1, <2>2, <2>3 DEF SameBut
<1>4. ASSUME Write(t, [r EXCEPT !.owner = Id(t)])
      PROVE  /\ [r EXCEPT !.owner = Id(t)] \in Rows
             /\ SameBut(t, {"owner"}) /\ row'.owner = Id(t)
  <2>1. [r EXCEPT !.owner = Id(t)] \in Rows
    BY <1>1, RowUpdates, IdOwner
  <2> QED  BY <1>1, <1>4, <2>1, WriteFields DEF SameBut, Rows
<1>5. ASSUME Write(t, [r EXCEPT !.cursor = at[t] + 1, !.processed = @ + 1]),
             at[t] < Groups
      PROVE  /\ [r EXCEPT !.cursor = at[t] + 1, !.processed = @ + 1] \in Rows
             /\ SameBut(t, {"cursor"})
             /\ row'.cursor = at[t] + 1 /\ row'.processed = r.processed + 1
  <2>1. at[t] + 1 \in 0..Groups
    BY <1>1, <1>5
  <2>2. [r EXCEPT !.cursor = at[t] + 1, !.processed = @ + 1] \in Rows
    BY <1>1, <2>1, RowUpdates
  <2> DEFINE n == [r EXCEPT !.cursor = at[t] + 1, !.processed = @ + 1]
  <2>3. /\ n.status = r.status /\ n.owner = r.owner /\ n.failure = r.failure
        /\ n.ckpt = r.ckpt /\ n.cursor = at[t] + 1 /\ n.processed = r.processed + 1
    BY <1>1 DEF Rows
  <2>4. /\ row' = snap'[t] /\ row'.status = n.status /\ row'.owner = n.owner
        /\ row'.failure = n.failure /\ row'.ckpt = n.ckpt
        /\ row'.cursor = n.cursor /\ row'.processed = n.processed
    BY <1>1, <1>5, <2>2, WriteFields
  <2> QED  BY <2>2, <2>3, <2>4 DEF SameBut
<1>6. ASSUME Write(t, WithFailure(t))
      PROVE  WithFailure(t) \in Rows /\ SameBut(t, {"failure"}) /\ row'.failure
  <2>1. WithFailure(t) \in Rows
    BY <1>1, RowUpdates DEF WithFailure
  <2> QED  BY <1>1, <1>6, <2>1, WriteFields DEF SameBut, WithFailure, Rows
<1> QED  BY <1>2, <1>3, <1>4, <1>5, <1>6

(* Spending a unit of a bound keeps its type. *)
LEMMA SpendType ==
  ASSUME used \in [Kinds -> Nat], NEW kind \in Kinds, Spend(kind)
  PROVE  used' \in [Kinds -> Nat]
  BY DEF Spend

DbTypes ==
  /\ row \in Rows
  /\ leaseLive \in BOOLEAN
  /\ ckpts \in Seq(0..Groups)
  /\ outputs \in SUBSET (1..Groups)
  /\ log \in SUBSET [version : Nat, to : Statuses]

LEMMA TInvParts == /\ TInv <=> DbTypes /\ LocalInv /\ used \in [Kinds -> Nat]
                   /\ TInv' <=> DbTypes' /\ LocalInv' /\ used' \in [Kinds -> Nat]
  BY DEF TInv, TypeOK, DbTypes, LocalInv, LocalTypes

LEMMA DbUnchanged == DbTypes /\ UNCHANGED db => DbTypes'
  BY DEF DbTypes, db

-----------------------------------------------------------------------------
(* One lemma per action of the session.                                     *)

LEMMA CallTInv ==
  ASSUME TInv, NEW c \in Callers, NEW k \in Commands, Call(c, k)
  PROVE  TInv'
<1>1. c \in Threads /\ "command" \in Places /\ "calls" \in Kinds
  BY DEF Threads, Places, Kinds
<1>2. used' \in [Kinds -> Nat]
  BY <1>1, SpendType, TInvParts DEF Call
<1>3. LocalInv'
  BY <1>1, TInvParts DEF Call, Goto, LocalInv, LocalTypes, Located
<1> QED  BY <1>2, <1>3, DbUnchanged, TInvParts DEF Call

LEMMA CommandTInv ==
  ASSUME TInv, NEW c \in Callers, Command(c)
  PROVE  TInv'
<1> DEFINE g == FirstGoal(cmd[c], row.status)
<1>1. c \in Threads /\ "transition" \in Places /\ "run" \in Places
  BY DEF Threads, Places
<1>2. LocalInv'
  <2>1. CASE g = "return"
    BY <2>1, <1>1, FinishInv, TInvParts DEF Command
  <2>2. CASE g = "run"
    BY <2>2, <1>1, GotoInv, TInvParts DEF Command
  <2>3. CASE g \notin {"return", "run"}
    <3>1. g \in Statuses
      <4>1. cmd[c] \in Commands
        BY <1>1, TInvParts DEF Command, LocalInv, Located
      <4> QED  BY <2>3, <4>1 DEF FirstGoal, Commands, Statuses, LC!Statuses
    <3>2. /\ Goto(c, "transition")
          /\ snap' = [snap EXCEPT ![c] = row]
          /\ goal' = [goal EXCEPT ![c] = g]
          /\ UNCHANGED <<cmd, key, at, stop>>
      BY <2>3 DEF Command
    <3> QED  BY <3>1, <3>2, <1>1, TInvParts DEF Goto, LocalInv, LocalTypes, Located, DbTypes
  <2> QED  BY <2>1, <2>2, <2>3
<1> QED  BY <1>2, DbUnchanged, TInvParts DEF Command

LEMMA TransitionTInv ==
  ASSUME TInv, NEW t \in Threads, Transition(t)
  PROVE  TInv'
<1> DEFINE moves == goal[t] \in Transitions[snap[t].status] /\ Fresh(t)
<1>1. CASE moves
  <2>1. /\ Write(t, [snap[t] EXCEPT !.status = goal[t]])
        /\ Goto(t, "record")
        /\ UNCHANGED <<leaseLive, ckpts, outputs, log, cmd, goal, key, at, stop, used>>
    BY <1>1 DEF Transition
  <2>4. row' \in Rows /\ snap' \in [Threads -> Rows]
    BY <1>1, <2>1, Writes, WriteTypes, TInvParts DEF LocalInv
  <2>5. "record" \in Places
    BY DEF Places
  <2>6. LocalInv'
    BY <2>1, <2>4, <2>5, TInvParts DEF Goto, LocalInv, LocalTypes, Located
  <2> QED  BY <2>1, <2>4, <2>6, TInvParts DEF DbTypes
<1>2. CASE ~moves
  BY <1>2, RaiseInv, DbUnchanged, TInvParts DEF Transition
<1> QED  BY <1>1, <1>2

LEMMA RecordTInv ==
  ASSUME TInv, NEW t \in Threads, Record(t)
  PROVE  TInv'
<1>1. snap[t] \in Rows
  BY TInvParts DEF LocalInv, LocalTypes
<1>2. DbTypes'
  <2>1. TransitionRecords(t) \subseteq [version : Nat, to : Statuses]
    BY <1>1 DEF TransitionRecords, Rows
  <2> QED  BY <2>1, TInvParts DEF Record, DbTypes
<1>3. LocalInv'
  <2> DEFINE Moves(l, g) == /\ Goto(t, l)
                            /\ goal' = [goal EXCEPT ![t] = g]
                            /\ UNCHANGED <<cmd, snap, key, at, stop>>
  <2>1. ASSUME NEW l \in {"transition", "run", "ckptRead", "release"},
               NEW g \in Statuses \cup {"policy", "none"}, Moves(l, g)
        PROVE  LocalInv'
    BY <2>1, TInvParts DEF Goto, Places, LocalInv, LocalTypes, Located
  <2>2. goal[t] \in Statuses \cup {"policy", "none"}
    BY TInvParts DEF LocalInv, LocalTypes
  <2>3. {"ready", "running", "paused", "cancelled"} \subseteq Statuses
    BY DEF Statuses, LC!Statuses
  <2>4. \/ Moves("transition", "ready") \/ Moves("transition", "running")
        \/ Moves("run", "none") \/ Moves("ckptRead", "paused")
        \/ Moves("ckptRead", "cancelled") \/ Moves("release", goal[t])
        \/ Finish(t)
    BY DEF Record, AfterRecord
  <2> QED  BY <2>1, <2>2, <2>3, <2>4, FinishInv, TInvParts
<1> QED  BY <1>2, <1>3, TInvParts DEF Record

LEMMA CkptReadTInv ==
  ASSUME TInv, NEW t \in Threads, CkptRead(t)
  PROVE  TInv'
<1>1. Len(ckpts) + 1 \in Nat
  BY TInvParts DEF DbTypes
<1>2. LocalInv'
  BY <1>1, TInvParts DEF CkptRead, Goto, Places, LocalInv, LocalTypes, Located
<1> QED  BY <1>2, DbUnchanged, TInvParts DEF CkptRead

LEMMA CkptSaveTInv ==
  ASSUME TInv, NEW t \in Threads, CkptSave(t)
  PROVE  TInv'
<1>1. LocalInv'
  BY GotoInv, RaiseInv, TInvParts DEF CkptSave, Places
<1>2. snap[t].cursor \in 0..Groups
  BY TInvParts DEF LocalInv, LocalTypes, Rows
<1>3. ckpts' \in Seq(0..Groups)
  <2>1. ckpts \in Seq(0..Groups)
    BY TInvParts DEF DbTypes
  <2>2. Append(ckpts, snap[t].cursor) \in Seq(0..Groups)
    BY <1>2, <2>1
  <2>3. ckpts' = ckpts \/ ckpts' = Append(ckpts, snap[t].cursor)
    BY DEF CkptSave
  <2> QED  BY <2>1, <2>2, <2>3
<1> QED  BY <1>1, <1>3, TInvParts DEF CkptSave, DbTypes

LEMMA CkptPointTInv ==
  ASSUME TInv, NEW t \in Threads, CkptPoint(t)
  PROVE  TInv'
<1>1. CASE Fresh(t)
  <2>1. /\ Write(t, Pointed(t))
        /\ \E l \in {"stepEnd", "loop", "transition"} : Goto(t, l)
        /\ goal' = [goal EXCEPT ![t] = IF @ = "policy" THEN "none" ELSE @]
        /\ UNCHANGED <<leaseLive, ckpts, outputs, log, cmd, key, at, stop, used>>
    BY <1>1 DEF CkptPoint
  <2>3. row' \in Rows /\ snap' \in [Threads -> Rows]
    BY <2>1, Writes, WriteTypes, TInvParts DEF LocalInv
  <2>4. LocalInv'
    BY <2>1, <2>3, TInvParts DEF Goto, Places, LocalInv, LocalTypes, Located
  <2> QED  BY <2>1, <2>3, <2>4, TInvParts DEF DbTypes
<1>2. CASE ~Fresh(t)
  BY <1>2, RaiseInv, DbUnchanged, TInvParts DEF CkptPoint
<1> QED  BY <1>1, <1>2

LEMMA PollTInv ==
  ASSUME TInv, NEW w \in Workers, Poll(w)
  PROVE  TInv'
<1>1. LocalInv'
  BY TInvParts DEF Poll, Goto, Threads, Places, LocalInv, LocalTypes, Located
<1> QED  BY <1>1, DbUnchanged, TInvParts DEF Poll

LEMMA RunReadTInv ==
  ASSUME TInv, NEW t \in Threads, RunRead(t)
  PROVE  TInv'
<1>1. CASE row.status = "running"
  <2>1. LocalInv /\ row \in Rows
    BY TInvParts DEF DbTypes
  <2>2. "acquire" \in Places \ {"command", "process", "outputs"}
    BY DEF Places
  <2>3. LocalInv'
    BY <1>1, <2>1, <2>2, ReadInv DEF RunRead
  <2> QED  BY <2>3, DbUnchanged, TInvParts DEF RunRead
<1>2. CASE row.status # "running"
  BY <1>2, FinishInv, DbUnchanged, TInvParts DEF RunRead
<1> QED  BY <1>1, <1>2

LEMMA AcquireTInv ==
  ASSUME TInv, NEW t \in Threads, Acquire(t)
  PROVE  TInv'
<1>1. CASE Fresh(t) /\ ~Leased(t)
  <2>1. /\ Write(t, [snap[t] EXCEPT !.owner = Id(t)])
        /\ leaseLive' = TRUE
        /\ at' = [at EXCEPT ![t] = StreamStart(t)]
        /\ stop' = [stop EXCEPT ![t] = IF cmd[t] = "step"
                                         THEN snap[t].cursor + StepUnits
                                         ELSE Groups + 1]
        /\ Goto(t, "loop")
        /\ UNCHANGED <<ckpts, outputs, log, cmd, goal, key, used>>
    BY <1>1 DEF Acquire
  <2>2. snap[t] \in Rows /\ snap[t].cursor \in 0..Groups
    BY TInvParts DEF LocalInv, LocalTypes, Rows
  <2>4. row' \in Rows /\ snap' \in [Threads -> Rows]
    BY <2>1, Writes, WriteTypes, TInvParts DEF LocalInv
  <2>5. at' \in [Threads -> 0..Groups] /\ stop' \in [Threads -> Nat]
    BY <2>1, <2>2, TInvParts DEF StreamStart, LocalInv, LocalTypes
  <2>6. LocalInv'
    BY <2>1, <2>4, <2>5, TInvParts DEF Goto, Places, LocalInv, LocalTypes, Located
  <2> QED  BY <2>1, <2>4, <2>6, TInvParts DEF DbTypes
<1>2. CASE ~(Fresh(t) /\ ~Leased(t))
  BY <1>2, FinishInv, DbUnchanged, TInvParts DEF Acquire
<1> QED  BY <1>1, <1>2

LEMMA LoopTInv ==
  ASSUME TInv, NEW t \in Threads, Loop(t)
  PROVE  TInv'
<1>1. at[t] \in 0..Groups
  BY TInvParts DEF LocalInv, LocalTypes
<1>2. Goto(t, "process") => at[t] < Groups
  <2>1. CASE Exhausted(t)
    BY <2>1, TInvParts DEF Loop, Goto, LocalInv, LocalTypes
  <2>2. CASE ~Exhausted(t)
    BY <2>2, <1>1 DEF Exhausted
  <2> QED  BY <2>1, <2>2
<1>3. \E l \in {"ckptRead", "failRead", "process"} : Goto(t, l)
  BY DEF Loop
<1>4. goal' \in [Threads -> Statuses \cup {"policy", "none"}]
  BY TInvParts DEF Loop, LocalInv, LocalTypes, Statuses, LC!Statuses
<1>5. snap' \in [Threads -> Rows] /\ UNCHANGED <<cmd, key, at, stop>>
  BY TInvParts DEF Loop, DbTypes, LocalInv, LocalTypes
<1>6. pc' \in [Threads -> Places]
  BY <1>3, TInvParts DEF Goto, Places, LocalInv, LocalTypes
<1>7. Located'
  <2>1. CASE Goto(t, "process")
    BY <1>2, <1>5, <2>1, TInvParts DEF Goto, LocalInv, LocalTypes, Located
  <2>2. CASE Goto(t, "ckptRead") \/ Goto(t, "failRead")
    BY <1>5, <2>2, TInvParts DEF Goto, LocalInv, LocalTypes, Located
  <2> QED  BY <1>3, <2>1, <2>2
<1>8. LocalInv'
  BY <1>4, <1>5, <1>6, <1>7, TInvParts DEF LocalInv, LocalTypes
<1> QED  BY <1>8, DbUnchanged, TInvParts DEF Loop

LEMMA CommitTInv ==
  ASSUME TInv, NEW t \in Threads, Commit(t)
  PROVE  TInv'
<1>1. CASE Fresh(t)
  <2>1. /\ Write(t, [snap[t] EXCEPT !.cursor = at[t] + 1, !.processed = @ + 1])
        /\ at' = [at EXCEPT ![t] = @ + 1]
        /\ Goto(t, "outputs")
        /\ UNCHANGED <<leaseLive, ckpts, outputs, log, cmd, goal, key, stop, used>>
    BY <1>1 DEF Commit
  <2>2. at[t] + 1 \in 0..Groups /\ at[t] + 1 >= 1
    BY TInvParts DEF Commit, LocalInv, LocalTypes, Located
  <2>3. at[t] < Groups
    BY TInvParts DEF Commit, LocalInv, Located
  <2>4. row' \in Rows /\ snap' \in [Threads -> Rows]
    BY <2>1, <2>3, Writes, WriteTypes, TInvParts DEF LocalInv
  <2>5. LocalInv'
    BY <2>1, <2>2, <2>4, TInvParts DEF Goto, Places, LocalInv, LocalTypes, Located
  <2> QED  BY <2>1, <2>4, <2>5, TInvParts DEF DbTypes
<1>2. CASE ~Fresh(t)
  BY <1>2, RaiseInv, DbUnchanged, TInvParts DEF Commit
<1> QED  BY <1>1, <1>2

LEMMA StoreOutputsTInv ==
  ASSUME TInv, NEW t \in Threads, StoreOutputs(t)
  PROVE  TInv'
<1>1. at[t] \in 1..Groups
  BY TInvParts DEF StoreOutputs, LocalInv, LocalTypes, Located
<1>2. outputs' \in SUBSET (1..Groups)
  BY <1>1, TInvParts DEF StoreOutputs, GroupOutputs, DbTypes
<1>3. \E l \in {"ckptRead", "stepEnd", "loop"} : Goto(t, l)
  BY DEF StoreOutputs
<1>4. goal' \in [Threads -> Statuses \cup {"policy", "none"}]
  BY TInvParts DEF StoreOutputs, LocalInv, LocalTypes
<1>5. UNCHANGED <<row, leaseLive, ckpts, log, cmd, snap, key, at, stop, used>>
  BY DEF StoreOutputs
<1>6. LocalInv'
  BY <1>3, <1>4, <1>5, TInvParts DEF Goto, Places, LocalInv, LocalTypes, Located
<1> QED  BY <1>2, <1>5, <1>6, TInvParts DEF DbTypes

LEMMA StepEndTInv ==
  ASSUME TInv, NEW t \in Threads, StepEnd(t)
  PROVE  TInv'
<1>1. LocalInv'
  BY TInvParts DEF StepEnd, Goto, Places, Statuses, LC!Statuses,
                   LocalInv, LocalTypes, Located
<1> QED  BY <1>1, DbUnchanged, TInvParts DEF StepEnd

LEMMA FailReadTInv ==
  ASSUME TInv, NEW t \in Threads, FailRead(t)
  PROVE  TInv'
<1>1. LocalInv'
  BY TInvParts DEF FailRead, Goto, Places, Statuses, LC!Statuses,
                   LocalInv, LocalTypes, Located, DbTypes
<1> QED  BY <1>1, DbUnchanged, TInvParts DEF FailRead

LEMMA FailSaveTInv ==
  ASSUME TInv, NEW t \in Threads, FailSave(t)
  PROVE  TInv'
<1>1. CASE Fresh(t)
  <2>1. /\ Write(t, WithFailure(t))
        /\ \E l \in {"transition", "release"} : Goto(t, l)
        /\ UNCHANGED <<leaseLive, ckpts, outputs, log, cmd, goal, key, at, stop, used>>
    BY <1>1 DEF FailSave
  <2>3. row' \in Rows /\ snap' \in [Threads -> Rows]
    BY <2>1, Writes, WriteTypes, TInvParts DEF LocalInv
  <2>4. LocalInv'
    BY <2>1, <2>3, TInvParts DEF Goto, Places, LocalInv, LocalTypes, Located
  <2> QED  BY <2>1, <2>3, <2>4, TInvParts DEF DbTypes
<1>2. CASE ~Fresh(t)
  BY <1>2, RaiseInv, DbUnchanged, TInvParts DEF FailSave
<1> QED  BY <1>1, <1>2

LEMMA ReleaseTInv ==
  ASSUME TInv, NEW t \in Threads, Release(t)
  PROVE  TInv'
<1>1. LocalInv /\ row \in Rows
  BY TInvParts DEF DbTypes
<1>2. ASSUME row.owner = Id(t) PROVE LocalInv'
  <2>1. "releaseSave" \in Places \ {"command", "process", "outputs"}
    BY DEF Places
  <2> QED  BY <1>1, <1>2, <2>1, ReadInv DEF Release
<1>3. ASSUME row.owner # Id(t) PROVE LocalInv'
  BY <1>1, <1>3, FinishInv DEF Release
<1>4. LocalInv'
  BY <1>2, <1>3 DEF Release
<1> QED  BY <1>4, DbUnchanged, TInvParts DEF Release

LEMMA ReleaseSaveTInv ==
  ASSUME TInv, NEW t \in Threads, ReleaseSave(t)
  PROVE  TInv'
<1>1. LocalInv'
  BY FinishInv, TInvParts DEF ReleaseSave
<1>2. row' \in Rows
  <2> DEFINE free == [snap[t] EXCEPT !.owner = NoOwner]
  <2>1. free \in Rows /\ free.version + 1 \in Nat
    BY TInvParts DEF LocalInv, LocalTypes, Rows
  <2>2. [free EXCEPT !.version = free.version + 1] \in Rows
    BY <2>1, RowUpdates
  <2>3. [free EXCEPT !.version = free.version + 1]
          = [snap[t] EXCEPT !.owner = NoOwner, !.version = @ + 1]
    BY TInvParts DEF LocalInv, LocalTypes, Rows
  <2> QED  BY <2>2, <2>3, TInvParts DEF ReleaseSave, DbTypes
<1> QED  BY <1>1, <1>2, TInvParts DEF ReleaseSave, DbTypes

LEMMA ErrorTInv ==
  ASSUME TInv, NEW t \in Threads, Error(t)
  PROVE  TInv'
<1>1. used' \in [Kinds -> Nat]
  BY SpendType, TInvParts DEF Error, Kinds
<1> QED  BY <1>1, RaiseInv, DbUnchanged, TInvParts DEF Error

LEMMA CrashTInv ==
  ASSUME TInv, NEW t \in Threads, Crash(t)
  PROVE  TInv'
<1>1. used' \in [Kinds -> Nat]
  BY SpendType, TInvParts DEF Crash, Kinds
<1>2. LocalInv'
  BY FirstRows, TInvParts DEF Crash, Goto, Places, LocalInv, LocalTypes, Located
<1> QED  BY <1>1, <1>2, DbUnchanged, TInvParts DEF Crash

LEMMA LeaseExpiresTInv ==
  ASSUME TInv, LeaseExpires
  PROVE  TInv'
<1>1. used' \in [Kinds -> Nat]
  BY SpendType, TInvParts DEF LeaseExpires, Kinds
<1>2. LocalInv'
  BY TInvParts DEF LeaseExpires, LocalInv, LocalTypes, Located
<1> QED  BY <1>1, <1>2, TInvParts DEF LeaseExpires, DbTypes

LEMMA NextTInv ==
  ASSUME TInv, [Next]_vars
  PROVE  TInv'
<1>1. ASSUME NEW c \in Callers, Command(c) \/ \E k \in Commands : Call(c, k)
      PROVE  TInv'
  BY <1>1, CommandTInv, CallTInv
<1>2. ASSUME NEW w \in Workers, Poll(w) PROVE TInv'
  BY <1>2, PollTInv
<1>3. ASSUME NEW t \in Threads, Step(t) \/ Error(t) \/ Crash(t) PROVE TInv'
  BY <1>3, TransitionTInv, RecordTInv, CkptReadTInv, CkptSaveTInv,
     CkptPointTInv, RunReadTInv, AcquireTInv, LoopTInv, CommitTInv,
     StoreOutputsTInv, StepEndTInv, FailReadTInv, FailSaveTInv, ReleaseTInv,
     ReleaseSaveTInv, ErrorTInv, CrashTInv DEF Step
<1>4. CASE LeaseExpires
  BY <1>4, LeaseExpiresTInv
<1>5. CASE UNCHANGED vars
  BY <1>5 DEF vars, TInv, TypeOK, Located
<1> QED  BY <1>1, <1>2, <1>3, <1>4, <1>5 DEF Next

(* Every variable keeps its type, and a thread processes or stores a group  *)
(* of the dataset only: no step of any handler runs past the stream's end.  *)
THEOREM TypeCorrect == Spec => []TypeOK
<1>1. Spec => []TInv
  BY InitTInv, NextTInv, PTL DEF Spec
<1>2. TInv => TypeOK
  BY DEF TInv
<1> QED  BY <1>1, <1>2, PTL

-----------------------------------------------------------------------------
(* The row version protects the row.                                        *)

(* A copy of the row that carries its current version is the row itself. *)
Snapshots ==
  /\ row.version >= 1
  /\ \A t \in Threads : /\ snap[t].version <= row.version
                        /\ snap[t].version = row.version => snap[t] = row

LEMMA FreshIsRow ==
  ASSUME Snapshots, NEW t \in Threads, Fresh(t)
  PROVE  snap[t] = row
  BY DEF Snapshots, Fresh

LEMMA WriteSnapshots ==
  ASSUME TInv, Snapshots, NEW t \in Threads, NEW new \in Rows, Fresh(t), Write(t, new)
  PROVE  Snapshots'
<1> DEFINE saved == [new EXCEPT !.version = snap[t].version + 1]
<1>1. row' = saved /\ snap' = [snap EXCEPT ![t] = saved]
  BY DEF Write
<1>2. /\ row.version \in Nat /\ row.version >= 1
      /\ saved.version = row.version + 1
  BY TInvParts DEF DbTypes, Rows, Snapshots, Fresh
<1>3. \A u \in Threads : snap[u].version \in Nat
  BY TInvParts DEF LocalInv, LocalTypes, Rows
<1> QED  BY <1>1, <1>2, <1>3, TInvParts DEF Snapshots, LocalInv, LocalTypes

(* A thread that forgets its copy, keeps it or reads the row again. *)
LEMMA CopySnapshots ==
  ASSUME TInv, Snapshots, UNCHANGED row, NEW t \in Threads,
         \E r \in {Blank, snap[t], row} : snap' = [snap EXCEPT ![t] = r]
  PROVE  Snapshots'
<1>1. Blank.version = 0 /\ row.version \in Nat /\ row.version >= 1
  BY TInvParts DEF Blank, Created, DbTypes, Rows, Snapshots
<1> QED  BY <1>1, TInvParts DEF Snapshots, LocalInv, LocalTypes

LEMMA SameSnapshots == Snapshots /\ UNCHANGED <<row, snap>> => Snapshots'
  BY DEF Snapshots

LEMMA RaiseSnapshots ==
  ASSUME TInv, Snapshots, UNCHANGED row, NEW t \in Threads, Raise(t) \/ Finish(t)
  PROVE  Snapshots'
<1>1. CASE Finish(t)
  BY <1>1, CopySnapshots DEF Finish
<1>2. CASE KeepLocals
  BY <1>2, SameSnapshots DEF KeepLocals
<1> QED  BY <1>1, <1>2 DEF Raise

LEMMA InitSnapshots == Init => Snapshots
<1> SUFFICES ASSUME Init PROVE Snapshots
  OBVIOUS
<1>1. row = Created /\ \A t \in Threads : snap[t] \in {Created, Blank}
  BY DEF Init
<1>2. Created.version = 1 /\ Blank.version = 0
  BY DEF Created, Blank
<1> QED  BY <1>1, <1>2 DEF Snapshots

LEMMA StepSnapshots ==
  ASSUME TInv, Snapshots, NEW t \in Threads, Step(t)
  PROVE  Snapshots'
<1>1. CASE Transition(t)
  <2>1. CASE goal[t] \in Transitions[snap[t].status] /\ Fresh(t)
    BY <1>1, <2>1, Writes, WriteSnapshots, TInvParts DEF Transition
  <2>2. CASE ~(goal[t] \in Transitions[snap[t].status] /\ Fresh(t))
    BY <1>1, <2>2, RaiseSnapshots DEF Transition, db
  <2> QED  BY <2>1, <2>2
<1>2. CASE Record(t)
  BY <1>2, SameSnapshots, RaiseSnapshots DEF Record, AfterRecord
<1>3. CASE CkptRead(t)
  BY <1>3, SameSnapshots DEF CkptRead, db
<1>4. CASE CkptSave(t)
  BY <1>4, SameSnapshots, RaiseSnapshots DEF CkptSave, KeepLocals
<1>5. CASE CkptPoint(t)
  BY <1>5, Writes, WriteSnapshots, RaiseSnapshots, TInvParts DEF CkptPoint, db
<1>6. CASE RunRead(t)
  BY <1>6, CopySnapshots, RaiseSnapshots DEF RunRead, db
<1>7. CASE Acquire(t)
  BY <1>7, Writes, WriteSnapshots, RaiseSnapshots, TInvParts DEF Acquire, db
<1>8. CASE Loop(t)
  BY <1>8, CopySnapshots DEF Loop, db
<1>9. CASE Commit(t)
  <2>1. at[t] < Groups
    BY <1>9, TInvParts DEF Commit, LocalInv, Located
  <2> QED  BY <1>9, <2>1, Writes, WriteSnapshots, RaiseSnapshots, TInvParts DEF Commit, db
<1>10. CASE StoreOutputs(t) \/ StepEnd(t)
  BY <1>10, SameSnapshots DEF StoreOutputs, StepEnd, db
<1>11. CASE FailRead(t)
  BY <1>11, CopySnapshots DEF FailRead, db
<1>12. CASE FailSave(t)
  BY <1>12, Writes, WriteSnapshots, RaiseSnapshots, TInvParts DEF FailSave, db
<1>13. CASE Release(t)
  BY <1>13, CopySnapshots, RaiseSnapshots DEF Release, db
<1>14. CASE ReleaseSave(t)
  <2>1. CASE Fresh(t)
    <3>1. /\ row' = [snap[t] EXCEPT !.owner = NoOwner, !.version = @ + 1]
          /\ snap' = [snap EXCEPT ![t] = Blank]
      BY <1>14, <2>1 DEF ReleaseSave, Finish
    <3>2. /\ row.version \in Nat /\ row.version >= 1 /\ Blank.version = 0
          /\ row'.version = row.version + 1
      BY <2>1, <3>1, TInvParts
         DEF LocalInv, LocalTypes, DbTypes, Rows, Snapshots, Fresh, Blank, Created
    <3>3. \A u \in Threads : snap[u].version \in Nat
      BY TInvParts DEF LocalInv, LocalTypes, Rows
    <3> QED  BY <3>1, <3>2, <3>3, TInvParts DEF Snapshots, LocalInv, LocalTypes
  <2>2. CASE ~Fresh(t)
    BY <1>14, <2>2, RaiseSnapshots DEF ReleaseSave
  <2> QED  BY <2>1, <2>2
<1> QED  BY <1>1, <1>2, <1>3, <1>4, <1>5, <1>6, <1>7, <1>8, <1>9, <1>10, <1>11,
            <1>12, <1>13, <1>14 DEF Step

LEMMA NextSnapshots ==
  ASSUME TInv, Snapshots, [Next]_vars
  PROVE  Snapshots'
<1>1. ASSUME NEW c \in Callers, Command(c) \/ \E k \in Commands : Call(c, k)
      PROVE  Snapshots'
  <2>1. c \in Threads
    BY DEF Threads
  <2> QED  BY <1>1, <2>1, CopySnapshots, SameSnapshots, RaiseSnapshots
           DEF Command, Call, db, KeepLocals
<1>2. ASSUME NEW w \in Workers, Poll(w) PROVE Snapshots'
  BY <1>2, SameSnapshots DEF Poll, db
<1>3. ASSUME NEW t \in Threads, Error(t) \/ Crash(t) PROVE Snapshots'
  BY <1>3, RaiseSnapshots, CopySnapshots DEF Error, Crash, db
<1>4. CASE LeaseExpires
  BY <1>4, SameSnapshots DEF LeaseExpires
<1>5. CASE UNCHANGED vars
  BY <1>5, SameSnapshots DEF vars
<1> QED  BY <1>1, <1>2, <1>3, <1>4, <1>5, StepSnapshots DEF Next

-----------------------------------------------------------------------------
(* A step of t leaves the locals of the other threads alone.                *)

Others(t) ==
  \A u \in Threads \ {t} :
    /\ pc'[u] = pc[u] /\ cmd'[u] = cmd[u] /\ snap'[u] = snap[u]
    /\ goal'[u] = goal[u] /\ key'[u] = key[u] /\ at'[u] = at[u]
    /\ stop'[u] = stop[u]

LEMMA LocalsOfOne ==
  ASSUME LocalTypes, NEW t \in Threads,
         \E v : pc' = [pc EXCEPT ![t] = v],
         \E v : cmd' = [cmd EXCEPT ![t] = v],
         \E v : snap' = [snap EXCEPT ![t] = v],
         \E v : goal' = [goal EXCEPT ![t] = v],
         \E v : key' = [key EXCEPT ![t] = v],
         \E v : at' = [at EXCEPT ![t] = v],
         \E v : stop' = [stop EXCEPT ![t] = v]
  PROVE  Others(t)
  BY DEF Others, LocalTypes

LEMMA FinishOthers ==
  ASSUME LocalTypes, NEW t \in Threads, Finish(t)
  PROVE  Others(t)
  BY DEF Finish, Goto, Others, LocalTypes

LEMMA RaiseOthers ==
  ASSUME LocalTypes, NEW t \in Threads, Raise(t)
  PROVE  Others(t)
<1>1. CASE Running(t)
  BY <1>1 DEF Raise, Goto, KeepLocals, Others, LocalTypes
<1>2. CASE ~Running(t)
  BY <1>2, FinishOthers DEF Raise
<1> QED  BY <1>1, <1>2

LEMMA StepOthers ==
  ASSUME TInv, NEW t \in Threads, Step(t)
  PROVE  Others(t)
<1> USE TInvParts DEF LocalInv
<1>1. CASE Transition(t)
  BY <1>1, RaiseOthers DEF Transition, Write, Goto, Others, LocalTypes
<1>2. CASE Record(t)
  <2>1. \/ Finish(t)
        \/ /\ \E l : Goto(t, l)
           /\ \E g : goal' = [goal EXCEPT ![t] = g]
           /\ UNCHANGED <<cmd, snap, key, at, stop>>
    BY <1>2 DEF Record, AfterRecord
  <2> QED  BY <2>1, FinishOthers DEF Goto, Others, LocalTypes
<1>3. CASE CkptRead(t)
  BY <1>3 DEF CkptRead, Goto, Others, LocalTypes
<1>4. CASE CkptSave(t)
  BY <1>4, RaiseOthers DEF CkptSave, Goto, KeepLocals, Others, LocalTypes
<1>5. CASE CkptPoint(t)
  BY <1>5, RaiseOthers DEF CkptPoint, Write, Goto, Others, LocalTypes
<1>6. CASE RunRead(t)
  BY <1>6, FinishOthers DEF RunRead, Goto, Others, LocalTypes
<1>7. CASE Acquire(t)
  BY <1>7, FinishOthers DEF Acquire, Write, Goto, Others, LocalTypes
<1>8. CASE Loop(t)
  BY <1>8 DEF Loop, Goto, Others, LocalTypes
<1>9. CASE Commit(t)
  BY <1>9, RaiseOthers DEF Commit, Write, Goto, Others, LocalTypes
<1>10. CASE StoreOutputs(t)
  BY <1>10 DEF StoreOutputs, Goto, Others, LocalTypes
<1>11. CASE StepEnd(t) \/ FailRead(t)
  BY <1>11 DEF StepEnd, FailRead, Goto, Others, LocalTypes
<1>12. CASE FailSave(t)
  BY <1>12, RaiseOthers DEF FailSave, Write, Goto, Others, LocalTypes
<1>13. CASE Release(t) \/ ReleaseSave(t)
  BY <1>13, FinishOthers DEF Release, ReleaseSave, Goto, Others, LocalTypes
<1> QED  BY <1>1, <1>2, <1>3, <1>4, <1>5, <1>6, <1>7, <1>8, <1>9, <1>10, <1>11,
            <1>12, <1>13 DEF Step

-----------------------------------------------------------------------------
(* What holds of a thread by itself, whatever the others do.                *)

InRun == {"run", "acquire", "loop", "process", "outputs", "stepEnd",
          "failRead", "failSave", "release", "releaseSave"}
InCkpt == {"ckptRead", "ckptSave", "ckptPoint"}
Resting == {"paused", "cancelled", "completed"}

(* The thread is inside coordinator.run, or a step request on its way to it. *)
Driven(t) == cmd[t] \in {"worker", "step"}

Streaming(t) ==
  \/ pc[t] \in {"loop", "process", "outputs", "stepEnd"}
  \/ pc[t] \in InCkpt /\ goal[t] = "policy"

(* Only a run drives, and only a worker or a step request runs. *)
Drives(t) ==
  /\ cmd[t] = "worker" => t \in Workers
  /\ cmd[t] = "step" => t \in Steppers
  /\ pc[t] \in InRun => Driven(t)
  /\ pc[t] \in InCkpt /\ goal[t] = "policy" => Driven(t)

(* What a thread is after determines what it holds in its copy of the row. *)
Aims(t) ==
  /\ pc[t] \in InCkpt => goal[t] \in Resting \cup {"policy"}
  /\ pc[t] = "transition" => goal[t] # "recovering"
  /\ pc[t] = "transition" /\ goal[t] = "failed" => snap[t].failure
  /\ pc[t] = "record" => snap[t].status = goal[t]
  /\ pc[t] = "failSave" => goal[t] = "failed"
  /\ pc[t] = "acquire" => snap[t].status = "running"

(* Who parks a session either holds it or found it held by nobody. *)
Holds(t) ==
  /\ Streaming(t) /\ pc[t] # "loop" => snap[t].owner = Id(t)
  /\ Driven(t) /\ pc[t] \in {"transition", "record"} =>
       /\ goal[t] # "cancelling"
       /\ goal[t] = "pausing" => snap[t].owner = Id(t)
  /\ pc[t] \in InCkpt \cup {"transition"} /\ goal[t] \in {"paused", "cancelled"} =>
       \/ snap[t].owner = NoOwner
       \/ Driven(t) /\ snap[t].owner = Id(t)

Sane(t) == Drives(t) /\ Aims(t) /\ Holds(t)

LEMMA OthersSane ==
  ASSUME NEW t \in Threads, Others(t), NEW u \in Threads \ {t}, Sane(u)
  PROVE  Sane(u)'
  BY DEF Others, Sane, Drives, Aims, Holds, Driven, Streaming, Id

(* A thread that is done, or dead, promises nothing. *)
LEMMA FinishSane ==
  ASSUME LocalTypes, NEW t \in Threads, Finish(t)
  PROVE  Sane(t)'
  BY DEF Finish, Goto, LocalTypes, Sane, Drives, Aims, Holds, Driven, Streaming,
         InRun, InCkpt

LEMMA RaiseSane ==
  ASSUME LocalTypes, NEW t \in Threads, Sane(t), Raise(t)
  PROVE  Sane(t)'
<1>1. CASE Running(t)
  BY <1>1 DEF Raise, Running, Goto, KeepLocals, LocalTypes, Sane, Drives, Aims,
              Holds, Driven, Streaming, InRun, InCkpt
<1>2. CASE ~Running(t)
  BY <1>2, FinishSane DEF Raise
<1> QED  BY <1>1, <1>2

LEMMA StepSane ==
  ASSUME TInv, NEW t \in Threads, Sane(t), Step(t)
  PROVE  Sane(t)'
<1> USE TInvParts DEF LocalInv
<1> DEFINE r == snap[t]
<1>1. CASE Transition(t)
  <2>1. CASE goal[t] \in Transitions[r.status] /\ Fresh(t)
    <3>1. /\ pc'[t] = "record" /\ UNCHANGED <<cmd, goal>>
          /\ snap'[t].status = goal[t] /\ snap'[t].owner = r.owner
      BY <1>1, <2>1, Writes DEF Transition, SameBut, Goto, LocalTypes
    <3> QED  BY <1>1, <3>1 DEF Transition, Sane, Drives, Aims, Holds, Driven,
                               Streaming, Id, InRun, InCkpt
  <2>2. CASE ~(goal[t] \in Transitions[r.status] /\ Fresh(t))
    BY <1>1, <2>2, RaiseSane DEF Transition
  <2> QED  BY <2>1, <2>2
<1>2. CASE Record(t)
  <2> DEFINE Moves(l, g) == /\ Goto(t, l)
                            /\ goal' = [goal EXCEPT ![t] = g]
                            /\ UNCHANGED <<cmd, snap, key, at, stop>>
  <2>1. CASE Moves("transition", "ready") \/ Moves("transition", "running")
    BY <1>2, <2>1 DEF Record, Goto, LocalTypes, Sane, Drives, Aims, Holds, Driven,
                      Streaming, InRun, InCkpt
  <2>2. CASE Moves("run", "none") /\ cmd[t] = "step"
    BY <1>2, <2>2 DEF Record, Goto, LocalTypes, Sane, Drives, Aims, Holds, Driven,
                      Streaming, InRun, InCkpt
  <2>3. CASE /\ \/ Moves("ckptRead", "paused") /\ r.status = "pausing"
                \/ Moves("ckptRead", "cancelled") /\ r.status = "cancelling"
             /\ Driven(t) \/ Unattended(t)
    BY <1>2, <2>3 DEF Record, Unattended, Goto, LocalTypes, Sane, Drives, Aims,
                      Holds, Driven, Streaming, Id, InRun, InCkpt, Resting
  <2>4. CASE Moves("release", goal[t]) /\ Driven(t)
    BY <1>2, <2>4 DEF Record, Goto, LocalTypes, Sane, Drives, Aims, Holds, Driven,
                      Streaming, InRun, InCkpt
  <2>5. \/ Moves("transition", "ready") \/ Moves("transition", "running")
        \/ Moves("run", "none") /\ cmd[t] = "step"
        \/ /\ \/ Moves("ckptRead", "paused") /\ r.status = "pausing"
              \/ Moves("ckptRead", "cancelled") /\ r.status = "cancelling"
           /\ Driven(t) \/ Unattended(t)
        \/ Moves("release", goal[t]) /\ Driven(t)
        \/ Finish(t)
    BY <1>2 DEF Record, AfterRecord, Driven
  <2> QED  BY <2>1, <2>2, <2>3, <2>4, <2>5, FinishSane
<1>3. CASE CkptRead(t)
  BY <1>3 DEF CkptRead, Goto, LocalTypes, Sane, Drives, Aims, Holds, Driven,
              Streaming, Id, InRun, InCkpt
<1>4. CASE CkptSave(t)
  <2>1. CASE Raise(t)
    BY <2>1, RaiseSane
  <2>2. CASE Goto(t, "ckptPoint") /\ KeepLocals
    BY <1>4, <2>2 DEF CkptSave, Goto, KeepLocals, LocalTypes, Sane, Drives, Aims,
                      Holds, Driven, Streaming, Id, InRun, InCkpt
  <2> QED  BY <1>4, <2>1, <2>2 DEF CkptSave
<1>5. CASE CkptPoint(t)
  <2>1. CASE Fresh(t)
    <3>1. /\ goal[t] = "policy" => pc'[t] \in {"stepEnd", "loop"} /\ goal'[t] = "none"
          /\ goal[t] # "policy" => pc'[t] = "transition" /\ goal'[t] = goal[t]
          /\ snap'[t].owner = r.owner /\ UNCHANGED cmd
      <4>1. Write(t, Pointed(t))
        BY <1>5, <2>1 DEF CkptPoint
      <4>2. snap'[t].owner = r.owner
        BY <4>1, Writes DEF SameBut
      <4> QED  BY <1>5, <2>1, <4>2 DEF CkptPoint, Goto, LocalTypes
    <3>2. CASE goal[t] = "policy"
      BY <1>5, <3>1, <3>2 DEF CkptPoint, Sane, Drives, Aims, Holds, Driven,
                              Streaming, Id, InRun, InCkpt, Resting
    <3>3. CASE goal[t] # "policy"
      BY <1>5, <3>1, <3>3 DEF CkptPoint, Sane, Drives, Aims, Holds, Driven,
                              Streaming, Id, InRun, InCkpt, Resting
    <3> QED  BY <3>2, <3>3
  <2>2. CASE ~Fresh(t)
    BY <1>5, <2>2, RaiseSane DEF CkptPoint
  <2> QED  BY <2>1, <2>2
<1>6. CASE RunRead(t)
  BY <1>6, FinishSane DEF RunRead, Goto, LocalTypes, Sane, Drives, Aims, Holds,
                          Driven, Streaming, InRun, InCkpt
<1>7. CASE Acquire(t)
  BY <1>7, FinishSane DEF Acquire, Goto, LocalTypes, Sane, Drives, Aims, Holds,
                          Driven, Streaming, InRun, InCkpt
<1>8. CASE Loop(t)
  <2>1. /\ snap'[t] = row /\ UNCHANGED cmd
        /\ \/ pc'[t] = "ckptRead" /\ goal'[t] = "completed"
           \/ pc'[t] = "failRead" /\ goal' = goal
           \/ /\ row.owner = Id(t)
              /\ \/ pc'[t] = "ckptRead" /\ goal'[t] \in {"cancelled", "paused"}
                 \/ pc'[t] = "process" /\ goal' = goal
    BY <1>8 DEF Loop, LeaseLost, Goto, LocalTypes
  <2> QED  BY <1>8, <2>1 DEF Loop, Sane, Drives, Aims, Holds, Driven,
                             Streaming, Id, InRun, InCkpt, Resting
<1>9. CASE Commit(t)
  <2>1. CASE Fresh(t)
    <3>1. pc'[t] = "outputs" /\ UNCHANGED <<cmd, goal>> /\ snap'[t].owner = r.owner
      BY <1>9, <2>1, Writes DEF Commit, SameBut, Goto, LocalTypes, Located
    <3> QED  BY <1>9, <3>1 DEF Commit, Sane, Drives, Aims, Holds, Driven,
                               Streaming, Id, InRun, InCkpt
  <2>2. CASE ~Fresh(t)
    BY <1>9, <2>2, RaiseSane DEF Commit
  <2> QED  BY <2>1, <2>2
<1>10. CASE StoreOutputs(t)
  BY <1>10 DEF StoreOutputs, Goto, LocalTypes, Sane, Drives, Aims, Holds, Driven,
               Streaming, Id, InRun, InCkpt
<1>11. CASE StepEnd(t)
  BY <1>11 DEF StepEnd, Goto, LocalTypes, Sane, Drives, Aims, Holds, Driven,
               Streaming, Id, InRun, InCkpt
<1>12. CASE FailRead(t)
  BY <1>12 DEF FailRead, Goto, LocalTypes, Sane, Drives, Aims, Holds, Driven,
               Streaming, Id, InRun, InCkpt
<1>13. CASE FailSave(t)
  <2>1. CASE Fresh(t)
    <3>1. /\ pc'[t] \in {"transition", "release"} /\ UNCHANGED <<cmd, goal>>
          /\ snap'[t].failure
      BY <1>13, <2>1, Writes DEF FailSave, SameBut, Goto, LocalTypes
    <3>2. goal[t] = "failed"
      BY <1>13 DEF FailSave, Sane, Aims
    <3> QED  BY <1>13, <3>1, <3>2 DEF FailSave, Sane, Drives, Aims, Holds, Driven,
                                      Streaming, InRun, InCkpt
  <2>2. CASE ~Fresh(t)
    BY <1>13, <2>2, RaiseSane DEF FailSave
  <2> QED  BY <2>1, <2>2
<1>14. CASE Release(t)
  BY <1>14, FinishSane DEF Release, Goto, LocalTypes, Sane, Drives, Aims, Holds,
                           Driven, Streaming, InRun, InCkpt
<1>15. CASE ReleaseSave(t)
  BY <1>15, FinishSane DEF ReleaseSave
<1> QED  BY <1>1, <1>2, <1>3, <1>4, <1>5, <1>6, <1>7, <1>8, <1>9, <1>10, <1>11,
            <1>12, <1>13, <1>14, <1>15 DEF Step

LEMMA CommandSane ==
  ASSUME TInv, NEW c \in Callers, Sane(c), Command(c)
  PROVE  Sane(c)'
<1> USE TInvParts DEF LocalInv
<1> DEFINE g == FirstGoal(cmd[c], row.status)
<1>1. c \in Threads /\ cmd[c] \in Commands /\ pc[c] = "command"
  BY DEF Threads, Command, Located
<1>2. CASE g = "return"
  BY <1>1, <1>2, FinishSane DEF Command
<1>3. CASE g = "run"
  <2>1. cmd[c] = "step"
    BY <1>1, <1>3 DEF FirstGoal, Commands
  <2> QED  BY <1>1, <1>3, <2>1
           DEF Command, Goto, KeepLocals, LocalTypes, Sane, Drives, Aims, Holds, Driven,
               Streaming, InRun, InCkpt
<1>4. CASE g \notin {"return", "run"}
  <2>1. /\ g \in {"running", "pausing", "resuming", "cancelling"}
        /\ g \in {"pausing", "cancelling"} => cmd[c] # "step"
    BY <1>1, <1>4 DEF FirstGoal, Commands
  <2> QED  BY <1>1, <1>4, <2>1
           DEF Command, Commands, Goto, LocalTypes, Sane, Drives, Aims, Holds, Driven,
               Streaming, InRun, InCkpt
<1> QED  BY <1>2, <1>3, <1>4

LEMMA InitSane == Init => \A t \in Threads : Sane(t)
<1> SUFFICES ASSUME Init PROVE \A t \in Threads : Sane(t)
  OBVIOUS
<1>1. \A t \in Threads :
        \/ pc[t] = "transition" /\ cmd[t] = "create" /\ goal[t] = "validating"
        \/ pc[t] = "idle" /\ cmd[t] = "none"
  BY DEF Init
<1> QED  BY <1>1 DEF Sane, Drives, Aims, Holds, Driven, Streaming, InRun, InCkpt

LEMMA NextSane ==
  ASSUME TInv, \A t \in Threads : Sane(t), [Next]_vars
  PROVE  \A t \in Threads : Sane(t)'
<1> USE TInvParts DEF LocalInv
<1> SUFFICES ASSUME NEW u \in Threads PROVE Sane(u)'
  OBVIOUS
<1>1. ASSUME NEW t \in Threads, Others(t), Sane(t)' PROVE Sane(u)'
  BY <1>1, OthersSane
<1>2. ASSUME NEW c \in Callers, Command(c) PROVE Sane(u)'
  <2>1. c \in Threads
    BY DEF Threads
  <2>2. Others(c)
    BY <1>2, <2>1, FinishOthers
       DEF Command, Goto, KeepLocals, Others, LocalTypes
  <2> QED  BY <1>1, <1>2, <2>1, <2>2, CommandSane
<1>3. ASSUME NEW c \in Callers, NEW k \in Commands, Call(c, k) PROVE Sane(u)'
  <2>1. c \in Threads
    BY DEF Threads
  <2>2. Others(c)
    BY <1>3, <2>1 DEF Call, Goto, Others, LocalTypes
  <2>3. Sane(c)'
    BY <1>3, <2>1 DEF Call, Commands, Goto, LocalTypes, Sane, Drives, Aims, Holds,
                      Driven, Streaming, InRun, InCkpt
  <2> QED  BY <1>1, <2>1, <2>2, <2>3
<1>4. ASSUME NEW w \in Workers, Poll(w) PROVE Sane(u)'
  <2>1. w \in Threads
    BY DEF Threads
  <2>2. Others(w)
    BY <1>4, <2>1 DEF Poll, Goto, Others, LocalTypes
  <2>3. Sane(w)'
    BY <1>4, <2>1 DEF Poll, Goto, LocalTypes, Sane, Drives, Aims, Holds,
                      Driven, Streaming, InRun, InCkpt
  <2> QED  BY <1>1, <2>1, <2>2, <2>3
<1>5. ASSUME NEW t \in Threads, Step(t) PROVE Sane(u)'
  BY <1>1, <1>5, StepOthers, StepSane
<1>6. ASSUME NEW t \in Threads, Error(t) PROVE Sane(u)'
  BY <1>1, <1>6, RaiseOthers, RaiseSane DEF Error
<1>7. ASSUME NEW t \in Threads, Crash(t) PROVE Sane(u)'
  <2>1. Others(t)
    BY <1>7 DEF Crash, Goto, Others, LocalTypes
  <2>2. Sane(t)'
    BY <1>7 DEF Crash, Goto, LocalTypes, Sane, Drives, Aims, Holds,
                Driven, Streaming, InRun, InCkpt
  <2> QED  BY <1>1, <2>1, <2>2
<1>8. CASE LeaseExpires
  BY <1>8 DEF LeaseExpires, Sane, Drives, Aims, Holds, Driven, Streaming, Id
<1>9. CASE UNCHANGED vars
  BY <1>9 DEF vars, Sane, Drives, Aims, Holds, Driven, Streaming, Id
<1> QED  BY <1>2, <1>3, <1>4, <1>5, <1>6, <1>7, <1>8, <1>9 DEF Next

-----------------------------------------------------------------------------
(* The row changes only through a fresh copy: six effects, and who has them. *)

Base == TInv /\ Snapshots /\ \A t \in Threads : Sane(t)

LEMMA BaseHolds == Spec => []Base
<1>1. Init => Base
  BY InitTInv, InitSnapshots, InitSane DEF Base
<1>2. Base /\ [Next]_vars => Base'
  BY NextTInv, NextSnapshots, NextSane DEF Base
<1> QED  BY <1>1, <1>2, PTL DEF Spec

(* The row keeps every field but the named ones. *)
RowBut(fields) ==
  /\ "status" \notin fields => row'.status = row.status
  /\ "owner" \notin fields => row'.owner = row.owner
  /\ "cursor" \notin fields => row'.cursor = row.cursor /\ row'.processed = row.processed
  /\ "failure" \notin fields => row'.failure = row.failure
  /\ "ckpt" \notin fields => row'.ckpt = row.ckpt

Moved(t) ==
  /\ Transition(t) /\ snap[t] = row /\ RowBut({"status"})
  /\ row'.status = goal[t] /\ goal[t] \in Transitions[row.status]
  /\ UNCHANGED ckpts
PointedAt(t) ==
  /\ CkptPoint(t) /\ snap[t] = row /\ RowBut({"ckpt"}) /\ row'.ckpt = key[t]
  /\ UNCHANGED ckpts
Taken(t) ==
  /\ Acquire(t) /\ snap[t] = row /\ RowBut({"owner"}) /\ row'.owner = Id(t)
  /\ at' = [at EXCEPT ![t] = row.cursor] /\ UNCHANGED ckpts
Advanced(t) ==
  /\ Commit(t) /\ snap[t] = row /\ RowBut({"cursor"}) /\ at[t] < Groups
  /\ row'.cursor = at[t] + 1 /\ row'.processed = row.processed + 1
  /\ at' = [at EXCEPT ![t] = @ + 1] /\ UNCHANGED ckpts
Failed(t) ==
  /\ FailSave(t) /\ snap[t] = row /\ RowBut({"failure"}) /\ row'.failure
  /\ UNCHANGED ckpts
Released(t) ==
  /\ ReleaseSave(t) /\ RowBut({"owner"}) /\ row'.owner = NoOwner
  /\ UNCHANGED ckpts

LEMMA ActionEffects ==
  ASSUME Base, NEW t \in Threads
  PROVE  /\ Transition(t) => Moved(t) \/ (Raise(t) /\ UNCHANGED db)
         /\ CkptPoint(t) => PointedAt(t) \/ (Raise(t) /\ UNCHANGED db)
         /\ Acquire(t) => Taken(t) \/ (Finish(t) /\ UNCHANGED db)
         /\ Commit(t) => Advanced(t) \/ (Raise(t) /\ UNCHANGED db)
         /\ FailSave(t) => Failed(t) \/ (Raise(t) /\ UNCHANGED db)
         /\ ReleaseSave(t) => Finish(t) /\ (Released(t) \/ UNCHANGED row) /\ UNCHANGED ckpts
<1> USE TInvParts DEF Base, LocalInv
<1>0. Fresh(t) => snap[t] = row
  BY FreshIsRow
<1>1. ASSUME Transition(t)
      PROVE  Moved(t) \/ (Raise(t) /\ UNCHANGED db)
  <2>1. CASE goal[t] \in Transitions[snap[t].status] /\ Fresh(t)
    <3>1. SameBut(t, {"status"}) /\ row'.status = goal[t]
      BY <1>1, <2>1, Writes DEF Transition
    <3> QED  BY <1>0, <1>1, <2>1, <3>1 DEF Transition, Moved, SameBut, RowBut
  <2>2. CASE ~(goal[t] \in Transitions[snap[t].status] /\ Fresh(t))
    BY <1>1, <2>2 DEF Transition, db
  <2> QED  BY <2>1, <2>2
<1>2. ASSUME CkptPoint(t)
      PROVE  PointedAt(t) \/ (Raise(t) /\ UNCHANGED db)
  <2>1. CASE Fresh(t)
    <3>1. SameBut(t, {"ckpt"}) /\ row'.ckpt = key[t]
      BY <1>2, <2>1, Writes DEF CkptPoint
    <3> QED  BY <1>0, <1>2, <2>1, <3>1 DEF CkptPoint, PointedAt, SameBut, RowBut
  <2>2. CASE ~(Fresh(t))
    BY <1>2, <2>2 DEF CkptPoint, db
  <2> QED  BY <2>1, <2>2
<1>3. ASSUME Acquire(t)
      PROVE  Taken(t) \/ (Finish(t) /\ UNCHANGED db)
  <2>1. CASE Fresh(t) /\ ~Leased(t)
    <3>1. SameBut(t, {"owner"}) /\ row'.owner = Id(t)
      BY <1>3, <2>1, Writes DEF Acquire
    <3> QED  BY <1>0, <1>3, <2>1, <3>1 DEF Acquire, Taken, SameBut, RowBut, StreamStart
  <2>2. CASE ~(Fresh(t) /\ ~Leased(t))
    BY <1>3, <2>2 DEF Acquire, db
  <2> QED  BY <2>1, <2>2
<1>4. ASSUME Commit(t)
      PROVE  Advanced(t) \/ (Raise(t) /\ UNCHANGED db)
  <2>1. CASE Fresh(t)
    <3>1. SameBut(t, {"cursor"}) /\ at[t] < Groups
          /\ row'.cursor = at[t] + 1 /\ row'.processed = snap[t].processed + 1
      BY <1>4, <2>1, Writes DEF Commit, Located
    <3> QED  BY <1>0, <1>4, <2>1, <3>1 DEF Commit, Advanced, SameBut, RowBut
  <2>2. CASE ~(Fresh(t))
    BY <1>4, <2>2 DEF Commit, db
  <2> QED  BY <2>1, <2>2
<1>5. ASSUME FailSave(t)
      PROVE  Failed(t) \/ (Raise(t) /\ UNCHANGED db)
  <2>1. CASE Fresh(t)
    <3>1. SameBut(t, {"failure"}) /\ row'.failure
      BY <1>5, <2>1, Writes DEF FailSave
    <3> QED  BY <1>0, <1>5, <2>1, <3>1 DEF FailSave, Failed, SameBut, RowBut
  <2>2. CASE ~(Fresh(t))
    BY <1>5, <2>2 DEF FailSave, db
  <2> QED  BY <2>1, <2>2
<1>6. ASSUME ReleaseSave(t)
      PROVE  Finish(t) /\ (Released(t) \/ UNCHANGED row) /\ UNCHANGED ckpts
  <2>1. CASE Fresh(t)
    <3>1. row' = [row EXCEPT !.owner = NoOwner, !.version = @ + 1] /\ UNCHANGED ckpts
      BY <1>0, <1>6, <2>1 DEF ReleaseSave
    <3>2. RowBut({"owner"}) /\ row'.owner = NoOwner
      BY <3>1 DEF RowBut, DbTypes, Rows
    <3> QED  BY <1>6, <3>1, <3>2 DEF ReleaseSave, Released
  <2> QED  BY <1>6, <2>1 DEF ReleaseSave
<1> QED  BY <1>1, <1>2, <1>3, <1>4, <1>5, <1>6

LEMMA RowEffects ==
  ASSUME Base, NEW t \in Threads, Step(t)
  PROVE  \/ UNCHANGED row
         \/ Moved(t) \/ PointedAt(t) \/ Taken(t) \/ Advanced(t) \/ Failed(t) \/ Released(t)
<1>1. CASE \/ Transition(t) \/ CkptPoint(t) \/ Acquire(t) \/ Commit(t)
           \/ FailSave(t) \/ ReleaseSave(t)
  BY <1>1, ActionEffects DEF db
<1>2. CASE ~(\/ Transition(t) \/ CkptPoint(t) \/ Acquire(t) \/ Commit(t)
             \/ FailSave(t) \/ ReleaseSave(t))
  BY <1>2 DEF Step, Record, CkptRead, CkptSave, RunRead, Loop, StoreOutputs, StepEnd,
              FailRead, Release, db
<1> QED  BY <1>1, <1>2

LEMMA QuietSteps ==
  ASSUME [Next]_vars, ~ \E t \in Threads : Step(t)
  PROVE  UNCHANGED <<row, ckpts>>
  BY DEF Next, Command, Call, Poll, Error, Crash, LeaseExpires, vars, db

(* A failed session always tells why: the failure is saved before the       *)
(* transition, and the version check makes the two refer to the same row.   *)
THEOREM FailuresRecorded == Spec => []FailureRecorded
<1>1. Init => FailureRecorded
  BY DEF Init, Created, FailureRecorded
<1>2. ASSUME Base, FailureRecorded, [Next]_vars PROVE FailureRecorded'
  <2>1. ASSUME NEW t \in Threads, Step(t) PROVE FailureRecorded'
    <3>1. CASE Moved(t)
      BY <1>2, <3>1 DEF Moved, Transition, RowBut, Base, Sane, Aims, FailureRecorded
    <3>2. CASE ~Moved(t)
      BY <1>2, <2>1, <3>2, RowEffects
         DEF PointedAt, Taken, Advanced, Failed, Released, RowBut, FailureRecorded
    <3> QED  BY <3>1, <3>2
  <2>2. CASE ~ \E t \in Threads : Step(t)
    BY <1>2, <2>2, QuietSteps DEF FailureRecorded
  <2> QED  BY <2>1, <2>2
<1> QED  BY <1>1, <1>2, BaseHolds, PTL DEF Spec

(* Only the holder of the lease commits a group: the copy it commits named  *)
(* it the owner, and the version check says that the row still does.        *)
THEOREM OnlyOwnerCommits == Spec => OwnerCommits
<1>1. ASSUME Base, [Next]_vars
      PROVE  [row'.processed # row.processed =>
                \E t \in Threads : /\ pc[t] = "process" /\ pc'[t] = "outputs"
                                   /\ row.owner = Id(t)]_vars
  <2>1. ASSUME NEW t \in Threads, Step(t), row'.processed # row.processed
        PROVE  pc[t] = "process" /\ pc'[t] = "outputs" /\ row.owner = Id(t)
    <3>1. Advanced(t)
      BY <1>1, <2>1, RowEffects DEF Moved, PointedAt, Taken, Failed, Released, RowBut
    <3>2. pc[t] = "process" /\ pc'[t] = "outputs"
      <4>1. Fresh(t)
        BY <3>1 DEF Advanced, Fresh
      <4> QED  BY <3>1, <4>1, <1>1, TInvParts
               DEF Advanced, Commit, Goto, Base, LocalInv, LocalTypes
    <3> QED  BY <1>1, <3>1, <3>2 DEF Advanced, Base, Sane, Holds, Streaming
  <2>2. CASE ~ \E t \in Threads : Step(t)
    BY <1>1, <2>2, QuietSteps
  <2> QED  BY <2>1, <2>2
<1> QED  BY <1>1, BaseHolds, PTL DEF Spec, OwnerCommits

-----------------------------------------------------------------------------
(* Every step request leases the session under the same name, so what       *)
(* follows is for at most one of them at a time.                            *)

SoleStepper == \A s1, s2 \in Steppers : s1 = s2

LEMMA DistinctIds ==
  ASSUME SoleStepper, Base, NEW t \in Threads, NEW u \in Threads \ {t},
         Driven(t), Driven(u)
  PROVE  Id(t) # Id(u)
<1>1. /\ t \in Workers \/ t \in Steppers
      /\ u \in Workers \/ u \in Steppers
  BY DEF Driven, Base, Sane, Drives
<1> QED  BY <1>1 DEF SoleStepper, Id

LEMMA IdNotNoOwner == \A t \in Threads : Id(t) # NoOwner
  BY DEF Id

(* A thread that holds the lease and takes groups is exactly at the cursor, *)
(* and nobody else has moved the session to rest.                           *)
AtCursor ==
  \A t \in Threads : Streaming(t) =>
    /\ at[t] <= row.cursor
    /\ row.owner = Id(t) =>
         /\ at[t] = row.cursor
         /\ row.status \in {"running", "pausing", "cancelling", "failed", "completed"}

CountOK ==
  /\ row.processed = row.cursor
  /\ row.status = "completed" => row.cursor = Groups
  /\ \A t \in Threads :
       /\ pc[t] = "process" => snap[t].status \in {"running", "failed"}
       /\ pc[t] \in InCkpt \cup {"transition"} /\ goal[t] = "completed" =>
            snap[t].cursor = Groups

Driving == SoleStepper /\ Base /\ AtCursor /\ CountOK

LEMMA StreamingIsDriven ==
  ASSUME Base, NEW t \in Threads, Streaming(t)
  PROVE  Driven(t)
  BY DEF Base, Sane, Drives, Streaming, InRun

(* How a thread comes to be streaming after a step of its own. *)
LEMMA StreamingAfter ==
  ASSUME Base, NEW t \in Threads, Step(t), Streaming(t)'
  PROVE  \/ Taken(t) \/ Advanced(t)
         \/ Streaming(t) /\ at'[t] = at[t] /\ (UNCHANGED row \/ PointedAt(t))
<1> USE TInvParts DEF Base, LocalInv, LocalTypes
<1>1. ~Finish(t)
  BY DEF Finish, Goto, Streaming, InCkpt
<1>2. ~Raise(t)
  BY <1>1 DEF Raise, Goto, Streaming, InCkpt
<1>3. ~(Transition(t) \/ Record(t) \/ RunRead(t) \/ FailRead(t) \/ FailSave(t)
        \/ Release(t) \/ ReleaseSave(t) \/ StepEnd(t))
  <2>1. ~Record(t)
    BY <1>1 DEF Record, AfterRecord, Goto, Streaming, InCkpt
  <2>2. ~Transition(t) /\ ~FailSave(t)
    BY <1>2 DEF Transition, FailSave, Goto, Streaming, InCkpt
  <2>3. ~RunRead(t) /\ ~Release(t) /\ ~ReleaseSave(t)
    BY <1>1 DEF RunRead, Release, ReleaseSave, Goto, Streaming, InCkpt
  <2>4. ~FailRead(t) /\ ~StepEnd(t)
    BY DEF FailRead, StepEnd, Goto, Streaming, InCkpt
  <2> QED  BY <2>1, <2>2, <2>3, <2>4
<1>4. CASE Acquire(t)
  BY <1>1, <1>4, ActionEffects
<1>5. CASE Commit(t)
  BY <1>2, <1>5, ActionEffects
<1>6. CASE CkptPoint(t)
  <2>1. PointedAt(t)
    BY <1>2, <1>6, ActionEffects
  <2>2. snap[t] = row
    BY <2>1 DEF PointedAt
  <2>3. at' = at /\ (goal[t] # "policy" => Goto(t, "transition"))
    BY <1>2, <1>6 DEF CkptPoint
  <2> QED  BY <1>6, <2>1, <2>3 DEF CkptPoint, Goto, Streaming, InCkpt
<1>7. CASE CkptRead(t) \/ CkptSave(t) \/ Loop(t) \/ StoreOutputs(t)
  BY <1>2, <1>7 DEF CkptRead, CkptSave, Loop, StoreOutputs, Goto, KeepLocals, db,
                    Streaming, InCkpt
<1> QED  BY <1>3, <1>4, <1>5, <1>6, <1>7 DEF Step

LEMMA StepAtCursor ==
  ASSUME Driving, NEW t \in Threads, Step(t)
  PROVE  AtCursor'
<1> USE TInvParts DEF Driving, Base, LocalInv, LocalTypes
<1>0. Others(t) /\ row.cursor \in 0..Groups
  BY StepOthers DEF DbTypes, Rows
<1> SUFFICES ASSUME NEW u \in Threads, Streaming(u)'
             PROVE  /\ at'[u] <= row'.cursor
                    /\ row'.owner = Id(u) =>
                         /\ at'[u] = row'.cursor
                         /\ row'.status \in {"running", "pausing", "cancelling",
                                             "failed", "completed"}
  BY DEF AtCursor, Id
<1>1. CASE u = t
  <2>1. CASE Taken(t)
    BY <1>0, <1>1, <2>1 DEF Taken, RowBut, Sane, Aims, Acquire
  <2>2. CASE Advanced(t)
    <3>1. Streaming(t) /\ row.owner = Id(t)
      BY <2>2 DEF Advanced, Commit, Streaming, Sane, Holds
    <3> QED  BY <1>0, <1>1, <2>2, <3>1 DEF Advanced, RowBut, AtCursor
  <2>3. CASE Streaming(t) /\ at'[t] = at[t] /\ (UNCHANGED row \/ PointedAt(t))
    BY <1>1, <2>3 DEF PointedAt, RowBut, AtCursor
  <2> QED  BY <1>1, <2>1, <2>2, <2>3, StreamingAfter
<1>2. CASE u # t
  <2>1. Streaming(u) /\ at'[u] = at[u]
    BY <1>0, <1>2 DEF Others, Streaming
  <2>2. Driven(u) /\ (Driven(t) => Id(t) # Id(u)) /\ Id(u) # NoOwner
    BY <1>2, <2>1, StreamingIsDriven, DistinctIds, IdNotNoOwner
  <2>3. CASE Moved(t)
    <3>1. CASE row.owner = Id(u)
      <4>1. row.status \in {"running", "pausing", "cancelling", "failed", "completed"}
        BY <2>1, <3>1 DEF AtCursor
      <4>2. goal[t] \notin {"paused", "cancelled"}
        BY <2>2, <2>3, <3>1 DEF Moved, Transition, Sane, Holds
      <4>3. goal[t] # "recovering"
        BY <2>3 DEF Moved, Transition, Sane, Aims
      <4> QED  BY <2>1, <2>3, <4>1, <4>2, <4>3
               DEF Moved, RowBut, AtCursor, Transitions, LC!Transitions
    <3>2. CASE row.owner # Id(u)
      BY <2>1, <2>3, <3>2 DEF Moved, RowBut, AtCursor
    <3> QED  BY <3>1, <3>2
  <2>4. CASE Taken(t)
    BY <2>1, <2>2, <2>4 DEF Taken, Acquire, RowBut, AtCursor, Sane, Drives, InRun
  <2>5. CASE Advanced(t)
    <3>1. Streaming(t) /\ row.owner = Id(t) /\ Driven(t)
      BY <2>5, StreamingIsDriven DEF Advanced, Commit, Streaming, Sane, Holds
    <3> QED  BY <1>0, <2>1, <2>2, <2>5, <3>1 DEF Advanced, RowBut, AtCursor
  <2>6. CASE UNCHANGED row \/ PointedAt(t) \/ Failed(t) \/ Released(t)
    BY <2>1, <2>2, <2>6 DEF PointedAt, Failed, Released, RowBut, AtCursor
  <2> QED  BY <2>3, <2>4, <2>5, <2>6, RowEffects
<1> QED  BY <1>1, <1>2

LEMMA StepCountOK ==
  ASSUME Driving, NEW t \in Threads, Step(t)
  PROVE  CountOK'
<1> USE TInvParts DEF Driving, Base, LocalInv, LocalTypes
<1>0. Others(t) /\ row.cursor \in 0..Groups /\ row.processed \in Nat
  BY StepOthers DEF DbTypes, Rows
<1>1. Advanced(t) => /\ at[t] = row.cursor /\ row.status \in {"running", "failed"}
  <2>1. ASSUME Advanced(t)
        PROVE  Streaming(t) /\ row.owner = Id(t) /\ row.status \in {"running", "failed"}
    BY <2>1 DEF Advanced, Commit, Streaming, Sane, Holds, CountOK
  <2> QED  BY <2>1 DEF AtCursor
<1>2. row'.processed = row'.cursor
  BY <1>1, RowEffects DEF CountOK, Moved, PointedAt, Taken, Advanced, Failed,
                          Released, RowBut
<1>3. row'.status = "completed" => row'.cursor = Groups
  BY <1>1, RowEffects DEF CountOK, Moved, Transition, PointedAt, Taken, Advanced,
                          Failed, Released, RowBut
<1>4. pc'[t] = "process" => snap'[t].status \in {"running", "failed"}
  <2> SUFFICES ASSUME pc'[t] = "process" PROVE snap'[t].status \in {"running", "failed"}
    OBVIOUS
  <2>1. Loop(t)
    <3>1. ~Finish(t) /\ ~Raise(t)
      BY DEF Finish, Raise, Goto
    <3> QED  BY <3>1 DEF Step, Transition, Record, AfterRecord, CkptRead, CkptSave,
                         CkptPoint, RunRead, Acquire, Commit, StoreOutputs, StepEnd,
                         FailRead, FailSave, Release, ReleaseSave, Goto
  <2>2. /\ snap'[t] = row /\ row.owner = Id(t) /\ at[t] # Groups
        /\ row.status \notin {"cancelling", "pausing"}
    BY <2>1 DEF Loop, Goto, LeaseLost, Exhausted
  <2>3. /\ at[t] = row.cursor
        /\ row.status \in {"running", "pausing", "cancelling", "failed", "completed"}
    BY <2>1, <2>2 DEF Loop, Streaming, AtCursor
  <2> QED  BY <2>2, <2>3 DEF CountOK
<1>5. pc'[t] \in InCkpt \cup {"transition"} /\ goal'[t] = "completed" =>
        snap'[t].cursor = Groups
  <2> SUFFICES ASSUME pc'[t] \in InCkpt \cup {"transition"}, goal'[t] = "completed"
               PROVE  snap'[t].cursor = Groups
    OBVIOUS
  <2>1. ~Finish(t) /\ ~Raise(t)
    BY DEF Finish, Raise, Goto, InCkpt
  <2>2. CASE Loop(t)
    <3>1. snap'[t] = row /\ (at[t] = Groups \/ goal'[t] # "completed" \/ pc'[t] = "process"
                             \/ pc'[t] = "failRead")
      BY <2>2 DEF Loop, Exhausted, Goto
    <3>2. at[t] = Groups /\ at[t] <= row.cursor
      BY <2>2, <3>1 DEF Loop, Streaming, AtCursor, InCkpt
    <3> QED  BY <1>0, <3>1, <3>2
  <2>3. CASE CkptPoint(t)
    <3>1. PointedAt(t)
      BY <2>1, <2>3, ActionEffects
    <3>2. snap'[t] = row'
      BY <2>1, <2>3, Writes DEF CkptPoint, SameBut
    <3>3. goal[t] = "completed"
      BY <2>1, <2>3 DEF CkptPoint
    <3> QED  BY <2>3, <3>1, <3>2, <3>3 DEF CkptPoint, PointedAt, RowBut, CountOK, InCkpt
  <2>4. CASE CkptRead(t) \/ CkptSave(t)
    BY <2>1, <2>4 DEF CkptRead, CkptSave, KeepLocals, CountOK, InCkpt
  <2>5. Loop(t) \/ CkptPoint(t) \/ CkptRead(t) \/ CkptSave(t)
    BY <2>1 DEF Step, Transition, Record, AfterRecord, RunRead, Acquire, Commit,
                StoreOutputs, StepEnd, FailRead, FailSave, Release, ReleaseSave, Goto,
                InCkpt, Sane, Aims
  <2> QED  BY <2>2, <2>3, <2>4, <2>5
<1> QED  BY <1>0, <1>2, <1>3, <1>4, <1>5 DEF CountOK, Others

(* The other steps of the system touch neither the row nor the checkpoints, *)
(* and bring no thread into a run, a checkpoint or a commit.                *)
LEMMA QuietThreads ==
  ASSUME Base, [Next]_vars, ~ \E t \in Threads : Step(t), NEW u \in Threads
  PROVE  /\ Streaming(u)' => Streaming(u) /\ at'[u] = at[u]
         /\ pc'[u] \in InCkpt \cup {"process"} =>
              /\ pc'[u] = pc[u] /\ snap'[u] = snap[u]
              /\ goal'[u] = goal[u] /\ key'[u] = key[u]
         /\ pc'[u] = "transition" /\ goal'[u] \in Resting =>
              pc[u] = "transition" /\ snap'[u] = snap[u] /\ goal'[u] = goal[u]
<1> USE TInvParts DEF Base, LocalInv, LocalTypes
<1> DEFINE Quiet == /\ pc'[u] = pc[u] /\ snap'[u] = snap[u]
                    /\ goal'[u] = goal[u] /\ key'[u] = key[u] /\ at'[u] = at[u]
           Leaves == /\ pc'[u] \notin InCkpt \cup {"process", "loop", "outputs", "stepEnd"}
                     /\ pc'[u] = "transition" => goal'[u] \notin Resting
<1>1. ASSUME NEW c \in Callers, Command(c) PROVE Quiet \/ Leaves
  <2>1. CASE u # c
    BY <1>1, <2>1 DEF Command, Finish, KeepLocals, Goto
  <2>2. CASE u = c
    <3>1. cmd[c] \in Commands
      BY <1>1, <2>2 DEF Command, Located
    <3> QED  BY <1>1, <2>2, <3>1
             DEF Command, FirstGoal, Commands, Finish, KeepLocals, Goto, InCkpt, Resting
  <2> QED  BY <2>1, <2>2
<1>2. ASSUME NEW c \in Callers, NEW k \in Commands, Call(c, k) PROVE Quiet \/ Leaves
  BY <1>2 DEF Call, Goto, InCkpt
<1>3. ASSUME NEW w \in Workers, Poll(w) PROVE Quiet \/ Leaves
  BY <1>3 DEF Poll, Goto, InCkpt
<1>4. ASSUME NEW t \in Threads, Error(t) \/ Crash(t) PROVE Quiet \/ Leaves
  <2>1. CASE u # t
    <3>1. Others(t)
      BY <1>4, RaiseOthers DEF Error, Crash, Goto, Others
    <3> QED  BY <2>1, <3>1 DEF Others
  <2>2. CASE u = t
    <3>1. pc'[u] \in {"idle", "dead", "failRead", "release"}
      BY <1>4, <2>2 DEF Error, Crash, Raise, Finish, Goto
    <3> QED  BY <3>1 DEF InCkpt
  <2> QED  BY <2>1, <2>2
<1>5. ASSUME LeaseExpires \/ UNCHANGED vars PROVE Quiet
  BY <1>5 DEF LeaseExpires, vars
<1>6. Quiet \/ Leaves
  BY <1>1, <1>2, <1>3, <1>4, <1>5 DEF Next
<1> QED  BY <1>6 DEF Streaming, InCkpt

LEMMA DrivingHolds ==
  ASSUME SoleStepper
  PROVE  Spec => [](AtCursor /\ CountOK)
<1>1. Init => AtCursor /\ CountOK
  <2> SUFFICES ASSUME Init PROVE AtCursor /\ CountOK
    OBVIOUS
  <2>1. /\ row.status = "created" /\ row.processed = 0 /\ row.cursor = 0
        /\ \A t \in Threads : \/ pc[t] = "idle"
                              \/ pc[t] = "transition" /\ goal[t] = "validating"
    BY DEF Init, Created
  <2> QED  BY <2>1 DEF AtCursor, CountOK, Streaming, InCkpt
<1>2. ASSUME Base, AtCursor, CountOK, [Next]_vars
      PROVE  AtCursor' /\ CountOK'
  <2>1. ASSUME NEW t \in Threads, Step(t) PROVE AtCursor' /\ CountOK'
    BY <1>2, <2>1, StepAtCursor, StepCountOK DEF Driving
  <2>2. CASE ~ \E t \in Threads : Step(t)
    <3>1. UNCHANGED row
      BY <1>2, <2>2, QuietSteps
    <3> QED  BY <1>2, <2>2, <3>1, QuietThreads DEF AtCursor, CountOK, Id, Resting
  <2> QED  BY <2>1, <2>2
<1> QED  BY <1>1, <1>2, BaseHolds, PTL DEF Spec

(* Every committed group was committed once, in order: a worker that lost   *)
(* its lease cannot commit, and the one that holds it is at the cursor.     *)
THEOREM CommittedOnce ==
  ASSUME SoleStepper
  PROVE  Spec => []ExactlyOnce
<1>1. CountOK => ExactlyOnce
  BY DEF CountOK, ExactlyOnce
<1> QED  BY <1>1, DrivingHolds, PTL

(* A completed session has committed the whole dataset, although the one    *)
(* that completes it checks neither the lease nor the status.               *)
THEOREM CompletedIsWhole ==
  ASSUME SoleStepper
  PROVE  Spec => []CompletedMeansAll
<1>1. CountOK => CompletedMeansAll
  BY DEF CountOK, CompletedMeansAll
<1> QED  BY <1>1, DrivingHolds, PTL

-----------------------------------------------------------------------------
(* Checkpoints: a session at rest points at one taken where it rests.       *)

Marked(r) == r.ckpt \in 1..Len(ckpts) /\ ckpts[r.ckpt] = r.cursor

MarkOK ==
  /\ row.status \in Resting => Marked(row)
  /\ \A t \in Threads :
       /\ pc[t] = "ckptPoint" =>
            key[t] \in 1..Len(ckpts) /\ ckpts[key[t]] = snap[t].cursor
       /\ pc[t] = "transition" /\ goal[t] \in Resting => Marked(snap[t])

(* Checkpoints are only ever added. *)
LEMMA CkptsGrow ==
  ASSUME TInv, NEW t \in Threads, Step(t)
  PROVE  /\ Len(ckpts) <= Len(ckpts') /\ Len(ckpts) \in Nat
         /\ \A i \in 1..Len(ckpts) : ckpts'[i] = ckpts[i]
<1>1. ckpts \in Seq(0..Groups) /\ Len(ckpts) \in Nat
  BY TInvParts DEF DbTypes
<1>2. CASE CkptSave(t) /\ key[t] = Len(ckpts) + 1
  <2>1. ckpts' = Append(ckpts, snap[t].cursor)
    BY <1>2 DEF CkptSave
  <2> QED  BY <1>1, <2>1
<1>3. CASE ~(CkptSave(t) /\ key[t] = Len(ckpts) + 1)
  <2>1. ckpts' = ckpts
    BY <1>3 DEF Step, Transition, Record, CkptRead, CkptSave, CkptPoint, RunRead,
                Acquire, Loop, Commit, StoreOutputs, StepEnd, FailRead, FailSave,
                Release, ReleaseSave, db
  <2> QED  BY <1>1, <2>1
<1> QED  BY <1>2, <1>3

LEMMA StepMarkOK ==
  ASSUME Driving, MarkOK, NEW t \in Threads, Step(t)
  PROVE  MarkOK'
<1> USE TInvParts DEF Driving, Base, LocalInv, LocalTypes
<1>0. Others(t) /\ \A r : Marked(r) => r.ckpt \in 1..Len(ckpts') /\ ckpts'[r.ckpt] = r.cursor
  BY StepOthers, CkptsGrow DEF Marked
<1>1. row'.status \in Resting => row'.ckpt \in 1..Len(ckpts') /\ ckpts'[row'.ckpt] = row'.cursor
  <2>1. CASE UNCHANGED row
    BY <1>0, <2>1 DEF MarkOK
  <2>2. CASE Moved(t)
    BY <1>0, <2>2 DEF Moved, Transition, RowBut, MarkOK, Marked
  <2>3. CASE PointedAt(t)
    BY <2>3 DEF PointedAt, CkptPoint, RowBut, MarkOK
  <2>4. CASE Taken(t)
    BY <2>4 DEF Taken, Acquire, RowBut, Sane, Aims, Resting
  <2>5. CASE Advanced(t)
    BY <2>5 DEF Advanced, Commit, RowBut, CountOK, Resting
  <2>6. CASE Failed(t) \/ Released(t)
    BY <1>0, <2>6 DEF Failed, Released, RowBut, MarkOK, Marked
  <2> QED  BY <2>1, <2>2, <2>3, <2>4, <2>5, <2>6, RowEffects
<1>2. pc'[t] = "ckptPoint" =>
        key'[t] \in 1..Len(ckpts') /\ ckpts'[key'[t]] = snap'[t].cursor
  <2> SUFFICES ASSUME pc'[t] = "ckptPoint"
               PROVE  key'[t] \in 1..Len(ckpts') /\ ckpts'[key'[t]] = snap'[t].cursor
    OBVIOUS
  <2>1. ~Finish(t) /\ ~Raise(t)
    BY DEF Finish, Raise, Goto
  <2>2. CkptSave(t)
    BY <2>1 DEF Step, Transition, Record, AfterRecord, CkptRead, CkptPoint, RunRead,
                Acquire, Loop, Commit, StoreOutputs, StepEnd, FailRead, FailSave,
                Release, ReleaseSave, Goto
  <2>3. /\ ckpts' = Append(ckpts, snap[t].cursor) /\ key[t] = Len(ckpts) + 1
        /\ UNCHANGED <<key, snap>>
    BY <2>1, <2>2 DEF CkptSave, KeepLocals
  <2>4. ckpts \in Seq(0..Groups) /\ snap[t].cursor \in 0..Groups
    BY DEF DbTypes, Rows
  <2> QED  BY <2>3, <2>4
<1>3. pc'[t] = "transition" /\ goal'[t] \in Resting =>
        snap'[t].ckpt \in 1..Len(ckpts') /\ ckpts'[snap'[t].ckpt] = snap'[t].cursor
  <2> SUFFICES ASSUME pc'[t] = "transition", goal'[t] \in Resting
               PROVE  snap'[t].ckpt \in 1..Len(ckpts') /\ ckpts'[snap'[t].ckpt] = snap'[t].cursor
    OBVIOUS
  <2>1. ~Finish(t) /\ ~Raise(t)
    BY DEF Finish, Raise, Goto
  <2>2. CkptPoint(t)
    BY <2>1 DEF Step, Transition, Record, AfterRecord, CkptRead, CkptSave, RunRead,
                Acquire, Loop, Commit, StoreOutputs, StepEnd, FailRead, FailSave,
                Release, ReleaseSave, Goto, Resting, Sane, Aims
  <2>3. PointedAt(t) /\ snap'[t] = row'
    BY <2>1, <2>2, ActionEffects, Writes DEF CkptPoint, SameBut
  <2> QED  BY <2>2, <2>3 DEF CkptPoint, PointedAt, RowBut, MarkOK
<1>4. ASSUME NEW u \in Threads \ {t}
      PROVE  /\ pc'[u] = "ckptPoint" =>
                  key'[u] \in 1..Len(ckpts') /\ ckpts'[key'[u]] = snap'[u].cursor
             /\ pc'[u] = "transition" /\ goal'[u] \in Resting =>
                  /\ snap'[u].ckpt \in 1..Len(ckpts')
                  /\ ckpts'[snap'[u].ckpt] = snap'[u].cursor
  <2>1. /\ pc'[u] = pc[u] /\ key'[u] = key[u] /\ snap'[u] = snap[u] /\ goal'[u] = goal[u]
    BY <1>0 DEF Others
  <2>2. CASE pc[u] = "ckptPoint"
    BY <2>1, <2>2, CkptsGrow DEF MarkOK
  <2>3. CASE pc[u] = "transition"
    BY <1>0, <2>1, <2>3 DEF MarkOK
  <2> QED  BY <2>1, <2>2, <2>3
<1>5. \A u \in Threads :
        /\ pc'[u] = "ckptPoint" =>
             key'[u] \in 1..Len(ckpts') /\ ckpts'[key'[u]] = snap'[u].cursor
        /\ pc'[u] = "transition" /\ goal'[u] \in Resting =>
             /\ snap'[u].ckpt \in 1..Len(ckpts')
             /\ ckpts'[snap'[u].ckpt] = snap'[u].cursor
  BY <1>2, <1>3, <1>4
<1> QED  BY <1>1, <1>5 DEF MarkOK, Marked

(* A session at rest points at a checkpoint of the place where it rests,    *)
(* whichever thread parked it and whatever the others did meanwhile.        *)
THEOREM RestsAtCheckpoint ==
  ASSUME SoleStepper
  PROVE  Spec => []ParkedAtCheckpoint
<1>1. Init => MarkOK
  <2> SUFFICES ASSUME Init PROVE MarkOK
    OBVIOUS
  <2>1. /\ row.status = "created"
        /\ \A t \in Threads : \/ pc[t] = "idle"
                              \/ pc[t] = "transition" /\ goal[t] = "validating"
    BY DEF Init, Created
  <2> QED  BY <2>1 DEF MarkOK, Resting
<1>2. ASSUME Base, AtCursor, CountOK, MarkOK, [Next]_vars
      PROVE  MarkOK'
  <2>1. ASSUME NEW t \in Threads, Step(t) PROVE MarkOK'
    BY <1>2, <2>1, StepMarkOK DEF Driving
  <2>2. CASE ~ \E t \in Threads : Step(t)
    <3>1. UNCHANGED <<row, ckpts>>
      BY <1>2, <2>2, QuietSteps
    <3> QED  BY <1>2, <2>2, <3>1, QuietThreads DEF MarkOK, Marked, InCkpt
  <2> QED  BY <2>1, <2>2
<1>3. MarkOK => ParkedAtCheckpoint
  BY DEF MarkOK, Marked, Resting, ParkedAtCheckpoint
<1> QED  BY <1>1, <1>2, <1>3, BaseHolds, DrivingHolds, PTL DEF Spec

(* The threads, each working on its own copy of the row, implement the      *)
(* abstract session: every step is one of its moves or leaves it alone.     *)
THEOREM ImplementsLifecycle ==
  ASSUME SoleStepper
  PROVE  Spec => Lifecycle
<1>1. Init => LC!Init
  BY DEF Init, Created, LC!Init
<1>2. ASSUME Base, AtCursor, CountOK, [Next]_vars
      PROVE  [LC!Next]_(LC!vars)
  <2>1. ASSUME NEW t \in Threads, Step(t) PROVE [LC!Next]_(LC!vars)
    <3>1. CASE Moved(t)
      <4>1. goal[t] # "recovering"
        BY <1>2, <3>1 DEF Moved, Transition, Base, Sane, Aims
      <4>2. goal[t] = "completed" => row.processed = Groups
        BY <1>2, <3>1 DEF Moved, Transition, CountOK
      <4> QED  BY <3>1, <4>1, <4>2
               DEF Moved, RowBut, Transitions, LC!Next, LC!Move
    <3>2. CASE Advanced(t)
      <4>1. row.status \in {"running", "failed"} /\ row.owner = Id(t) /\ Streaming(t)
        BY <1>2, <3>2 DEF Advanced, Commit, CountOK, Base, Sane, Holds, Streaming
      <4>2. row.processed < Groups
        BY <1>2, <3>2, <4>1 DEF Advanced, AtCursor, CountOK
      <4> QED  BY <3>2, <4>1, <4>2 DEF Advanced, RowBut, LC!Next, LC!Advance
    <3>3. CASE ~Moved(t) /\ ~Advanced(t)
      BY <1>2, <2>1, <3>3, RowEffects
         DEF PointedAt, Taken, Failed, Released, RowBut, LC!vars
    <3> QED  BY <3>1, <3>2, <3>3
  <2>2. CASE ~ \E t \in Threads : Step(t)
    BY <1>2, <2>2, QuietSteps DEF LC!vars
  <2> QED  BY <2>1, <2>2
<1> QED  BY <1>1, <1>2, BaseHolds, DrivingHolds, PTL DEF Spec, Lifecycle, LC!Spec

-----------------------------------------------------------------------------
(* The transition log.                                                      *)

(* What was recorded of the transitions, and what is about to be. *)
Entry(t) == [version |-> snap[t].version, to |-> snap[t].status]
Recording == { t \in Threads : pc[t] = "record" }
Passed == log \cup { Entry(t) : t \in Recording }

(* The newest of S led to s, or there is none. *)
LeadTo(S, s) ==
  \/ S = {} /\ s = "created"
  \/ \E e \in S : e.to = s /\ \A f \in S \ {e} : f.version < e.version

Preceding(e) == { f \in Passed : f.version < e.version }
Told ==
  /\ \A e \in Passed : e.version <= row.version
  /\ LeadTo(Passed, row.status)
  /\ \A e \in Passed : \E s \in Statuses : LeadTo(Preceding(e), s) /\ e.to \in Transitions[s]

ToldInv == used.crashes = 0 => Told

LEMMA LeadToLast ==
  ASSUME NEW S, S \subseteq [version : Nat, to : Statuses], NEW s, LeadTo(S, s)
  PROVE  LastStatus(S) = s
<1>1. CASE S = {}
  BY <1>1 DEF LeadTo, LastStatus
<1>2. CASE S # {}
  <2>1. PICK e \in S : e.to = s /\ \A f \in S \ {e} : f.version < e.version
    BY <1>2 DEF LeadTo
  <2>2. \A f \in S : f.version <= e.version
    BY <2>1
  <2>3. \A f \in S : (\A g \in S : g.version <= f.version) => f = e
    BY <2>1
  <2>4. Newest(S) = e
    BY <2>2, <2>3 DEF Newest
  <2> QED  BY <1>2, <2>1, <2>4 DEF LastStatus
<1> QED  BY <1>1, <1>2

LEMMA PassedTypes == TInv => Passed \subseteq [version : Nat, to : Statuses]
  BY TInvParts DEF Passed, Recording, Entry, DbTypes, LocalInv, LocalTypes, Rows

(* A write through a fresh copy makes the next version. *)
LEMMA WriteVersion ==
  ASSUME NEW t \in Threads, NEW new \in Rows, Write(t, new)
  PROVE  row'.version = snap[t].version + 1
  BY DEF Write, Rows

LEMMA FreshVersion ==
  ASSUME Base, NEW t \in Threads, NEW new \in Rows, Fresh(t), Write(t, new)
  PROVE  row'.version = row.version + 1
<1>1. snap[t] = row
  BY FreshIsRow DEF Base
<1> QED  BY <1>1, WriteVersion

LEMMA VersionCounts ==
  ASSUME Base, NEW t \in Threads, Step(t)
  PROVE  UNCHANGED row \/ row'.version = row.version + 1
<1>0. LocalInv /\ DbTypes
  BY TInvParts DEF Base
<1>1. CASE Transition(t)
  <2>1. CASE goal[t] \in Transitions[snap[t].status] /\ Fresh(t)
    <3>1. Write(t, [snap[t] EXCEPT !.status = goal[t]])
      BY <1>1, <2>1 DEF Transition
    <3>2. [snap[t] EXCEPT !.status = goal[t]] \in Rows
      BY <1>0, <2>1, <3>1, Writes
    <3>3. row'.version = row.version + 1
      BY <2>1, <3>1, <3>2, FreshVersion
    <3> QED  BY <3>3
  <2> QED  BY <1>1, <2>1 DEF Transition, db
<1>2. CASE CkptPoint(t)
  <2>1. CASE Fresh(t)
    <3>1. Write(t, Pointed(t))
      BY <1>2, <2>1 DEF CkptPoint
    <3>2. Pointed(t) \in Rows
      BY <1>0, <3>1, Writes
    <3>3. row'.version = row.version + 1
      BY <2>1, <3>1, <3>2, FreshVersion
    <3> QED  BY <3>3
  <2> QED  BY <1>2, <2>1 DEF CkptPoint, db
<1>3. CASE Acquire(t)
  <2>1. CASE Fresh(t) /\ ~Leased(t)
    <3>1. Write(t, [snap[t] EXCEPT !.owner = Id(t)])
      BY <1>3, <2>1 DEF Acquire
    <3>2. [snap[t] EXCEPT !.owner = Id(t)] \in Rows
      BY <1>0, <3>1, Writes
    <3>3. row'.version = row.version + 1
      BY <2>1, <3>1, <3>2, FreshVersion
    <3> QED  BY <3>3
  <2> QED  BY <1>3, <2>1 DEF Acquire, db
<1>4. CASE Commit(t)
  <2>1. CASE Fresh(t)
    <3>1. Write(t, [snap[t] EXCEPT !.cursor = at[t] + 1, !.processed = @ + 1]) /\ at[t] < Groups
      BY <1>0, <1>4, <2>1 DEF Commit, LocalInv, Located
    <3>2. [snap[t] EXCEPT !.cursor = at[t] + 1, !.processed = @ + 1] \in Rows
      BY <1>0, <3>1, Writes
    <3>3. row'.version = row.version + 1
      BY <2>1, <3>1, <3>2, FreshVersion
    <3> QED  BY <3>3
  <2> QED  BY <1>4, <2>1 DEF Commit, db
<1>5. CASE FailSave(t)
  <2>1. CASE Fresh(t)
    <3>1. Write(t, WithFailure(t))
      BY <1>5, <2>1 DEF FailSave
    <3>2. WithFailure(t) \in Rows
      BY <1>0, <3>1, Writes
    <3>3. row'.version = row.version + 1
      BY <2>1, <3>1, <3>2, FreshVersion
    <3> QED  BY <3>3
  <2> QED  BY <1>5, <2>1 DEF FailSave, db
<1>6. CASE ReleaseSave(t)
  <2>1. row' = row \/ row' = [row EXCEPT !.owner = NoOwner, !.version = @ + 1]
    BY <1>6, FreshIsRow DEF ReleaseSave, Base
  <2>2. row \in Rows
    BY <1>0 DEF DbTypes
  <2>3. row' = row \/ row'.version = row.version + 1
    BY <2>1, <2>2 DEF Rows
  <2> QED  BY <2>3
<1>7. CASE ~(\/ Transition(t) \/ CkptPoint(t) \/ Acquire(t) \/ Commit(t)
             \/ FailSave(t) \/ ReleaseSave(t))
  <2>1. UNCHANGED row
    BY <1>7 DEF Step, Record, CkptRead, CkptSave, RunRead, Loop, StoreOutputs, StepEnd,
                FailRead, Release, db
  <2> QED  BY <2>1
<1> QED  BY <1>1, <1>2, <1>3, <1>4, <1>5, <1>6, <1>7

LEMMA VersionGrows ==
  ASSUME Base, NEW t \in Threads, Step(t)
  PROVE  row'.version >= row.version
<1>1. row.version \in Nat
  BY TInvParts DEF Base, DbTypes, Rows
<1>2. UNCHANGED row \/ row'.version = row.version + 1
  BY VersionCounts
<1> QED  BY <1>1, <1>2

(* Every write to the session is based on the row it replaces (save_session *)
(* compares row_version): versions follow each other without a gap, so that *)
(* no update is lost, a status moves along TRANSITIONS (state_machine.py)   *)
(* from what it really is and not from what its writer once read, and the   *)
(* count of groups grows by one and never in a write that moves the status. *)
(* That is so for any number of step requests, with crashes, errors and     *)
(* leases that run out under their holder; ImplementsLifecycle says more,   *)
(* but only of one step request at a time.                                  *)
NoUpdateLost ==
  [][row' # row =>
       /\ row'.version = row.version + 1
       /\ \/ UNCHANGED row.status /\ row'.processed \in {row.processed, row.processed + 1}
          \/ UNCHANGED row.processed /\ row'.status \in Transitions[row.status]]_vars

THEOREM UpdatesAreNotLost == Spec => NoUpdateLost
<1>1. ASSUME Base, [Next]_vars, row' # row
      PROVE  /\ row'.version = row.version + 1
             /\ \/ row'.status = row.status
                   /\ row'.processed \in {row.processed, row.processed + 1}
                \/ row'.processed = row.processed /\ row'.status \in Transitions[row.status]
  <2>1. PICK t \in Threads : Step(t)
    BY <1>1, QuietSteps
  <2>2. row'.version = row.version + 1
    BY <1>1, <2>1, VersionCounts
  <2>3. \/ Moved(t) \/ PointedAt(t) \/ Taken(t) \/ Advanced(t) \/ Failed(t) \/ Released(t)
    BY <1>1, <2>1, RowEffects
  <2>4. CASE Moved(t)
    BY <2>2, <2>4 DEF Moved, RowBut
  <2>5. CASE ~Moved(t)
    BY <2>2, <2>3, <2>5 DEF PointedAt, Taken, Advanced, Failed, Released, RowBut
  <2> QED  BY <2>4, <2>5
<1>2. Base /\ [Next]_vars =>
        (row' # row =>
           /\ row'.version = row.version + 1
           /\ \/ UNCHANGED row.status /\ row'.processed \in {row.processed, row.processed + 1}
              \/ UNCHANGED row.processed /\ row'.status \in Transitions[row.status])
  BY <1>1
<1> QED  BY <1>2, BaseHolds, PTL DEF Spec, NoUpdateLost

(* The other steps neither enter a recording nor leave one, save by a crash. *)
LEMMA PassedRests ==
  ASSUME UNCHANGED log,
         \A u \in Threads : (pc'[u] = "record") <=> (pc[u] = "record"),
         \A u \in Threads : pc[u] = "record" => snap'[u] = snap[u]
  PROVE  Passed' = Passed
<1>1. Recording' = Recording
  BY DEF Recording
<1>2. \A u \in Recording : Entry(u)' = Entry(u)
  BY DEF Entry, Recording
<1> QED  BY <1>1, <1>2 DEF Passed

LEMMA ToldRests ==
  ASSUME Told, Passed' = Passed, row'.status = row.status, TInv,
         row'.version \in Nat, row'.version >= row.version
  PROVE  Told'
<1>1. Passed \subseteq [version : Nat, to : Statuses] /\ row.version \in Nat
  BY PassedTypes, TInvParts DEF DbTypes, Rows
<1>2. \A e \in Passed' : e.version <= row'.version
  BY <1>1 DEF Told
<1>3. LeadTo(Passed', row'.status)
  BY DEF Told
<1>4. \A e : Preceding(e)' = Preceding(e)
  BY DEF Preceding
<1> QED  BY <1>2, <1>3, <1>4 DEF Told, LeadTo

LEMMA MovedIsTold ==
  ASSUME Base, Told, NEW t \in Threads, Moved(t), Step(t)
  PROVE  Told'
<1> USE TInvParts DEF Base, LocalInv
<1> DEFINE new == [version |-> row'.version, to |-> row'.status]
<1>1. /\ goal[t] \in Transitions[row.status] /\ row'.status = goal[t]
      /\ row.status \in Statuses /\ row.version \in Nat /\ pc[t] = "transition"
  BY DEF Moved, Transition, DbTypes, Rows
<1>2. Write(t, [snap[t] EXCEPT !.status = goal[t]]) /\ pc'[t] = "record" /\ UNCHANGED log
  <2>1. Fresh(t)
    BY DEF Moved, Fresh
  <2>2. goal[t] \in Transitions[snap[t].status]
    BY DEF Moved
  <2> QED  BY <2>1, <2>2 DEF Moved, Transition, Goto, LocalTypes
<1>3. row' = snap'[t] /\ row'.version = row.version + 1
  <2>1. [snap[t] EXCEPT !.status = goal[t]] \in Rows /\ SameBut(t, {"status"})
    BY <1>2, Writes DEF Moved
  <2>2. row'.version = snap[t].version + 1
    BY <1>2, <2>1, WriteVersion
  <2> QED  BY <2>1, <2>2 DEF Moved, SameBut
<1>4. Passed' = Passed \cup {new}
  <2>1. Others(t)
    BY StepOthers
  <2>2. Recording' = Recording \cup {t} /\ t \notin Recording
    BY <1>1, <1>2, <2>1 DEF Recording, Others
  <2>3. \A u \in Recording : Entry(u)' = Entry(u)
    BY <2>1, <2>2 DEF Entry, Others, Recording
  <2>4. Entry(t)' = new
    BY <1>3 DEF Entry
  <2>5. { Entry(u)' : u \in Recording' } = { Entry(u) : u \in Recording } \cup {new}
    <3> HIDE DEF new
    <3> QED  BY <2>2, <2>3, <2>4
  <2> QED  BY <1>2, <2>5 DEF Passed
<1>5. /\ Passed \subseteq [version : Nat, to : Statuses]
      /\ \A e \in Passed : e.version <= row.version
  BY PassedTypes DEF Told
<1>6. new.version = row.version + 1 /\ new.to = row'.status
  BY <1>3
<1> HIDE DEF new
<1>7. \A e \in Passed' : e.version <= row'.version
  BY <1>1, <1>3, <1>4, <1>5, <1>6
<1>8. LeadTo(Passed', row'.status)
  <2>1. \A f \in Passed' \ {new} : f.version < new.version
    BY <1>1, <1>4, <1>5, <1>6
  <2>2. new \in Passed'
    BY <1>4
  <2> QED  BY <1>6, <2>1, <2>2 DEF LeadTo
<1>9. ASSUME NEW e \in Passed'
      PROVE  \E s \in Statuses :
               LeadTo({ f \in Passed' : f.version < e.version }, s) /\ e.to \in Transitions[s]
  <2>1. CASE e = new
    <3>1. { f \in Passed' : f.version < e.version } = Passed
      BY <1>1, <1>4, <1>5, <1>6, <2>1
    <3>2. LeadTo(Passed, row.status)
      BY DEF Told
    <3> QED  BY <1>1, <1>6, <2>1, <3>1, <3>2
  <2>2. CASE e # new
    <3>1. e \in Passed
      BY <1>4, <2>2
    <3>2. e.version \in Nat /\ e.version <= row.version
      BY <1>5, <3>1
    <3>3. { f \in Passed' : f.version < e.version } = Preceding(e)
      BY <1>1, <1>4, <1>6, <3>2 DEF Preceding
    <3> QED  BY <3>1, <3>3 DEF Told
  <2> QED  BY <2>1, <2>2
<1>10. \A e : Preceding(e)' = { f \in Passed' : f.version < e.version }
  BY DEF Preceding
<1> QED  BY <1>7, <1>8, <1>9, <1>10 DEF Told, LeadTo

LEMMA RecordIsTold ==
  ASSUME Base, Told, NEW t \in Threads, Record(t), Step(t)
  PROVE  Told'
<1> USE TInvParts DEF Base, LocalInv
<1>1. pc[t] = "record" /\ log' = log \cup {Entry(t)} /\ UNCHANGED row /\ pc'[t] # "record"
  BY DEF Record, TransitionRecords, AfterRecord, Goto, Finish, Entry, LocalTypes
<1>2. Others(t)
  BY StepOthers
<1>3. Recording = Recording' \cup {t} /\ t \notin Recording'
  BY <1>1, <1>2 DEF Recording, Others
<1>4. \A u \in Recording' : Entry(u)' = Entry(u)
  BY <1>2, <1>3 DEF Entry, Others, Recording
<1>5. { Entry(u) : u \in Recording } = { Entry(u)' : u \in Recording' } \cup {Entry(t)}
  BY <1>3, <1>4
<1>6. Passed' = Passed
  BY <1>1, <1>5 DEF Passed
<1>7. row.version \in Nat
  BY DEF DbTypes, Rows
<1> QED  BY <1>1, <1>6, <1>7, ToldRests

LEMMA StepIsTold ==
  ASSUME Base, Told, NEW t \in Threads, Step(t)
  PROVE  Told'
<1> USE TInvParts DEF Base, LocalInv
<1>1. CASE Moved(t)
  BY <1>1, MovedIsTold
<1>2. CASE Record(t)
  BY <1>2, RecordIsTold
<1>3. CASE ~Moved(t) /\ ~Record(t)
  <2>1. row'.status = row.status /\ row'.version >= row.version /\ row'.version \in Nat
    <3>1. row' \in Rows
      BY NextTInv DEF Next, Base, DbTypes
    <3> QED  BY <1>3, <3>1, RowEffects, VersionGrows
             DEF PointedAt, Taken, Advanced, Failed, Released, RowBut, Rows
  <2>2. UNCHANGED log /\ pc[t] # "record" /\ pc'[t] # "record"
    <3>1. CASE Transition(t)
      <4>1. Raise(t) /\ UNCHANGED db /\ pc[t] = "transition"
        BY <1>3, <3>1, ActionEffects DEF Transition
      <4> QED  BY <4>1 DEF Raise, Finish, Goto, LocalTypes, db
    <3>2. CASE CkptRead(t) \/ CkptSave(t) \/ CkptPoint(t)
      BY <3>2 DEF CkptRead, CkptSave, CkptPoint, Raise, Finish, Goto, LocalTypes, db
    <3>3. CASE RunRead(t) \/ Acquire(t)
      BY <3>3 DEF RunRead, Acquire, Finish, Goto, LocalTypes, db
    <3>4. CASE Loop(t)
      BY <3>4 DEF Loop, Goto, LocalTypes, db
    <3>5. CASE Commit(t)
      BY <3>5 DEF Commit, Raise, Finish, Goto, LocalTypes, db
    <3>6. CASE StoreOutputs(t) \/ StepEnd(t)
      BY <3>6 DEF StoreOutputs, StepEnd, Goto, LocalTypes, db
    <3>7. CASE FailRead(t) \/ FailSave(t)
      BY <3>7 DEF FailRead, FailSave, Raise, Finish, Goto, LocalTypes, db
    <3>8. CASE Release(t) \/ ReleaseSave(t)
      BY <3>8 DEF Release, ReleaseSave, Finish, Goto, LocalTypes, db
    <3> QED  BY <1>3, <3>1, <3>2, <3>3, <3>4, <3>5, <3>6, <3>7, <3>8 DEF Step
  <2>3. Passed' = Passed
    <3>1. Others(t)
      BY StepOthers
    <3> QED  BY <2>2, <3>1, PassedRests DEF Others
  <2> QED  BY <2>1, <2>3, ToldRests
<1> QED  BY <1>1, <1>2, <1>3

LEMMA OtherStepsAreTold ==
  ASSUME Base, ToldInv, [Next]_vars, ~ \E t \in Threads : Step(t)
  PROVE  ToldInv'
<1> USE TInvParts DEF Base, LocalInv
<1>1. \A k \in Kinds : used[k] \in Nat /\ used'[k] >= used[k]
  <2>1. used \in [Kinds -> Nat]
    OBVIOUS
  <2>2. UNCHANGED used \/ \E k \in Kinds : Spend(k)
    BY DEF Next, Call, Command, Poll, Error, Crash, LeaseExpires, vars, Kinds
  <2> QED  BY <2>1, <2>2 DEF Spend
<1>2. ASSUME NEW t \in Threads, Crash(t) PROVE used'.crashes > 0
  BY <1>1, <1>2 DEF Crash, Spend, Kinds
<1>3. ASSUME ~ \E t \in Threads : Crash(t)
      PROVE  Passed' = Passed
  <2> DEFINE Quiet(t) == /\ UNCHANGED log /\ pc[t] # "record" /\ pc'[t] # "record"
                         /\ Others(t)
  <2>1. ASSUME NEW c \in Callers, Command(c) PROVE Quiet(c)
    <3>1. c \in Threads
      BY DEF Threads
    <3>2. Others(c)
      BY <2>1, <3>1, FinishOthers DEF Command, Goto, KeepLocals, Others, LocalTypes
    <3> QED  BY <2>1, <3>1, <3>2 DEF Command, Finish, Goto, KeepLocals, LocalTypes, db
  <2>2. ASSUME NEW c \in Callers, NEW k \in Commands, Call(c, k) PROVE Quiet(c)
    <3>1. c \in Threads
      BY DEF Threads
    <3> QED  BY <2>2, <3>1 DEF Call, Goto, Others, LocalTypes, db
  <2>3. ASSUME NEW w \in Workers, Poll(w) PROVE Quiet(w)
    <3>1. w \in Threads
      BY DEF Threads
    <3> QED  BY <2>3, <3>1 DEF Poll, Goto, Others, LocalTypes, db
  <2>4. ASSUME NEW t \in Threads, Error(t) PROVE Quiet(t)
    <3>1. Others(t)
      BY <2>4, RaiseOthers DEF Error
    <3> QED  BY <2>4, <3>1 DEF Error, Raise, Finish, Goto, LocalTypes, db
  <2>5. CASE LeaseExpires \/ UNCHANGED vars
    BY <2>5, PassedRests DEF LeaseExpires, vars
  <2>6. ASSUME NEW t \in Threads, Quiet(t) PROVE Passed' = Passed
    BY <2>6, PassedRests DEF Others
  <2> HIDE DEF Quiet
  <2> QED  BY <1>3, <2>1, <2>2, <2>3, <2>4, <2>5, <2>6 DEF Next, Threads
<1>4. UNCHANGED row /\ row.version \in Nat /\ row.version >= row.version
  BY QuietSteps DEF DbTypes, Rows
<1>5. used'.crashes = 0 => used.crashes = 0 /\ Told'
  <2> SUFFICES ASSUME used'.crashes = 0 PROVE used.crashes = 0 /\ Told'
    OBVIOUS
  <2>1. used.crashes = 0
    BY <1>1 DEF Kinds
  <2>2. Passed' = Passed
    BY <1>2, <1>3
  <2> QED  BY <1>4, <2>1, <2>2, ToldRests DEF ToldInv
<1> QED  BY <1>5 DEF ToldInv

(* The log tells the whole history of the session, in legal steps, once     *)
(* nobody is about to write to it, however commands, workers, errors and    *)
(* lease overruns interleave (coordinator.py:139).                          *)
THEOREM TheTrailIsWhole == Spec => []AuditTrail
<1>1. Init => ToldInv
  <2> SUFFICES ASSUME Init PROVE Told
    BY DEF ToldInv
  <2>1. Passed = {} /\ row.status = "created"
    BY DEF Init, Created, Passed, Recording
  <2> QED  BY <2>1 DEF Told, LeadTo
<1>2. ASSUME Base, ToldInv, [Next]_vars PROVE ToldInv'
  <2>1. ASSUME NEW t \in Threads, Step(t) PROVE ToldInv'
    <3>1. UNCHANGED used
      BY <2>1 DEF Step, Transition, Record, CkptRead, CkptSave, CkptPoint, RunRead, Acquire,
                  Loop, Commit, StoreOutputs, StepEnd, FailRead, FailSave, Release, ReleaseSave
    <3> QED  BY <1>2, <2>1, <3>1, StepIsTold DEF ToldInv
  <2> QED  BY <1>2, <2>1, OtherStepsAreTold
<1>3. Base /\ ToldInv => AuditTrail
  <2> SUFFICES ASSUME Base, Told, \A t \in Threads : pc[t] # "record"
               PROVE  /\ LastStatus(log) = row.status
                      /\ \A e \in log : e.to \in Transitions[LastStatus(Before(e))]
    BY DEF ToldInv, AuditTrail
  <2>1. Passed = log /\ log \subseteq [version : Nat, to : Statuses]
    BY TInvParts DEF Passed, Recording, Base, DbTypes
  <2>2. LastStatus(log) = row.status
    BY <2>1, LeadToLast DEF Told
  <2>3. ASSUME NEW e \in log PROVE e.to \in Transitions[LastStatus(Before(e))]
    <3>1. PICK s \in Statuses : LeadTo(Preceding(e), s) /\ e.to \in Transitions[s]
      BY <2>1 DEF Told
    <3>2. Preceding(e) = Before(e) /\ Before(e) \subseteq [version : Nat, to : Statuses]
      BY <2>1 DEF Preceding, Before
    <3>3. LastStatus(Before(e)) = s
      BY <3>1, <3>2, LeadToLast
    <3> QED  BY <3>1, <3>3
  <2> QED  BY <2>2, <2>3
<1> QED  BY <1>1, <1>2, <1>3, BaseHolds, PTL DEF Spec

-----------------------------------------------------------------------------
(* The outputs.                                                             *)

(* As long as nothing failed, committed outputs are stored or in hand. *)
InHandOutputs(g) == \E t \in Threads : pc[t] = "outputs" /\ at[t] = g
OutputsOK ==
  /\ outputs \subseteq 1..row.cursor
  /\ used.crashes = 0 /\ used.errors = 0 =>
       \A g \in 1..row.cursor : g \in outputs \/ InHandOutputs(g)

LEMMA StepOutputs ==
  ASSUME Driving, OutputsOK, NEW t \in Threads, Step(t)
  PROVE  OutputsOK'
<1> USE TInvParts DEF Driving, Base, LocalInv, LocalTypes
<1>0. Others(t) /\ row.cursor \in 0..Groups /\ UNCHANGED used
  <2>1. UNCHANGED used
    BY DEF Step, Transition, Record, CkptRead, CkptSave, CkptPoint, RunRead, Acquire,
           Loop, Commit, StoreOutputs, StepEnd, FailRead, FailSave, Release, ReleaseSave
  <2> QED  BY <2>1, StepOthers DEF DbTypes, Rows
<1>1. CASE Advanced(t)
  <2>1. Streaming(t) /\ row.owner = Id(t)
    BY <1>1 DEF Advanced, Commit, Streaming, Sane, Holds
  <2>2. row'.cursor = row.cursor + 1 /\ at'[t] = row'.cursor
    BY <1>1, <2>1 DEF Advanced, AtCursor
  <2>3. pc[t] = "process" /\ pc'[t] = "outputs" /\ UNCHANGED outputs
    <3>1. Fresh(t)
      BY <1>1 DEF Advanced, Fresh
    <3> QED  BY <1>1, <3>1 DEF Advanced, Commit, Goto
  <2>4. ASSUME NEW g, g = row'.cursor PROVE InHandOutputs(g)'
    BY <2>2, <2>3, <2>4 DEF InHandOutputs
  <2>5. ASSUME NEW g \in 1..row.cursor, InHandOutputs(g) PROVE InHandOutputs(g)'
    BY <1>0, <2>3, <2>5 DEF InHandOutputs, Others
  <2>6. 1..row'.cursor = 1..row.cursor \cup {row'.cursor}
    BY <1>0, <2>2
  <2>7. outputs' \subseteq 1..row'.cursor
    BY <2>3, <2>6 DEF OutputsOK
  <2>8. used'.crashes = 0 /\ used'.errors = 0 =>
          \A k \in 1..row'.cursor : k \in outputs' \/ InHandOutputs(k)'
    BY <1>0, <2>3, <2>4, <2>5, <2>6 DEF OutputsOK
  <2> QED  BY <2>7, <2>8 DEF OutputsOK, InHandOutputs
<1>2. CASE ~Advanced(t)
  <2>1. row'.cursor = row.cursor
    BY <1>2, RowEffects DEF Moved, PointedAt, Taken, Failed, Released, RowBut
  <2>2. CASE StoreOutputs(t)
    <3>1. pc[t] = "outputs" /\ outputs' = outputs \cup {at[t]} /\ at' = at
      BY <2>2 DEF StoreOutputs, GroupOutputs
    <3>2. at[t] \in 1..row.cursor
      BY <1>0, <3>1 DEF Located, AtCursor, Streaming
    <3>3. ASSUME NEW g \in 1..row.cursor, InHandOutputs(g)
          PROVE  g \in outputs' \/ InHandOutputs(g)'
      BY <1>0, <3>1, <3>3 DEF InHandOutputs, Others
    <3>4. outputs' \subseteq 1..row'.cursor
      BY <2>1, <3>1, <3>2 DEF OutputsOK
    <3>5. used'.crashes = 0 /\ used'.errors = 0 =>
            \A g \in 1..row'.cursor : g \in outputs' \/ InHandOutputs(g)'
      BY <1>0, <2>1, <3>1, <3>3 DEF OutputsOK
    <3> QED  BY <3>4, <3>5 DEF OutputsOK, InHandOutputs
  <2>3. CASE ~StoreOutputs(t)
    <3>1. UNCHANGED outputs /\ pc[t] # "outputs"
      BY <2>3 DEF Step, Transition, Record, CkptRead, CkptSave, CkptPoint, RunRead, Acquire,
                  Loop, Commit, StepEnd, FailRead, FailSave, Release, ReleaseSave, db
    <3>2. ASSUME NEW g \in 1..row.cursor, InHandOutputs(g) PROVE InHandOutputs(g)'
      BY <1>0, <3>1, <3>2 DEF InHandOutputs, Others
    <3> QED  BY <1>0, <2>1, <3>1, <3>2 DEF OutputsOK, InHandOutputs
  <2> QED  BY <2>2, <2>3
<1> QED  BY <1>1, <1>2

LEMMA OtherStepsOutputs ==
  ASSUME Base, OutputsOK, [Next]_vars, ~ \E t \in Threads : Step(t)
  PROVE  OutputsOK'
<1> USE TInvParts DEF Base, LocalInv, LocalTypes
<1>1. UNCHANGED row /\ UNCHANGED outputs
  <2>1. UNCHANGED outputs
    BY DEF Next, Command, Call, Poll, Error, Crash, LeaseExpires, vars, db
  <2> QED  BY <2>1, QuietSteps
<1>2. \A k \in Kinds : used[k] \in Nat /\ used'[k] >= used[k]
  <2>1. UNCHANGED used \/ \E k \in Kinds : Spend(k)
    BY DEF Next, Call, Command, Poll, Error, Crash, LeaseExpires, vars, Kinds
  <2> QED  BY <2>1 DEF Spend
<1>3. ASSUME NEW t \in Threads, Error(t) \/ Crash(t)
      PROVE  ~(used'.crashes = 0 /\ used'.errors = 0)
  BY <1>2, <1>3 DEF Error, Crash, Spend, Kinds
<1>4. ASSUME ~ \E t \in Threads : Error(t) \/ Crash(t), NEW u \in Threads, pc[u] = "outputs"
      PROVE  pc'[u] = "outputs" /\ at'[u] = at[u]
  BY <1>4 DEF Next, Command, Call, Poll, LeaseExpires, vars, db, Finish, Goto, KeepLocals
<1>5. used'.crashes = 0 /\ used'.errors = 0 =>
        /\ used.crashes = 0 /\ used.errors = 0
        /\ \A g \in 1..row.cursor : InHandOutputs(g) => InHandOutputs(g)'
  BY <1>2, <1>3, <1>4 DEF Kinds, InHandOutputs
<1> QED  BY <1>1, <1>5 DEF OutputsOK, InHandOutputs

(* Outputs are stored of committed groups only, and without a crash or an   *)
(* error of all of them (coordinator.py:252).                               *)
THEOREM OutputsAreOfCommits ==
  ASSUME SoleStepper
  PROVE  Spec => []OutputsFollowCommits
<1>1. Init => OutputsOK
  BY DEF Init, Created, OutputsOK
<1>2. ASSUME Base, AtCursor, CountOK, OutputsOK, [Next]_vars
      PROVE  OutputsOK'
  <2>1. ASSUME NEW t \in Threads, Step(t) PROVE OutputsOK'
    BY <1>2, <2>1, StepOutputs DEF Driving
  <2> QED  BY <1>2, <2>1, OtherStepsOutputs
<1>3. OutputsOK => OutputsFollowCommits
  BY DEF OutputsOK, InHandOutputs, OutputsFollowCommits
<1> QED  BY <1>1, <1>2, <1>3, BaseHolds, DrivingHolds, PTL DEF Spec

=============================================================================
