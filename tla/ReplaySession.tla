--------------------------- MODULE ReplaySession ---------------------------
(***************************************************************************)
(* One replay session of engines/replay_engine and everybody who writes to *)
(* it: worker processes (worker.py -> coordinator.run) and HTTP callers    *)
(* (service.py: start, pause, resume, cancel, step).  They share only the  *)
(* database.  Every repository call is one transaction and one step here;  *)
(* between two steps of a thread any other thread may run.  The session    *)
(* row carries an optimistic version: save_session writes only if the      *)
(* version it read is still the current one.                               *)
(***************************************************************************)
EXTENDS Naturals, Sequences

CONSTANTS
  Workers,          \* worker processes; a restarted worker has a new identity
  Callers,          \* concurrent HTTP requests
  Steppers,         \* the callers that may issue "step"
  NoOwner,          \* worker_id is None
  ApiStep,          \* the worker id every step request uses ("api-step")
  Groups,           \* timestamp groups in the dataset
  StepMode,         \* request.mode = STEP
  StepUnits,        \* units of one step request
  CheckpointEvery,  \* checkpoint_policy.every_events, in groups
  Limit             \* bounds: commands issued, crashes, processing errors,
                    \* and runs that outlast their 30 s lease

ASSUME GroupsAssumption == Groups \in Nat
ASSUME UnitsAssumption == StepUnits \in Nat \ {0} /\ CheckpointEvery \in Nat
ASSUME ThreadsAssumption ==
  /\ Steppers \subseteq Callers
  /\ Workers \cap Callers = {}
  /\ NoOwner \notin Workers \cup {ApiStep}
  /\ ApiStep \notin Workers
Kinds == {"calls", "crashes", "errors", "overruns"}

ASSUME LimitAssumption == Limit \in [Kinds -> Nat]

VARIABLES
  row,         \* the replay_sessions row, see Rows
  leaseLive,   \* lease_expires_at > now
  ckpts,       \* replay_checkpoints: cursor of checkpoint 1, 2, ...
  outputs,     \* replay_outputs: the groups whose outputs are stored
  log,         \* replay_transitions: [version, to]
  pc, cmd,     \* where each thread is, and what it was asked to do
  snap,        \* the session object a thread works on
  goal,        \* target of the transition (or "policy": a checkpoint only)
  key,         \* sequence number of the checkpoint being written
  at, stop,    \* groups taken from the stream, and where a step ends
  used         \* how much of Limit is spent

db   == <<row, leaseLive, ckpts, outputs, log>>
vars == <<row, leaseLive, ckpts, outputs, log,
          pc, cmd, snap, goal, key, at, stop, used>>

LC == INSTANCE ReplayLifecycle WITH status <- row.status,
                                    processed <- row.processed

Statuses == LC!Statuses
Transitions == LC!Transitions

Threads == Workers \cup Callers
Owners == Workers \cup {ApiStep}
Commands == {"start", "pause", "resume", "cancel", "step"}
(* The statuses in which the exception handler of run() fails the session. *)
Failable == {"running", "pausing", "cancelling", "resuming", "recovering"}

(* cursor stands for virtual_cursor_at and last_ordering_key, processed for *)
(* processed_events (in groups), ckpt for latest_checkpoint_id.             *)
Rows == [ status : Statuses, version : Nat, owner : Owners \cup {NoOwner},
          cursor : 0..Groups, processed : Nat, failure : BOOLEAN,
          ckpt : Nat ]

Created == [ status |-> "created", version |-> 1, owner |-> NoOwner,
             cursor |-> 0, processed |-> 0, failure |-> FALSE, ckpt |-> 0 ]
Blank == [Created EXCEPT !.version = 0]

Id(t) == IF t \in Workers THEN t ELSE ApiStep

-----------------------------------------------------------------------------
(* Thread bookkeeping.                                                      *)

Goto(t, l) == pc' = [pc EXCEPT ![t] = l]

(* The call returns or its exception reaches the caller; locals die.        *)
Finish(t) ==
  /\ Goto(t, "idle")
  /\ cmd' = [cmd EXCEPT ![t] = "none"]
  /\ snap' = [snap EXCEPT ![t] = Blank]
  /\ goal' = [goal EXCEPT ![t] = "none"]
  /\ key' = [key EXCEPT ![t] = 0]
  /\ at' = [at EXCEPT ![t] = 0]
  /\ stop' = [stop EXCEPT ![t] = 0]

KeepLocals == UNCHANGED <<cmd, snap, goal, key, at, stop>>

(* A thread is under run()'s try once it holds the lease; a step request    *)
(* still has start or resume ahead of it before that.                       *)
Running(t) ==
  /\ cmd[t] \in {"worker", "step"}
  /\ goal[t] \notin {"running", "resuming"}

(* An exception: the handler of run(), the finally clause when the handler  *)
(* itself was failing the session, or the caller.                           *)
Raise(t) ==
  IF Running(t)
    THEN Goto(t, IF goal[t] = "failed" THEN "release" ELSE "failRead") /\ KeepLocals
    ELSE Finish(t)

Spend(kind) ==
  /\ used[kind] < Limit[kind]
  /\ used' = [used EXCEPT ![kind] = @ + 1]

(* repository.save_session: compare row_version, then write. *)
Fresh_Unchecked(t) == TRUE                         \* deviation: no check
Fresh(t) == row.version = snap[t].version
Write(t, new) ==
  LET saved == [new EXCEPT !.version = snap[t].version + 1]
  IN row' = saved /\ snap' = [snap EXCEPT ![t] = saved]

-----------------------------------------------------------------------------
(* Commands: service.py.                                                    *)

Call(c, k) ==
  /\ pc[c] = "idle"
  /\ k = "step" => c \in Steppers /\ StepMode
  /\ Spend("calls")
  /\ Goto(c, "command")
  /\ cmd' = [cmd EXCEPT ![c] = k]
  /\ UNCHANGED <<db, snap, goal, key, at, stop>>

(* The first transition a command asks for from the status it reads, or     *)
(* "return"/"run"/"reject" when there is none.                              *)
FirstGoal(k, s) ==
  CASE k = "start"  -> IF s = "running" THEN "return" ELSE "running"
    [] k = "pause"  -> IF s \in {"pausing", "paused"} THEN "return" ELSE "pausing"
    [] k = "resume" -> IF s = "running" THEN "return" ELSE "resuming"
    [] k = "cancel" -> IF s \in {"cancelled", "completed", "failed"}
                         THEN "return" ELSE "cancelling"
    [] k = "step"   -> CASE s = "ready"   -> "running"
                         [] s = "paused"  -> "resuming"
                         [] s = "running" -> "run"
                         [] OTHER         -> "return"

Command(c) ==
  /\ pc[c] = "command"
  /\ LET g == FirstGoal(cmd[c], row.status)
     IN CASE g = "return" -> Finish(c)
          [] g = "run"    -> Goto(c, "run") /\ KeepLocals
          [] OTHER -> /\ Goto(c, "transition")
                      /\ snap' = [snap EXCEPT ![c] = row]
                      /\ goal' = [goal EXCEPT ![c] = g]
                      /\ UNCHANGED <<cmd, key, at, stop>>
  /\ UNCHANGED <<db, used>>

-----------------------------------------------------------------------------
(* coordinator.transition: validate, save the row, then save the record.    *)

Transition(t) ==
  /\ pc[t] = "transition"
  /\ IF goal[t] \in Transitions[snap[t].status] /\ Fresh(t)
       THEN /\ Write(t, [snap[t] EXCEPT !.status = goal[t]])
            /\ Goto(t, "record")
            /\ UNCHANGED <<leaseLive, ckpts, outputs, log, cmd, goal, key, at, stop>>
       ELSE Raise(t) /\ UNCHANGED db
  /\ UNCHANGED used

(* pause and cancel park the session themselves only when no worker will.   *)
Unattended_Never(t) == FALSE                    \* deviation: nobody parks
Unattended(t) == snap[t].owner = NoOwner

(* What follows the transition to snap[t].status: the tail of create,       *)
(* pause, resume, cancel, step and run.                                     *)
AfterRecord(t) ==
  LET s == snap[t].status
      driven == cmd[t] \in {"worker", "step"}
      parks == driven \/ Unattended(t)
      Next(l, g) == /\ Goto(t, l)
                    /\ goal' = [goal EXCEPT ![t] = g]
                    /\ UNCHANGED <<cmd, snap, key, at, stop>>
  IN CASE s = "validating"                -> Next("transition", "ready")
       [] s = "resuming"                  -> Next("transition", "running")
       [] s = "running" /\ cmd[t] = "step" -> Next("run", "none")
       [] s = "pausing" /\ parks          -> Next("ckptRead", "paused")
       [] s = "cancelling" /\ parks       -> Next("ckptRead", "cancelled")
       [] s \in {"paused", "cancelled", "completed", "failed"} /\ driven
                                          -> Next("release", goal[t])
       [] OTHER                           -> Finish(t)

TransitionRecords_None(t) == {}                 \* deviation: not recorded
TransitionRecords(t) == {[version |-> snap[t].version, to |-> snap[t].status]}

Record(t) ==
  /\ pc[t] = "record"
  /\ log' = log \cup TransitionRecords(t)
  /\ AfterRecord(t)
  /\ UNCHANGED <<row, leaseLive, ckpts, outputs, used>>

-----------------------------------------------------------------------------
(* coordinator._checkpoint: read the newest sequence number, insert the     *)
(* next one (unique per session), point the row at it.                      *)

CkptRead(t) ==
  /\ pc[t] = "ckptRead"
  /\ key' = [key EXCEPT ![t] = Len(ckpts) + 1]
  /\ Goto(t, "ckptSave")
  /\ UNCHANGED <<db, cmd, snap, goal, at, stop, used>>

CkptSave(t) ==
  /\ pc[t] = "ckptSave"
  /\ IF key[t] = Len(ckpts) + 1
       THEN /\ ckpts' = Append(ckpts, snap[t].cursor)
            /\ Goto(t, "ckptPoint")
            /\ KeepLocals
       ELSE Raise(t) /\ UNCHANGED ckpts
  /\ UNCHANGED <<row, leaseLive, outputs, log, used>>

Pointed_Unmoved(t) == snap[t]                   \* deviation: row not updated
Pointed(t) == [snap[t] EXCEPT !.ckpt = key[t]]

CkptPoint(t) ==
  /\ pc[t] = "ckptPoint"
  /\ IF Fresh(t)
       THEN /\ Write(t, Pointed(t))
            /\ Goto(t, IF goal[t] = "policy"
                         THEN IF at[t] = stop[t] THEN "stepEnd" ELSE "loop"
                         ELSE "transition")
            /\ goal' = [goal EXCEPT ![t] = IF @ = "policy" THEN "none" ELSE @]
            /\ UNCHANGED <<leaseLive, ckpts, outputs, log, cmd, key, at, stop>>
       ELSE Raise(t) /\ UNCHANGED db
  /\ UNCHANGED used

-----------------------------------------------------------------------------
(* coordinator.run.                                                         *)

(* worker.run_once lists the RUNNING sessions and runs them. *)
Poll(w) ==
  /\ pc[w] = "idle"
  /\ row.status = "running"
  /\ Goto(w, "run")
  /\ cmd' = [cmd EXCEPT ![w] = "worker"]
  /\ UNCHANGED <<db, snap, goal, key, at, stop, used>>

RunRead(t) ==
  /\ pc[t] = "run"
  /\ IF row.status = "running"
       THEN /\ Goto(t, "acquire")
            /\ snap' = [snap EXCEPT ![t] = row]
            /\ UNCHANGED <<cmd, goal, key, at, stop>>
       ELSE Finish(t)
  /\ UNCHANGED <<db, used>>

(* repository.acquire_lease.  The lease it reads is the one the version     *)
(* check confirms, so read and write are one step.  The stream starts after *)
(* the last committed ordering key.                                         *)
Leased_Forever(t) == row.owner \notin {NoOwner, Id(t)}    \* deviation: no expiry
Leased(t) == leaseLive /\ row.owner \notin {NoOwner, Id(t)}

StreamStart_Zero(t) == 0                        \* deviation: cursor ignored
StreamStart(t) == snap[t].cursor

Acquire(t) ==
  /\ pc[t] = "acquire"
  /\ IF Fresh(t) /\ ~Leased(t)
       THEN /\ Write(t, [snap[t] EXCEPT !.owner = Id(t)])
            /\ leaseLive' = TRUE
            /\ at' = [at EXCEPT ![t] = StreamStart(t)]
            /\ stop' = [stop EXCEPT ![t] = IF cmd[t] = "step"
                                             THEN snap[t].cursor + StepUnits
                                             ELSE Groups + 1]
            /\ Goto(t, "loop")
            /\ UNCHANGED <<ckpts, outputs, log, cmd, goal, key>>
       ELSE Finish(t) /\ UNCHANGED db
  /\ UNCHANGED used

Exhausted_Early(t) == at[t] + 1 >= Groups       \* deviation: off by one
Exhausted(t) == at[t] = Groups

LeaseLost_Unnoticed(t) == FALSE                 \* deviation: owner not checked
LeaseLost(t) == row.owner # Id(t)

(* Top of the loop: the session is read again; a lost lease raises, a       *)
(* pending cancel or pause is served at this boundary.  When the stream is  *)
(* exhausted the session is read for completion, and nothing else checked.  *)
Loop(t) ==
  LET Park(g) == Goto(t, "ckptRead") /\ goal' = [goal EXCEPT ![t] = g]
      Stay(l) == Goto(t, l) /\ UNCHANGED goal
  IN
  /\ pc[t] = "loop"
  /\ snap' = [snap EXCEPT ![t] = row]
  /\ IF Exhausted(t) THEN Park("completed")
     ELSE IF LeaseLost(t) THEN Stay("failRead")
     ELSE CASE row.status = "cancelling" -> Park("cancelled")
            [] row.status = "pausing"    -> Park("paused")
            [] OTHER                     -> Stay("process")
  /\ UNCHANGED <<db, cmd, key, at, stop, used>>

(* _process_group: the engines have run on group at[t]+1; commit it. *)
Commit(t) ==
  /\ pc[t] = "process"
  /\ IF Fresh(t)
       THEN /\ Write(t, [snap[t] EXCEPT !.cursor = at[t] + 1,
                                        !.processed = @ + 1])
            /\ at' = [at EXCEPT ![t] = @ + 1]
            /\ Goto(t, "outputs")
            /\ UNCHANGED <<leaseLive, ckpts, outputs, log, cmd, goal, key, stop>>
       ELSE Raise(t) /\ UNCHANGED db
  /\ UNCHANGED used

(* save_outputs, then the policy checkpoint (counted from zero, so due on   *)
(* every group once every_events have been processed) or the end of a step. *)
CheckpointDue(t) == snap[t].processed >= CheckpointEvery

GroupOutputs_Lost(t) == {}                      \* deviation: not saved
GroupOutputs_Next(t) == {at[t] + 1}             \* deviation: wrong group
GroupOutputs(t) == {at[t]}

StoreOutputs(t) ==
  /\ pc[t] = "outputs"
  /\ outputs' = outputs \cup GroupOutputs(t)
  /\ IF CheckpointDue(t)
       THEN Goto(t, "ckptRead") /\ goal' = [goal EXCEPT ![t] = "policy"]
       ELSE /\ Goto(t, IF at[t] = stop[t] THEN "stepEnd" ELSE "loop")
            /\ UNCHANGED goal
  /\ UNCHANGED <<row, leaseLive, ckpts, log, cmd, snap, key, at, stop, used>>

StepEnd(t) ==
  /\ pc[t] = "stepEnd"
  /\ Goto(t, "transition")
  /\ goal' = [goal EXCEPT ![t] = "pausing"]
  /\ UNCHANGED <<db, cmd, snap, key, at, stop, used>>

(* The exception handler: record the failure, then fail the session.        *)
FailRead(t) ==
  /\ pc[t] = "failRead"
  /\ snap' = [snap EXCEPT ![t] = row]
  /\ Goto(t, "failSave")
  /\ goal' = [goal EXCEPT ![t] = "failed"]
  /\ UNCHANGED <<db, cmd, key, at, stop, used>>

WithFailure_Missing(t) == snap[t]               \* deviation: no reason kept
WithFailure(t) == [snap[t] EXCEPT !.failure = TRUE]

FailSave(t) ==
  /\ pc[t] = "failSave"
  /\ IF Fresh(t)
       THEN /\ Write(t, WithFailure(t))
            /\ Goto(t, IF snap[t].status \in Failable THEN "transition" ELSE "release")
            /\ UNCHANGED <<leaseLive, ckpts, outputs, log, cmd, goal, key, at, stop>>
       ELSE Raise(t) /\ UNCHANGED db
  /\ UNCHANGED used

(* The finally clause: release the lease if it is still ours.               *)
Release(t) ==
  /\ pc[t] = "release"
  /\ IF row.owner = Id(t)
       THEN /\ snap' = [snap EXCEPT ![t] = row]
            /\ Goto(t, "releaseSave")
            /\ UNCHANGED <<cmd, goal, key, at, stop>>
       ELSE Finish(t)
  /\ UNCHANGED <<db, used>>

ReleaseSave(t) ==
  /\ pc[t] = "releaseSave"
  /\ IF Fresh(t)
       THEN /\ row' = [snap[t] EXCEPT !.owner = NoOwner, !.version = @ + 1]
            /\ leaseLive' = FALSE
       ELSE UNCHANGED <<row, leaseLive>>
  /\ Finish(t)
  /\ UNCHANGED <<ckpts, outputs, log, used>>

-----------------------------------------------------------------------------
(* The environment.                                                         *)

(* An engine, the source or the output table fails: an exception in run().  *)
Error(t) ==
  /\ pc[t] \in {"process", "outputs"}
  /\ Spend("errors")
  /\ Raise(t)
  /\ UNCHANGED db

(* The process of t dies; its work and its locals are gone, the rows stay.  *)
Crash(t) ==
  /\ pc[t] \notin {"idle", "dead"}
  /\ Spend("crashes")
  /\ Goto(t, "dead")
  /\ cmd' = [cmd EXCEPT ![t] = "none"]
  /\ snap' = [snap EXCEPT ![t] = Blank]
  /\ goal' = [goal EXCEPT ![t] = "none"]
  /\ key' = [key EXCEPT ![t] = 0]
  /\ at' = [at EXCEPT ![t] = 0]
  /\ stop' = [stop EXCEPT ![t] = 0]
  /\ UNCHANGED db

(* lease_seconds pass without a renewal (run() never calls renew_lease).    *)
HolderAlive == \E t \in Threads : Id(t) = row.owner /\ pc[t] \notin {"idle", "dead"}

LeaseExpires ==
  /\ leaseLive
  /\ IF HolderAlive THEN Spend("overruns") ELSE UNCHANGED used
  /\ leaseLive' = FALSE
  /\ UNCHANGED <<row, ckpts, outputs, log,
                 pc, cmd, snap, goal, key, at, stop>>

-----------------------------------------------------------------------------
(* The session row has just been inserted by the creating request, which    *)
(* goes on to validate it.                                                  *)
Init ==
  /\ row = Created
  /\ leaseLive = FALSE
  /\ ckpts = << >>
  /\ outputs = {}
  /\ log = {}
  /\ key = [t \in Threads |-> 0]
  /\ at = [t \in Threads |-> 0]
  /\ stop = [t \in Threads |-> 0]
  /\ used = [k \in Kinds |-> 0]
  /\ \E c \in Callers :
       /\ pc = [t \in Threads |-> IF t = c THEN "transition" ELSE "idle"]
       /\ cmd = [t \in Threads |-> IF t = c THEN "create" ELSE "none"]
       /\ snap = [t \in Threads |-> IF t = c THEN Created ELSE Blank]
       /\ goal = [t \in Threads |-> IF t = c THEN "validating" ELSE "none"]

(* The steps a live thread takes by itself. *)
Step(t) ==
  \/ Transition(t) \/ Record(t)
  \/ CkptRead(t) \/ CkptSave(t) \/ CkptPoint(t)
  \/ RunRead(t) \/ Acquire(t) \/ Loop(t) \/ Commit(t) \/ StoreOutputs(t)
  \/ StepEnd(t) \/ FailRead(t) \/ FailSave(t) \/ Release(t) \/ ReleaseSave(t)

Next ==
  \/ \E c \in Callers : Command(c) \/ \E k \in Commands : Call(c, k)
  \/ \E w \in Workers : Poll(w)
  \/ \E t \in Threads : Step(t) \/ Error(t) \/ Crash(t)
  \/ LeaseExpires

Spec == Init /\ [][Next]_vars

(* Live workers keep polling, live threads keep running and time passes;    *)
(* callers, errors and crashes owe nothing.                                 *)
Fairness ==
  /\ \A w \in Workers : WF_vars(Poll(w) \/ Step(w))
  /\ \A c \in Callers : WF_vars(Command(c) \/ Step(c))
  /\ WF_vars(LeaseExpires)

FairSpec == Spec /\ Fairness

-----------------------------------------------------------------------------
(* Properties.                                                              *)

Places == {"idle", "dead", "command", "transition", "record", "ckptRead",
           "ckptSave", "ckptPoint", "run", "acquire", "loop", "process",
           "outputs", "stepEnd", "failRead", "failSave", "release",
           "releaseSave"}

TypeOK ==
  /\ row \in Rows
  /\ leaseLive \in BOOLEAN
  /\ ckpts \in Seq(0..Groups)
  /\ outputs \in SUBSET (1..Groups)
  /\ log \in SUBSET [version : Nat, to : Statuses]
  /\ pc \in [Threads -> Places]
  /\ cmd \in [Threads -> Commands \cup {"worker", "create", "none"}]
  /\ snap \in [Threads -> Rows]
  /\ goal \in [Threads -> Statuses \cup {"policy", "none"}]
  /\ key \in [Threads -> Nat]
  /\ at \in [Threads -> 0..Groups]
  /\ stop \in [Threads -> Nat]
  /\ used \in [Kinds -> Nat]

(* Every committed group was committed exactly once and in order: the count *)
(* of processed groups is the position of the cursor.  (The cursor is set   *)
(* from the worker's stream, the count is incremented, coordinator.py:236.) *)
ExactlyOnce == row.processed = row.cursor

(* A session that rests points at a checkpoint taken exactly where it       *)
(* rests, whoever parked it: the worker at a group boundary or the API when *)
(* no worker is there (coordinator.py:170-175, service.py:116-118).         *)
ParkedAtCheckpoint ==
  row.status \in {"paused", "cancelled", "completed"} =>
    /\ row.ckpt \in 1..Len(ckpts)
    /\ ckpts[row.ckpt] = row.cursor

(* The source is exhausted for whoever completes the session, so all of it  *)
(* is committed, even if the completer no longer holds the lease            *)
(* (coordinator.py:190-192 checks neither owner nor status).                *)
CompletedMeansAll == row.status = "completed" => row.processed = Groups

(* A failed session always tells why (coordinator.py:195-203).              *)
FailureRecorded == row.status = "failed" => row.failure

(* Outputs are stored only for committed groups; and as long as no process  *)
(* died and nothing failed, every committed group has its outputs stored or *)
(* about to be (coordinator.py:252-255).                                    *)
OutputsFollowCommits ==
  /\ outputs \subseteq 1..row.cursor
  /\ used.crashes = 0 /\ used.errors = 0 =>
       \A g \in 1..row.cursor :
         g \in outputs \/ \E t \in Threads : pc[t] = "outputs" /\ at[t] = g

(* The transition log tells the whole history once nobody is about to write *)
(* to it and no process died: each entry follows legally from the one       *)
(* before, and the newest is the current status (coordinator.py:139-148).   *)
Before(e) == { f \in log : f.version < e.version }
Newest(S) == CHOOSE e \in S : \A f \in S : f.version <= e.version
LastStatus(S) == IF S = {} THEN "created" ELSE Newest(S).to

AuditTrail ==
  used.crashes = 0 /\ (\A t \in Threads : pc[t] # "record") =>
    /\ LastStatus(log) = row.status
    /\ \A e \in log : e.to \in Transitions[LastStatus(Before(e))]

(* Only the worker named by the row commits a group: a worker that lost its *)
(* lease cannot add to what its successor is doing.                         *)
OwnerCommits ==
  [][row'.processed # row.processed =>
       \E t \in Threads : /\ pc[t] = "process" /\ pc'[t] = "outputs"
                          /\ row.owner = Id(t)]_vars

(* All threads together implement the abstract session.                     *)
Lifecycle == LC!Spec

(* A started session does not stay RUNNING: some worker finishes, parks or  *)
(* fails it, even when the worker that held it died, because the lease      *)
(* expires and another worker takes over.                                   *)
RunningEnds == (row.status = "running") ~> (row.status # "running")

Faults == used.crashes + used.errors + used.overruns

(* REPLAY_ENGINE.md:17, "Pause and cancel take effect at safe event-group   *)
(* boundaries": a requested pause or cancel is not left pending, unless a   *)
(* process died, an engine failed or a worker outlived its lease.           *)
PauseTakesEffect ==
  (row.status \in {"pausing", "cancelling"}) ~>
  (row.status \notin {"pausing", "cancelling"} \/ Faults > 0)

(* The same sentence: pausing or cancelling is not a failure.  With no      *)
(* crash and no processing error, nothing should fail the session.          *)
NoSpuriousFailure ==
  used.crashes = 0 /\ used.errors = 0 => row.status # "failed"

(* REPLAY_ENGINE.md:19, output references are durable and recovery does not *)
(* lose committed work: a completed session has the outputs of every group. *)
CompletedHasOutputs == row.status = "completed" => outputs = 1..Groups
=============================================================================
