------------------------------ MODULE EventBus ------------------------------
(***************************************************************************)
(* InMemoryEventBus of events/bus.py: a publication waits for one of the   *)
(* capacity slots, runs the handlers of its event as tasks and returns     *)
(* when all have ended, or raises when one fails or the time is over.      *)
(* drain() waits for the tasks in flight; close() refuses publications     *)
(* first.  History and counters are left out.                              *)
(***************************************************************************)
EXTENDS Naturals, Sequences, FiniteSets

CONSTANTS
  Publications,  \* calls of publish()
  Handlers,      \* subscribers of the event
  Capacity

(* What the constants are, assumed where they get their values. *)
BusAssumption == Capacity \in Nat \ {0}

VARIABLES
  closed,    \* _closed
  place,     \* where each publication is
  queue,     \* the waiters of the semaphore, first come first served
  task,      \* the handler tasks of each publication
  inflight,  \* _inflight
  stop       \* a call of drain() or close(), and what it found

vars == <<closed, place, queue, task, inflight, stop>>

Tasks(p) == {p} \X Handlers
In(where) == { p \in Publications : place[p] = where }
Is(p, outcome) == \E h \in Handlers : task[p][h] = outcome

-----------------------------------------------------------------------------
(* Publications.                                                            *)

Refuses_Never == FALSE          \* deviation: _closed is not looked at
Refuses == closed

Refuse(p) ==
  /\ place[p] = "new" /\ Refuses
  /\ place' = [place EXCEPT ![p] = "refused"]
  /\ UNCHANGED <<closed, queue, task, inflight, stop>>

Full == Cardinality(In("running")) = Capacity

Wait(p) ==
  /\ place[p] = "new" /\ ~Refuses
  /\ Full \/ queue # << >>
  /\ place' = [place EXCEPT ![p] = "waiting"]
  /\ queue' = Append(queue, p)
  /\ UNCHANGED <<closed, task, inflight, stop>>

(* Nothing is awaited from the slot to the tasks.  A publication that had   *)
(* to wait does not look at _closed again.                                  *)
Enter(p) ==
  /\ ~Full
  /\ \/ place[p] = "new" /\ ~Refuses /\ queue = << >> /\ UNCHANGED queue
     \/ place[p] = "waiting" /\ p = Head(queue) /\ queue' = Tail(queue)
  /\ place' = [place EXCEPT ![p] = "running"]
  /\ task' = [task EXCEPT ![p] = [h \in Handlers |-> "running"]]
  /\ inflight' = inflight \cup Tasks(p)
  /\ UNCHANGED <<closed, stop>>

Handle(p, h) ==
  /\ task[p][h] = "running"
  /\ \E outcome \in {"done", "failed"} : task' = [task EXCEPT ![p][h] = outcome]
  /\ UNCHANGED <<closed, place, queue, inflight, stop>>

(* gather: all have ended, or the first has failed, which its siblings do   *)
(* not notice; the finally clause forgets them all.                         *)
Leave(p) ==
  /\ place[p] = "running"
  /\ Is(p, "failed") \/ ~Is(p, "running")
  /\ place' = [place EXCEPT ![p] = "ended"]
  /\ inflight' = inflight \ Tasks(p)
  /\ UNCHANGED <<closed, queue, task, stop>>

(* wait_for, or a publisher that is cancelled itself, cancels the handlers. *)
Cancel(p) ==
  /\ place[p] = "running" /\ Is(p, "running") /\ ~Is(p, "failed")
  /\ task' = [task EXCEPT ![p] = [h \in Handlers |->
                IF task[p][h] = "running" THEN "cancelled" ELSE task[p][h]]]
  /\ place' = [place EXCEPT ![p] = "ended"]
  /\ inflight' = inflight \ Tasks(p)
  /\ UNCHANGED <<closed, queue, stop>>

-----------------------------------------------------------------------------
(* Shutdown: main.py drains, a replay closes.                               *)

Stop ==
  /\ stop.pc = "none"
  /\ closed' \in BOOLEAN
  /\ stop' = [pc |-> "waiting", tasks |-> inflight,
              accepted |-> In("running"), queued |-> In("waiting")]
  /\ UNCHANGED <<place, queue, task, inflight>>

Stopped ==
  /\ stop.pc = "waiting"
  /\ \A t \in stop.tasks : task[t[1]][t[2]] # "running"
  /\ stop' = [stop EXCEPT !.pc = "returned"]
  /\ UNCHANGED <<closed, place, queue, task, inflight>>

-----------------------------------------------------------------------------
Init ==
  /\ closed = FALSE
  /\ place = [p \in Publications |-> "new"]
  /\ queue = << >>
  /\ task = [p \in Publications |-> [h \in Handlers |-> "none"]]
  /\ inflight = {}
  /\ stop = [pc |-> "none", tasks |-> {}, accepted |-> {}, queued |-> {}]

Next ==
  \/ \E p \in Publications :
       Refuse(p) \/ Wait(p) \/ Enter(p) \/ Leave(p) \/ Cancel(p)
  \/ \E p \in Publications, h \in Handlers : Handle(p, h)
  \/ Stop \/ Stopped

Spec == Init /\ [][Next]_vars

-----------------------------------------------------------------------------
(* Properties.                                                              *)

(* Types; what is in flight belongs to a publication that holds a slot.     *)
TypeOK ==
  /\ closed \in BOOLEAN
  /\ place \in [Publications -> {"new", "refused", "waiting", "running", "ended"}]
  /\ queue \in Seq(In("waiting")) /\ Len(queue) = Cardinality(In("waiting"))
  /\ task \in [Publications -> [Handlers -> {"none", "running", "done", "failed", "cancelled"}]]
  /\ inflight = UNION { Tasks(p) : p \in In("running") }
  /\ Cardinality(In("running")) <= Capacity
  /\ stop \in [pc : {"none", "waiting", "returned"}, tasks : SUBSET (Publications \X Handlers),
               accepted : SUBSET Publications, queued : SUBSET Publications]

(* bus.py:25, :29: drain() waits for accepted publications, close() also    *)
(* stops accepting new ones.  What still runs when the call has returned is *)
(* the sibling of a handler that failed (bus.py:79), belongs to a           *)
(* publication that was waiting for capacity (bus.py:61), or was published  *)
(* after drain().                                                           *)
StopWaits ==
  stop.pc = "returned" =>
    \A p \in Publications : Is(p, "running") =>
      \/ Is(p, "failed") /\ place[p] = "ended"
      \/ p \in stop.queued
      \/ ~closed /\ p \notin stop.accepted
=============================================================================
