---------------------------- MODULE CalendarSync ----------------------------
(***************************************************************************)
(* Synchronisation of engines/economic_calendar_engine over PostgreSQL:    *)
(* one instance polls a provider (service.py, _poll and synchronize), maps *)
(* what it observed to a canonical event, appends a revision for every     *)
(* change, stores the event, takes a snapshot and a checkpoint.  Reads of  *)
(* the past undo the revisions that came later (repository.py).  One event *)
(* of one provider; publications and retention are left out.               *)
(***************************************************************************)
EXTENDS Naturals, Sequences, SequencesExt, FiniteSets, FiniteSetsExt

CONSTANTS
  Contents,   \* what the provider may say of the event
  MaxFetches, \* bounds the fetches of a behaviour
  MaxFaults   \* and its crashes and errors

Schedules == {"tentative", "today", "later"}
Content == [schedule : Schedules, value : {"none", "first", "revised"}, importance : {"low", "high"}]

(* What the constants are, assumed where they get their values. *)
CalendarAssumption == Contents \subseteq Content /\ MaxFetches \in Nat /\ MaxFaults \in Nat

VARIABLES
  clock,         \* grows with every fetch
  observations,  \* economic_calendar_observations
  calendar,      \* economic_calendar_events by canonical id
  revisions,     \* economic_calendar_revisions of each event
  identity,      \* _identity of the provider's event: its canonical id
  checkpoint,    \* the identity in the stored checkpoint
  sync,          \* where the synchronisation is, and with what
  delay,         \* the interval chosen after the last one
  faults         \* errors, crashes, and the crashes that lost an identity

vars == <<clock, observations, calendar, revisions, identity, checkpoint, sync, delay, faults>>

(* An event's id is made from the day for which it was first scheduled.     *)
Ids == Schedules

Unknown == [schedule |-> "tentative", value |-> "none", importance |-> "none", status |-> "none"]
NoRow == [content |-> Unknown, at |-> 0]
Known == { id \in Ids : calendar[id] # NoRow }
Idle == [pc |-> "idle", boundary |-> 0, at |-> 0, item |-> Unknown]

At(pc) == sync.pc = pc
Goto(pc) == sync' = [sync EXCEPT !.pc = pc]

-----------------------------------------------------------------------------
(* One synchronisation.                                                     *)

(* The boundary is read before anything is fetched.                         *)
Begin ==
  /\ At("idle") /\ clock < MaxFetches
  /\ sync' = [Idle EXCEPT !.pc = "fetch", !.boundary = clock]
  /\ UNCHANGED <<clock, observations, calendar, revisions, identity, checkpoint, delay, faults>>

(* An observation of a public source is available from the moment the       *)
(* source is asked, hence after the boundary.                               *)
Fetch ==
  /\ At("fetch")
  /\ clock' = clock + 1
  /\ \E c \in Contents :
       sync' = [sync EXCEPT !.pc = "observe", !.at = clock', !.item =
                  [schedule |-> c.schedule, value |-> c.value, importance |-> c.importance,
                   status |-> "none"]]
  /\ UNCHANGED <<observations, calendar, revisions, identity, checkpoint, delay, faults>>

(* A failing provider has no observations, which is not an error.           *)
FetchNothing ==
  /\ At("fetch")
  /\ Goto("snapshot")
  /\ UNCHANGED <<clock, observations, calendar, revisions, identity, checkpoint, delay, faults>>

Observe ==
  /\ At("observe")
  /\ observations' = observations \cup {[at |-> sync.at, content |-> sync.item]}
  /\ Goto("normalize")
  /\ UNCHANGED <<clock, calendar, revisions, identity, checkpoint, delay, faults>>

(* A provider's event keeps its id when its schedule moves.                 *)
Canonical == IF identity = "none" THEN sync.item.schedule ELSE identity

Status(item) ==
  CASE item.value # "none"           -> "released"
    [] item.schedule = "tentative"   -> "tentative"
    [] OTHER                         -> "scheduled"

Moved ==
  /\ identity \in Known
  /\ calendar[identity].content.schedule # sync.item.schedule

Normalize ==
  /\ At("normalize")
  /\ identity' = Canonical
  /\ sync' = [sync EXCEPT !.pc = "revise",
                          !.item.status = IF Moved THEN "rescheduled" ELSE Status(sync.item)]
  /\ UNCHANGED <<clock, observations, calendar, revisions, checkpoint, delay, faults>>

(* Any change of a tracked field makes a revision; so does the discovery.   *)
Tracked_Values(was, is) ==                 \* deviation: a moved schedule is not tracked
  was.value # is.value \/ was.status = "none"
Changed(was, is) == was # is

Revise ==
  LET was == calendar[identity].content
  IN /\ At("revise")
     /\ revisions' = IF Changed(was, sync.item)
          THEN [revisions EXCEPT ![identity] =
                 Append(@, [at |-> sync.at, was |-> was, is |-> sync.item])]
          ELSE revisions
     /\ Goto("store")
     /\ UNCHANGED <<clock, observations, calendar, identity, checkpoint, delay, faults>>

(* The event is stored whether it changed or not, with the time of the      *)
(* newest observation.                                                      *)
Store ==
  /\ At("store")
  /\ calendar' = [calendar EXCEPT ![identity] = [content |-> sync.item, at |-> sync.at]]
  /\ Goto("snapshot")
  /\ UNCHANGED <<clock, observations, revisions, identity, checkpoint, delay, faults>>

(* list_events and build_snapshot: what is available at the boundary.       *)
Listed(boundary) == { id \in Known : calendar[id].at <= boundary }

Near(content) == content.schedule = "today" /\ content.importance = "high"
NextDelay ==
  IF \E id \in Listed(sync.boundary) : Near(calendar[id].content) THEN "adaptive" ELSE "normal"

Snapshot ==
  /\ At("snapshot")
  /\ delay' = NextDelay
  /\ Goto("checkpoint")
  /\ UNCHANGED <<clock, observations, calendar, revisions, identity, checkpoint, faults>>

Checkpoint ==
  /\ At("checkpoint")
  /\ checkpoint' = identity
  /\ Goto("idle")
  /\ UNCHANGED <<clock, observations, calendar, revisions, identity, delay, faults>>

-----------------------------------------------------------------------------
(* Failures.  Nothing that is committed is undone.                          *)

Error ==
  /\ ~At("idle") /\ faults.errors + faults.crashes < MaxFaults
  /\ faults' = [faults EXCEPT !.errors = @ + 1]
  /\ sync' = Idle
  /\ delay' = "backoff"
  /\ UNCHANGED <<clock, observations, calendar, revisions, identity, checkpoint>>

(* The process dies; the next one restores the checkpoint.                  *)
Restored_Never == "none"                   \* deviation: the checkpoint is not loaded
Restored == checkpoint

Crash ==
  /\ faults.errors + faults.crashes < MaxFaults
  /\ faults' = [faults EXCEPT !.crashes = @ + 1,
                              !.lost = @ + (IF identity # checkpoint THEN 1 ELSE 0)]
  /\ sync' = Idle
  /\ identity' = Restored
  /\ delay' = "none"
  /\ UNCHANGED <<clock, observations, calendar, revisions, checkpoint>>

-----------------------------------------------------------------------------
Init ==
  /\ clock = 0
  /\ observations = {}
  /\ calendar = [id \in Ids |-> NoRow]
  /\ revisions = [id \in Ids |-> << >>]
  /\ identity = "none" /\ checkpoint = "none"
  /\ sync = Idle
  /\ delay = "none"
  /\ faults = [errors |-> 0, crashes |-> 0, lost |-> 0]

Next ==
  \/ Begin \/ Fetch \/ FetchNothing \/ Observe \/ Normalize \/ Revise \/ Store
  \/ Snapshot \/ Checkpoint
  \/ Error \/ Crash

Spec == Init /\ [][Next]_vars

-----------------------------------------------------------------------------
(* get_event_at_boundary.                                                   *)

Visible(id, b) == id \in Known /\ \E n \in 1..Len(revisions[id]) : revisions[id][n].at <= b

Undone(id, b) == { n \in 1..Len(revisions[id]) : revisions[id][n].at > b }

ValueAt(id, b) ==
  IF Undone(id, b) = {} THEN calendar[id].content.value
                        ELSE revisions[id][Min(Undone(id, b))].was.value

(* previous_scheduled_at or state.scheduled_at: an event that had no        *)
(* schedule keeps the one it got later.                                     *)
ScheduleAt(id, b) ==
  LET dated == { n \in Undone(id, b) : revisions[id][n].was.schedule # "tentative" }
  IN IF dated = {} THEN calendar[id].content.schedule
                   ELSE revisions[id][Min(dated)].was.schedule

-----------------------------------------------------------------------------
(* Properties.                                                              *)

Places == {"idle", "fetch", "observe", "normalize", "revise", "store", "snapshot", "checkpoint"}
Items == [schedule : Schedules, value : {"none", "first", "revised"},
          importance : {"none", "low", "high"},
          status : {"none", "tentative", "scheduled", "rescheduled", "released"}]

(* Types; and every event that is stored was revised, and observed, before. *)
TypeOK ==
  /\ clock \in 0..MaxFetches
  /\ observations \subseteq [at : 1..clock, content : Items]
  /\ calendar \in [Ids -> [content : Items, at : 0..clock]]
  /\ revisions \in [Ids -> Seq([at : 1..clock, was : Items, is : Items])]
  /\ identity \in Ids \cup {"none"} /\ checkpoint \in Ids \cup {"none"}
  /\ sync \in [pc : Places, boundary : 0..clock, at : 0..clock, item : Items]
  /\ delay \in {"none", "adaptive", "normal", "backoff"}
  /\ faults \in [errors : 0..MaxFaults, crashes : 0..MaxFaults, lost : 0..MaxFaults]
  /\ \A id \in Known : /\ revisions[id] # << >>
                       /\ \E o \in observations : o.at = calendar[id].at

NoFault == faults.errors + faults.crashes = 0
Rediscovered(id, b) == \E n \in Undone(id, b) : revisions[id][n].was = Unknown

(* Why revision n + 1 follows revision n: it changes what that left, or it  *)
(* repeats it because the process failed between revision and event.        *)
Repeats(id) ==
  { n \in 1..Len(revisions[id]) - 1 : revisions[id][n + 1].was # revisions[id][n].is }

(* docs/ECONOMIC_CALENDAR_ENGINE.md, "same-provider identity is retained    *)
(* across tentative-to-exact and reschedule updates", and revisions are     *)
(* append-only: one provider's event has one canonical event, whose         *)
(* revisions lead to its row; a second one takes a restart that lost the    *)
(* identity, a repeated revision a failure between the two writes           *)
(* (service.py:333, :335).                                                  *)
OneHistory ==
  /\ Cardinality(Known) <= 1 + faults.lost
  /\ \A id \in Known :
       /\ \A n \in Repeats(id) : revisions[id][n + 1].was = revisions[id][n].was
       /\ Cardinality(Repeats(id)) <= faults.errors + faults.crashes
       /\ calendar[id].content \in {Last(revisions[id]).is, Last(revisions[id]).was}
       /\ NoFault /\ At("idle") => calendar[id].content = Last(revisions[id]).is

(* docs/ECONOMIC_CALENDAR_ENGINE.md, "Historical reads select only state    *)
(* with available_at <= as_of": for every time in the past, what is read    *)
(* back of values and schedule is what one observation said that was made   *)
(* by then (the newest, if nothing failed), save that an event which was    *)
(* tentative then shows the schedule it got (repository.py:329), and that   *)
(* nothing is known before a discovery that a failure made happen twice.    *)
PastIsKept ==
  \A id \in Known, b \in 0..clock : Visible(id, b) =>
    \/ ~NoFault /\ Rediscovered(id, b) /\ ValueAt(id, b) = "none"
    \/ \E o \in observations :
         /\ o.at <= b
         /\ o.content.value = ValueAt(id, b)
         /\ o.content.schedule \in {ScheduleAt(id, b), "tentative"}
         /\ NoFault /\ At("idle") => \A p \in observations : p.at <= b => p.at <= o.at

Seen(t) == { o \in observations : o.at = t }

(* configs/economic_calendar.yaml:124: "Public sources are refreshed        *)
(* hourly, with a five-minute adaptive interval only near high-impact" ...: *)
(* an event that was near at the last two synchronisations is refreshed     *)
(* adaptively.                                                              *)
AdaptiveNearEvents ==
  At("idle") /\ delay = "normal" /\ clock >= 2 /\ NoFault =>
    \E o \in Seen(clock) \cup Seen(clock - 1) : ~Near(o.content)
=============================================================================
