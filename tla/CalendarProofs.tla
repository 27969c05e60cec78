--------------------------- MODULE CalendarProofs ---------------------------
(***************************************************************************)
(* Proofs about the economic calendar of InProcess, for any contents, any  *)
(* number of fetches and any number of errors and crashes.                 *)
(***************************************************************************)
EXTENDS InProcess, FiniteSetTheorems, SequenceTheorems, WellFoundedInduction, TLAPS

USE InProcessAssumption DEF Cal!CalendarAssumption

LEMMA CalSteps ==
  ASSUME [Next]_vars
  PROVE  Cal!Next \/ UNCHANGED calVars
  BY DEF Next, vars

-----------------------------------------------------------------------------
(* The revisions of an event.                                               *)

Ids == Cal!Ids
Items == Cal!Items
Revisions == [at : Nat, was : Items, is : Items]
Revised(id) == 1..Len(revisions[id])
Rev(id, n) == revisions[id][n]
LastOf(id) == revisions[id][Len(revisions[id])]
Content(id) == calendar[id].content

(* An item says what an observation said; its status is the normaliser's.   *)
Agree(a, b) == a.value = b.value /\ a.schedule = b.schedule

CalTypes ==
  /\ clock \in Nat
  /\ observations \subseteq [at : 1..clock, content : Items]
  /\ calendar \in [Ids -> [content : Items, at : 0..clock]]
  /\ revisions \in [Ids -> Seq(Revisions)]
  /\ \A id \in Ids : \A n \in Revised(id) : Rev(id, n).at \in 1..clock
  /\ identity \in Ids \cup {"none"} /\ checkpoint \in {"none", identity}
  /\ sync \in [pc : Cal!Places, boundary : 0..clock, at : 0..clock, item : Items]
  /\ faults \in [errors : Nat, crashes : Nat, lost : Nat]

(* What the synchronisation has in hand: an observation newer than all      *)
(* revisions until it is revised.                                           *)
Fresh ==
  /\ sync.at = clock /\ clock > 0
  /\ \A id \in Ids : \A n \in Revised(id) : Rev(id, n).at < clock
InHand ==
  /\ sync.pc = "observe" => Fresh /\ \A o \in observations : o.at < clock
  /\ sync.pc \in {"normalize", "revise"} => Fresh
  /\ sync.pc \in {"normalize", "revise", "store"} =>
       /\ \A o \in observations : o.at = sync.at => Agree(o.content, sync.item)
       /\ \E o \in observations : o.at = sync.at
  /\ sync.pc \in {"revise", "store"} => identity \in Ids /\ sync.item.status # "none"
  /\ sync.pc = "store" =>
       /\ revisions[identity] # << >>
       /\ LastOf(identity).is = sync.item \/ Content(identity) = sync.item

(* Revisions are in the order of their observations, and each undoes to     *)
(* what an earlier one led to.                                              *)
Ordered(id) ==
  \A m, n \in Revised(id) : m < n => Rev(id, m).at < Rev(id, n).at
Chained(id) ==
  \A n \in Revised(id) :
    /\ Rev(id, n).is.status # "none"
    /\ n > 1 => Rev(id, n).was \in {Rev(id, n - 1).is, Rev(id, n - 1).was}
    /\ Rev(id, n).was = Cal!Unknown \/ \E m \in 1..(n - 1) : Rev(id, n).was = Rev(id, m).is
    /\ \E o \in observations : o.at = Rev(id, n).at /\ Agree(o.content, Rev(id, n).is)

(* The row of an event is what its revisions lead to, or what the last one  *)
(* was made of.                                                             *)
Led(id) ==
  /\ calendar[id] # Cal!NoRow =>
       /\ revisions[id] # << >> /\ Content(id).status # "none"
       /\ \E o \in observations : o.at = calendar[id].at
  /\ revisions[id] # << >> => Content(id) \in {LastOf(id).is, LastOf(id).was}

(* A revision without its event, and who is to blame for it.                *)
Owed(id) ==
  /\ revisions[id] # << >> /\ LastOf(id).is # Content(id)
  /\ ~(sync.pc = "store" /\ identity = id /\ LastOf(id).is = sync.item)
Failures == faults.errors + faults.crashes
Paid(id) == Cardinality(Cal!Repeats(id)) + (IF Owed(id) THEN 1 ELSE 0) <= Failures

(* An identity is lost by a crash only.                                     *)
Named == Cal!Known \cup ({identity} \ {"none"})
Retained == Cardinality(Named) <= faults.lost + IF identity = "none" THEN 0 ELSE 1

(* Without failures there is one event, and its revisions account for every *)
(* observation that was revised.                                            *)
Done(o) == o.at = sync.at => sync.pc \notin {"normalize", "revise"}
Accounted(o) ==
  /\ identity \in Ids
  /\ \E n \in Revised(identity) :
       /\ Rev(identity, n).at <= o.at /\ Agree(o.content, Rev(identity, n).is)
       /\ n + 1 \in Revised(identity) => o.at < Rev(identity, n + 1).at
Undisturbed ==
  Failures = 0 =>
    /\ faults.lost = 0
    /\ \A id \in Ids : revisions[id] # << >> => id = identity
    /\ \A o \in observations : Done(o) => Accounted(o)

CalInv ==
  /\ CalTypes /\ InHand
  /\ \A id \in Ids : Ordered(id) /\ Chained(id) /\ Led(id) /\ Paid(id)
  /\ Retained /\ Undisturbed

Histories == \A id \in Ids : Ordered(id) /\ Chained(id) /\ Led(id) /\ Paid(id)

LEMMA CalParts == CalInv <=> CalTypes /\ InHand /\ Histories /\ Retained /\ Undisturbed
  BY DEF CalInv, Histories

-----------------------------------------------------------------------------
(* Facts about the data.                                                    *)

LEMMA CalendarData ==
  /\ Cal!Unknown \in Items /\ Cal!Unknown.status = "none" /\ Cal!Unknown.value = "none"
  /\ Ids = {"tentative", "today", "later"} /\ "none" \notin Ids
  /\ IsFiniteSet(Ids)
  <1>1. IsFiniteSet({"tentative", "today", "later"})
    <2>1. /\ {"tentative", "today"} = {"tentative"} \cup {"today"}
          /\ {"tentative", "today", "later"} = {"tentative", "today"} \cup {"later"}
      OBVIOUS
    <2>2. IsFiniteSet({"tentative"})
      BY FS_Singleton
    <2>3. IsFiniteSet({"tentative", "today"})
      BY <2>1, <2>2, FS_AddElement
    <2> QED BY <2>1, <2>3, FS_AddElement
  <1> QED BY <1>1 DEF Cal!Unknown, Items, Cal!Items, Cal!Schedules, Ids, Cal!Ids

LEMMA RevisionIs ==
  ASSUME CalTypes, NEW id \in Ids
  PROVE  /\ Len(revisions[id]) \in Nat
         /\ revisions[id] # << >> <=> Len(revisions[id]) > 0
         /\ \A n \in Revised(id) : Rev(id, n) \in Revisions /\ Rev(id, n).at \in 1..clock
  BY LenProperties, EmptySeq, ElementOfSeq DEF CalTypes, Revised, Rev

LEMMA RepeatsAreFinite ==
  ASSUME CalTypes, NEW id \in Ids
  PROVE  IsFiniteSet(Cal!Repeats(id)) /\ Cardinality(Cal!Repeats(id)) \in Nat
  <1>1. Len(revisions[id]) \in Nat
    BY RevisionIs
  <1>2. IsFiniteSet(1..(Len(revisions[id]) - 1))
    BY <1>1, FS_Interval
  <1> QED BY <1>2, FS_Subset, FS_CardinalityType DEF Cal!Repeats

LEMMA NamedIsFinite ==
  ASSUME CalTypes
  PROVE  IsFiniteSet(Named) /\ Cardinality(Named) \in Nat /\ Named \subseteq Ids
  <1>1. Named \subseteq Ids
    BY DEF Named, Cal!Known, CalTypes, Ids
  <1> QED BY <1>1, CalendarData, FS_Subset, FS_CardinalityType

LEMMA FailuresAreCounted == CalTypes => Failures \in Nat /\ faults.lost \in Nat
  BY DEF CalTypes, Failures

LEMMA ChainKept ==
  ASSUME NEW id, Chained(id), revisions'[id] = revisions[id], observations' = observations
  PROVE  Chained(id)'
  <1>1. Revised(id)' = Revised(id) /\ \A m, n : m = n => (Rev(id, m))' = Rev(id, n)
    BY DEF Revised, Rev
  <1> QED BY <1>1 DEF Chained

-----------------------------------------------------------------------------
(* Steps that leave observations, revisions and events alone.               *)

LEMMA HistoriesRest ==
  ASSUME CalTypes, CalTypes', Histories, UNCHANGED <<observations, calendar, revisions>>,
         Failures' >= Failures,
         \A id \in Ids : Owed(id)' => Owed(id) \/ Failures' > Failures
  PROVE  Histories'
  <1> SUFFICES ASSUME NEW id \in Ids PROVE Ordered(id)' /\ Chained(id)' /\ Led(id)' /\ Paid(id)'
    BY DEF Histories
  <1>1. Ordered(id) /\ Chained(id) /\ Led(id) /\ Paid(id)
    BY DEF Histories
  <1>2. Ordered(id)' /\ Chained(id)'
    BY <1>1 DEF Ordered, Chained, Revised, Rev
  <1>3. Led(id)'
    BY <1>1 DEF Led, Content, LastOf
  <1>4. Paid(id)'
    <2>1. Cal!Repeats(id)' = Cal!Repeats(id)
      BY DEF Cal!Repeats
    <2>2. Cardinality(Cal!Repeats(id)) \in Nat /\ Failures \in Nat /\ Failures' \in Nat
      <3>1. Cardinality(Cal!Repeats(id)) \in Nat
        BY RepeatsAreFinite
      <3>2. faults \in [errors : Nat, crashes : Nat, lost : Nat]
            /\ faults' \in [errors : Nat, crashes : Nat, lost : Nat]
        BY DEF CalTypes
      <3> QED BY <3>1, <3>2 DEF Failures
    <2>3. Cardinality(Cal!Repeats(id)) + (IF Owed(id) THEN 1 ELSE 0) <= Failures
      BY <1>1 DEF Paid
    <2>4. Cardinality(Cal!Repeats(id)) + (IF Owed(id)' THEN 1 ELSE 0) <= Failures'
      BY <2>2, <2>3
    <2> QED BY <2>1, <2>4 DEF Paid
  <1> QED BY <1>2, <1>3, <1>4

LEMMA UndisturbedRests ==
  ASSUME Undisturbed, UNCHANGED <<observations, revisions, identity, faults>>,
         \A o \in observations : Done(o)' => Done(o)
  PROVE  Undisturbed'
  BY DEF Undisturbed, Failures, Accounted, Revised, Rev

LEMMA RetainedRests ==
  ASSUME Retained, UNCHANGED <<calendar, identity, faults>>
  PROVE  Retained'
  BY DEF Retained, Named, Cal!Known

LEMMA CalStarts == Init => CalInv
  <1> SUFFICES ASSUME Init PROVE CalInv
    OBVIOUS
  <1> USE DEF Init, Cal!Init
  <1>1. CalTypes
    <2>1. revisions \in [Ids -> Seq(Revisions)] /\ \A id \in Ids : Revised(id) = {}
      BY EmptySeq DEF Revised, Ids
    <2>2. /\ clock = 0 /\ observations = {} /\ identity = "none" /\ checkpoint = "none"
          /\ sync = Cal!Idle /\ faults = [errors |-> 0, crashes |-> 0, lost |-> 0]
      OBVIOUS
    <2>3. calendar \in [Ids -> [content : Items, at : 0..clock]]
      BY CalendarData DEF Cal!NoRow, Ids
    <2>4. sync \in [pc : Cal!Places, boundary : 0..clock, at : 0..clock, item : Items]
      BY CalendarData DEF Cal!Idle, Cal!Places
    <2> QED BY <2>1, <2>2, <2>3, <2>4 DEF CalTypes
  <1>2. InHand
    BY DEF InHand, Cal!Idle
  <1>3. \A id \in Ids : /\ revisions[id] = << >> /\ calendar[id] = Cal!NoRow
                        /\ Revised(id) = {} /\ Cal!Repeats(id) = {}
    BY EmptySeq DEF Revised, Ids, Cal!Repeats
  <1>4. Histories
    <2>1. Failures = 0 /\ Cardinality({}) = 0
      BY FS_EmptySet DEF Failures
    <2> SUFFICES ASSUME NEW id \in Ids PROVE Ordered(id) /\ Chained(id) /\ Led(id) /\ Paid(id)
      BY DEF Histories
    <2>2. Ordered(id) /\ Chained(id) /\ Led(id)
      BY <1>3 DEF Ordered, Chained, Led
    <2>3. ~Owed(id)
      BY <1>3 DEF Owed
    <2>4. Paid(id)
      <3>1. Cardinality(Cal!Repeats(id)) = 0
        BY <1>3, <2>1
      <3> QED BY <2>1, <2>3, <3>1 DEF Paid
    <2> QED BY <2>2, <2>4
  <1>5. Retained
    <2>1. Named = {}
      BY DEF Named, Cal!Known
    <2> QED BY <2>1, FS_EmptySet DEF Retained
  <1>6. Undisturbed
    BY <1>3 DEF Undisturbed
  <1> QED BY <1>1, <1>2, <1>4, <1>5, <1>6, CalParts

-----------------------------------------------------------------------------
(* The steps of a synchronisation.                                          *)

LEMMA BeginKeeps == CalInv /\ Cal!Begin => CalInv'
  <1> SUFFICES ASSUME CalInv, Cal!Begin PROVE CalInv'
    OBVIOUS
  <1>1. CalTypes /\ InHand /\ Histories /\ Retained /\ Undisturbed
    BY CalParts
  <1>2. /\ sync.pc = "idle" /\ sync' = [Cal!Idle EXCEPT !.pc = "fetch", !.boundary = clock]
        /\ UNCHANGED <<clock, observations, calendar, revisions, identity, checkpoint, faults>>
    BY DEF Cal!Begin, Cal!At
  <1>3. /\ sync' \in [pc : Cal!Places, boundary : 0..clock, at : 0..clock, item : Items]
        /\ sync'.pc = "fetch" /\ sync'.at = 0
    <2>1. clock \in 0..clock /\ 0 \in 0..clock
      BY <1>1 DEF CalTypes
    <2>2. Cal!Idle \in [pc : Cal!Places, boundary : 0..clock, at : 0..clock, item : Items]
      BY <2>1, CalendarData DEF Cal!Idle, Cal!Places
    <2> QED BY <1>2, <2>1, <2>2 DEF Cal!Idle, Cal!Places
  <1>4. CalTypes'
    BY <1>1, <1>2, <1>3 DEF CalTypes, Revised, Rev
  <1>5. InHand'
    BY <1>3 DEF InHand
  <1>6. Histories'
    BY <1>1, <1>2, <1>4, HistoriesRest, FailuresAreCounted DEF Owed, LastOf, Content, Failures
  <1>7. Undisturbed'
    BY <1>1, <1>2, UndisturbedRests DEF Done
  <1>8. Retained'
    BY <1>1, <1>2, RetainedRests
  <1> QED BY <1>4, <1>5, <1>6, <1>7, <1>8 DEF CalInv, Histories

LEMMA FetchKeeps == CalInv /\ Cal!Fetch => CalInv'
  <1> SUFFICES ASSUME CalInv, Cal!Fetch PROVE CalInv'
    OBVIOUS
  <1>1. CalTypes /\ InHand /\ Histories /\ Retained /\ Undisturbed
    BY CalParts
  <1>2. /\ sync.pc = "fetch" /\ clock' = clock + 1
        /\ UNCHANGED <<observations, calendar, revisions, identity, checkpoint, faults>>
    BY DEF Cal!Fetch, Cal!At
  <1>3. PICK c \in Contents :
          sync' = [sync EXCEPT !.pc = "observe", !.at = clock', !.item =
                    [schedule |-> c.schedule, value |-> c.value, importance |-> c.importance,
                     status |-> "none"]]
    BY DEF Cal!Fetch
  <1>4. CalTypes'
    <2>1. [schedule |-> c.schedule, value |-> c.value, importance |-> c.importance,
           status |-> "none"] \in Items
      BY DEF Cal!Content, Items, Cal!Items
    <2>2. clock \in Nat /\ \A k \in 0..clock : k \in 0..clock'
      BY <1>1, <1>2 DEF CalTypes
    <2>3. \A k \in 1..clock : k \in 1..clock'
      BY <2>2
    <2>4. clock' \in 0..clock' /\ clock' \in Nat
      BY <1>2, <2>2
    <2>5. sync \in [pc : Cal!Places, boundary : 0..clock', at : 0..clock', item : Items]
      BY <1>1, <2>2 DEF CalTypes
    <2>6. sync' \in [pc : Cal!Places, boundary : 0..clock', at : 0..clock', item : Items]
      BY <1>3, <2>1, <2>4, <2>5 DEF Cal!Places
    <2>7. observations' \subseteq [at : 1..clock', content : Items]
      BY <1>1, <1>2, <2>3 DEF CalTypes
    <2>8. calendar' \in [Ids -> [content : Items, at : 0..clock']]
      BY <1>1, <1>2, <2>2 DEF CalTypes
    <2> QED BY <1>1, <1>2, <2>3, <2>4, <2>6, <2>7, <2>8 DEF CalTypes, Revised, Rev
  <1>5. InHand'
    <2>1. sync'.pc = "observe" /\ sync'.at = clock' /\ clock \in Nat
      BY <1>1, <1>3 DEF CalTypes
    <2>2. \A o \in observations : o.at < clock'
      BY <1>1, <1>2 DEF CalTypes
    <2>3. \A id \in Ids : \A n \in Revised(id) : Rev(id, n).at < clock'
      BY <1>1, <1>2 DEF CalTypes
    <2>4. Fresh'
      BY <1>2, <2>1, <2>3 DEF Fresh, Revised, Rev
    <2> QED BY <1>2, <2>1, <2>2, <2>4 DEF InHand
  <1>6. Histories'
    <2>1. sync'.pc = "observe"
      BY <1>1, <1>3 DEF CalTypes
    <2> QED BY <1>1, <1>2, <1>4, <2>1, HistoriesRest, FailuresAreCounted
            DEF Owed, LastOf, Content, Failures
  <1>7. Undisturbed'
    BY <1>1, <1>2, UndisturbedRests DEF Done
  <1>8. Retained'
    BY <1>1, <1>2, RetainedRests
  <1> QED BY <1>4, <1>5, <1>6, <1>7, <1>8 DEF CalInv, Histories

(* The end of a synchronisation only moves on.                              *)
LEMMA MovingOnKeeps ==
  ASSUME CalInv, NEW pc \in {"snapshot", "checkpoint", "idle"},
         sync.pc \notin {"normalize", "revise", "store"},
         sync' = [sync EXCEPT !.pc = pc],
         checkpoint' \in {checkpoint, identity},
         UNCHANGED <<clock, observations, calendar, revisions, identity, faults>>
  PROVE  CalInv'
  <1>1. CalTypes /\ InHand /\ Histories /\ Retained /\ Undisturbed
    BY CalParts
  <1>2. sync'.pc = pc /\ sync'.at = sync.at
    BY <1>1 DEF CalTypes
  <1>3. sync' \in [pc : Cal!Places, boundary : 0..clock, at : 0..clock, item : Items]
    BY <1>1 DEF CalTypes, Cal!Places
  <1>4. CalTypes'
    BY <1>1, <1>3 DEF CalTypes, Revised, Rev
  <1>5. InHand'
    BY <1>2 DEF InHand
  <1>6. Histories'
    BY <1>1, <1>2, <1>4, HistoriesRest, FailuresAreCounted DEF Owed, LastOf, Content, Failures
  <1>7. Undisturbed'
    BY <1>1, UndisturbedRests DEF Done
  <1>8. Retained'
    BY <1>1, RetainedRests
  <1> QED BY <1>4, <1>5, <1>6, <1>7, <1>8 DEF CalInv, Histories

LEMMA ObserveKeeps == CalInv /\ Cal!Observe => CalInv'
  <1> SUFFICES ASSUME CalInv, Cal!Observe PROVE CalInv'
    OBVIOUS
  <1>1. CalTypes /\ InHand /\ Histories /\ Retained /\ Undisturbed
    BY CalParts
  <1> DEFINE new == [at |-> sync.at, content |-> sync.item]
  <1>2. /\ sync.pc = "observe" /\ observations' = observations \cup {new}
        /\ sync' = [sync EXCEPT !.pc = "normalize"]
        /\ UNCHANGED <<clock, calendar, revisions, identity, checkpoint, faults>>
    BY DEF Cal!Observe, Cal!At, Cal!Goto
  <1>3. /\ sync'.pc = "normalize" /\ sync'.at = sync.at /\ sync'.item = sync.item
        /\ sync' \in [pc : Cal!Places, boundary : 0..clock, at : 0..clock, item : Items]
    BY <1>1, <1>2 DEF CalTypes, Cal!Places
  <1>a. Fresh /\ \A o \in observations : o.at < clock
    BY <1>1, <1>2 DEF InHand
  <1>b. new.at = clock /\ new.content = sync.item /\ clock \in Nat /\ clock > 0
    BY <1>1, <1>a DEF Fresh, CalTypes
  <1>c. new \in [at : 1..clock, content : Items]
    BY <1>1, <1>b DEF CalTypes
  <1> HIDE DEF new
  <1>4. CalTypes'
    BY <1>1, <1>2, <1>3, <1>c DEF CalTypes, Revised, Rev
  <1>5. InHand'
    <2>1. sync.at = clock
      BY <1>a DEF Fresh
    <2>2. \A o \in observations : o.at # clock
      BY <1>1, <1>a DEF CalTypes
    <2>3. \A o \in observations' : o.at = sync'.at => Agree(o.content, sync'.item)
      BY <1>2, <1>3, <1>b, <2>1, <2>2 DEF Agree
    <2>4. \E o \in observations' : o.at = sync'.at
      BY <1>2, <1>3, <1>b, <2>1
    <2>5. Fresh'
      BY <1>2, <1>3, <1>a DEF Fresh, Revised, Rev
    <2> QED BY <1>3, <2>3, <2>4, <2>5 DEF InHand
  <1>6. Histories'
    <2> SUFFICES ASSUME NEW id \in Ids PROVE Ordered(id)' /\ Chained(id)' /\ Led(id)' /\ Paid(id)'
      BY DEF Histories
    <2>1. Ordered(id) /\ Chained(id) /\ Led(id) /\ Paid(id)
      BY <1>1 DEF Histories
    <2>2. Ordered(id)'
      BY <1>2, <2>1 DEF Ordered, Revised, Rev
    <2>3. Chained(id)'
      BY <1>2, <2>1 DEF Chained, Revised, Rev
    <2>4. Led(id)'
      BY <1>2, <2>1 DEF Led, Content, LastOf
    <2>5. Owed(id)' <=> Owed(id)
      BY <1>2, <1>3 DEF Owed, LastOf, Content
    <2>6. Cal!Repeats(id)' = Cal!Repeats(id) /\ Failures' = Failures
      BY <1>2 DEF Cal!Repeats, Failures
    <2>7. Paid(id)'
      BY <2>1, <2>5, <2>6 DEF Paid
    <2> QED BY <2>2, <2>3, <2>4, <2>7
  <1>7. Undisturbed'
    <2>1. \A o \in observations' : Done(o)' => o \in observations /\ Done(o)
      BY <1>2, <1>3, <1>a, <1>b DEF Done, Fresh
    <2>2. \A o \in observations : Accounted(o) => Accounted(o)'
      BY <1>2 DEF Accounted, Revised, Rev
    <2> QED BY <1>1, <1>2, <2>1, <2>2 DEF Undisturbed, Failures
  <1>8. Retained'
    BY <1>1, <1>2, RetainedRests
  <1> QED BY <1>4, <1>5, <1>6, <1>7, <1>8 DEF CalInv, Histories

LEMMA NormalizeKeeps == CalInv /\ Cal!Normalize => CalInv'
  <1> SUFFICES ASSUME CalInv, Cal!Normalize PROVE CalInv'
    OBVIOUS
  <1>1. CalTypes /\ InHand /\ Histories /\ Retained /\ Undisturbed
    BY CalParts
  <1> DEFINE status == IF Cal!Moved THEN "rescheduled" ELSE Cal!Status(sync.item)
  <1>2. /\ sync.pc = "normalize" /\ identity' = Cal!Canonical
        /\ sync' = [sync EXCEPT !.pc = "revise", !.item.status = status]
        /\ UNCHANGED <<clock, observations, calendar, revisions, checkpoint, faults>>
    BY DEF Cal!Normalize, Cal!At
  <1>3. status \in {"tentative", "scheduled", "rescheduled", "released"}
    BY DEF Cal!Status
  <1> HIDE DEF status
  <1>4. /\ sync'.pc = "revise" /\ sync'.at = sync.at
        /\ sync'.item.value = sync.item.value /\ sync'.item.schedule = sync.item.schedule
        /\ sync'.item.status # "none"
        /\ sync' \in [pc : Cal!Places, boundary : 0..clock, at : 0..clock, item : Items]
    <2>1. sync \in [pc : Cal!Places, boundary : 0..clock, at : 0..clock, item : Items]
      BY <1>1 DEF CalTypes
    <2>2. sync.item \in Items /\ sync.at \in 0..clock /\ sync.boundary \in 0..clock
      BY <2>1
    <2>3. [sync.item EXCEPT !.status = status] \in Items
      BY <1>3, <2>2 DEF Items, Cal!Items
    <2>4. sync'.item = [sync.item EXCEPT !.status = status]
      BY <1>2, <2>1
    <2>5. sync'.item.value = sync.item.value /\ sync'.item.schedule = sync.item.schedule
          /\ sync'.item.status = status
      BY <2>2, <2>4 DEF Items, Cal!Items
    <2>6. sync' \in [pc : Cal!Places, boundary : 0..clock, at : 0..clock, item : Items]
      BY <1>2, <2>1, <2>3 DEF Cal!Places
    <2>7. sync'.pc = "revise" /\ sync'.at = sync.at
      BY <1>2, <2>1
    <2> QED BY <1>3, <2>5, <2>6, <2>7
  <1>5. identity' \in Ids /\ (identity \in Ids => identity' = identity)
    <2>1. sync.item.schedule \in Ids
      BY <1>1 DEF CalTypes, Items, Cal!Items, Ids, Cal!Ids
    <2>2. identity \in Ids \cup {"none"}
      BY <1>1 DEF CalTypes
    <2> QED BY <1>2, <2>1, <2>2, CalendarData DEF Cal!Canonical
  <1>6. checkpoint' \in {"none", identity'}
    BY <1>1, <1>2, <1>5 DEF CalTypes
  <1>7. CalTypes'
    BY <1>1, <1>2, <1>4, <1>5, <1>6 DEF CalTypes, Revised, Rev
  <1>8. InHand'
    <2>1. Fresh /\ (\A o \in observations : o.at = sync.at => Agree(o.content, sync.item))
          /\ \E o \in observations : o.at = sync.at
      BY <1>1, <1>2 DEF InHand
    <2>2. Fresh'
      BY <1>2, <1>4, <2>1 DEF Fresh, Revised, Rev
    <2>3. \A o \in observations' : o.at = sync'.at => Agree(o.content, sync'.item)
      BY <1>2, <1>4, <2>1 DEF Agree
    <2>4. \E o \in observations' : o.at = sync'.at
      BY <1>2, <1>4, <2>1
    <2> QED BY <1>4, <1>5, <2>2, <2>3, <2>4 DEF InHand
  <1>9. Histories'
    <2>1. Failures' = Failures /\ Failures \in Nat
      BY <1>1, <1>2, FailuresAreCounted DEF Failures
    <2>2. \A id \in Ids : Owed(id)' => Owed(id)
      BY <1>2 DEF Owed, LastOf, Content
    <2> QED BY <1>1, <1>2, <1>7, <2>1, <2>2, HistoriesRest
  <1>10. Undisturbed'
    <2> SUFFICES ASSUME Failures = 0 PROVE Undisturbed'
      BY <1>2 DEF Undisturbed, Failures
    <2>1. /\ faults.lost = 0 /\ \A id \in Ids : revisions[id] # << >> => id = identity
          /\ \A o \in observations : Done(o) => Accounted(o)
      BY <1>1 DEF Undisturbed
    <2>2. \A o \in observations : Done(o)' => Done(o)
      BY <1>2, <1>4 DEF Done
    <2>3. \A o \in observations : Accounted(o) => Accounted(o)'
      BY <1>2, <1>5 DEF Accounted, Revised, Rev
    <2>4. \A id \in Ids : revisions[id] # << >> => id = identity'
      BY <1>5, <2>1
    <2> QED BY <1>2, <2>1, <2>2, <2>3, <2>4 DEF Undisturbed
  <1>11. Retained'
    <2>1. Cardinality(Named) \in Nat /\ IsFiniteSet(Named) /\ faults.lost \in Nat
      BY <1>1, NamedIsFinite, FailuresAreCounted
    <2>2. Cal!Known' = Cal!Known
      BY <1>2 DEF Cal!Known
    <2>3. identity' # "none"
      BY <1>5, CalendarData
    <2>4. CASE identity \in Ids
      <3>1. Named' = Named /\ identity # "none"
        BY <1>5, <2>2, <2>4, CalendarData DEF Named
      <3> QED BY <1>1, <1>2, <2>3, <3>1 DEF Retained
    <2>5. CASE identity = "none"
      <3>1. Named' = Named \cup {identity'}
        BY <2>2, <2>3, <2>5 DEF Named
      <3>2. Cardinality(Named) <= faults.lost
        BY <1>1, <2>1, <2>5 DEF Retained
      <3>3. Cardinality(Named') <= Cardinality(Named) + 1
        BY <2>1, <3>1, FS_AddElement
      <3>4. Cardinality(Named') \in Nat
        <4>1. IsFiniteSet(Named')
          BY <2>1, <3>1, FS_AddElement
        <4> QED BY <4>1, FS_CardinalityType
      <3>5. Cardinality(Named') <= faults.lost + 1
        BY <2>1, <3>2, <3>3, <3>4
      <3> QED BY <1>2, <2>3, <3>5 DEF Retained
    <2> QED BY <1>1, <2>4, <2>5 DEF CalTypes
  <1> QED BY <1>7, <1>8, <1>9, <1>10, <1>11 DEF CalInv, Histories

LEMMA StoreKeeps == CalInv /\ Cal!Store => CalInv'
  <1> SUFFICES ASSUME CalInv, Cal!Store PROVE CalInv'
    OBVIOUS
  <1>1. CalTypes /\ InHand /\ Histories /\ Retained /\ Undisturbed
    BY CalParts
  <1> DEFINE row == [content |-> sync.item, at |-> sync.at]
  <1>2. /\ sync.pc = "store" /\ sync' = [sync EXCEPT !.pc = "snapshot"]
        /\ calendar' = [calendar EXCEPT ![identity] = row]
        /\ UNCHANGED <<clock, observations, revisions, identity, checkpoint, faults>>
    BY DEF Cal!Store, Cal!At, Cal!Goto
  <1>3. /\ identity \in Ids /\ sync.item.status # "none" /\ revisions[identity] # << >>
        /\ LastOf(identity).is = sync.item \/ Content(identity) = sync.item
        /\ \E o \in observations : o.at = sync.at
    BY <1>1, <1>2 DEF InHand
  <1>4. sync'.pc = "snapshot" /\ sync'.at = sync.at
        /\ sync' \in [pc : Cal!Places, boundary : 0..clock, at : 0..clock, item : Items]
    BY <1>1, <1>2 DEF CalTypes, Cal!Places
  <1>5. row \in [content : Items, at : 0..clock]
    BY <1>1 DEF CalTypes
  <1>6. row.content = sync.item /\ row.at = sync.at /\ row # Cal!NoRow
    BY <1>3, CalendarData DEF Cal!NoRow
  <1> HIDE DEF row
  <1>7. calendar' \in [Ids -> [content : Items, at : 0..clock]]
        /\ \A id \in Ids : calendar'[id] = IF id = identity THEN row ELSE calendar[id]
    BY <1>1, <1>2, <1>3, <1>5 DEF CalTypes
  <1>8. CalTypes'
    BY <1>1, <1>2, <1>4, <1>7 DEF CalTypes, Revised, Rev
  <1>9. InHand'
    BY <1>4 DEF InHand
  <1>10. Histories'
    <2> SUFFICES ASSUME NEW id \in Ids PROVE Ordered(id)' /\ Chained(id)' /\ Led(id)' /\ Paid(id)'
      BY DEF Histories
    <2>1. Ordered(id) /\ Chained(id) /\ Led(id) /\ Paid(id)
      BY <1>1 DEF Histories
    <2>2. Ordered(id)'
      BY <1>2, <2>1 DEF Ordered, Revised, Rev
    <2>3. Chained(id)'
      BY <1>2, <2>1 DEF Chained, Revised, Rev
    <2>4. id # identity => Content(id)' = Content(id)
      BY <1>7 DEF Content
    <2>5. id = identity => Content(id)' = sync.item
      BY <1>6, <1>7 DEF Content
    <2>6. LastOf(id)' = LastOf(id)
      BY <1>2 DEF LastOf
    <2>7. Led(id)'
      <3>1. CASE id # identity
        BY <1>2, <1>7, <2>1, <2>4, <2>6, <3>1 DEF Led
      <3>2. CASE id = identity
        <4>1. calendar'[id].at = sync.at
          BY <1>6, <1>7, <3>2
        <4>2. Content(id) \in {LastOf(id).is, LastOf(id).was}
          BY <1>3, <2>1, <3>2 DEF Led
        <4>3. sync.item \in {LastOf(id).is, LastOf(id).was}
          BY <1>3, <3>2, <4>2
        <4> QED BY <1>2, <1>3, <2>5, <2>6, <3>2, <4>1, <4>3 DEF Led
      <3> QED BY <3>1, <3>2
    <2>8. Owed(id)' => Owed(id)
      <3>1. CASE id # identity
        BY <1>2, <2>4, <2>6, <3>1 DEF Owed
      <3>2. CASE id = identity
        BY <1>2, <1>3, <2>5, <2>6, <3>2 DEF Owed
      <3> QED BY <3>1, <3>2
    <2>9. Cal!Repeats(id)' = Cal!Repeats(id) /\ Failures' = Failures
      BY <1>2 DEF Cal!Repeats, Failures
    <2>10. Cardinality(Cal!Repeats(id)) \in Nat /\ Failures \in Nat
      BY <1>1, RepeatsAreFinite, FailuresAreCounted
    <2>11. Cardinality(Cal!Repeats(id)) + (IF Owed(id)' THEN 1 ELSE 0) <= Failures
      BY <2>1, <2>8, <2>10 DEF Paid
    <2>12. Paid(id)'
      BY <2>9, <2>11 DEF Paid
    <2> QED BY <2>2, <2>3, <2>7, <2>12
  <1>11. Undisturbed'
    BY <1>1, <1>2, <1>4, UndisturbedRests DEF Done
  <1>12. Retained'
    <2>1. Cal!Known' = Cal!Known \cup {identity}
      BY <1>3, <1>6, <1>7 DEF Cal!Known, Ids
    <2>2. Named' = Named
      BY <1>2, <1>3, <2>1, CalendarData DEF Named
    <2> QED BY <1>1, <1>2, <2>2 DEF Retained
  <1> QED BY <1>8, <1>9, <1>10, <1>11, <1>12 DEF CalInv, Histories

-----------------------------------------------------------------------------
(* A revision.                                                              *)

LEMMA RevisionAppended ==
  ASSUME CalTypes, NEW id \in Ids, NEW x \in Revisions,
         revisions' = [revisions EXCEPT ![id] = Append(@, x)]
  PROVE  /\ revisions' \in [Ids -> Seq(Revisions)]
         /\ \A i \in Ids : i # id => revisions'[i] = revisions[i]
         /\ Len(revisions'[id]) = Len(revisions[id]) + 1
         /\ revisions'[id] # << >>
         /\ \A n \in Revised(id) : revisions'[id][n] = Rev(id, n)
         /\ revisions'[id][Len(revisions[id]) + 1] = x
  <1>1. revisions \in [Ids -> Seq(Revisions)] /\ revisions[id] \in Seq(Revisions)
    BY DEF CalTypes
  <1>2. revisions'[id] = Append(revisions[id], x)
    BY <1>1
  <1>3. revisions'[id] \in Seq(Revisions) /\ revisions'[id] # << >>
    BY <1>1, <1>2, AppendProperties
  <1>4. Len(revisions'[id]) = Len(revisions[id]) + 1
    BY <1>1, <1>2, AppendProperties
  <1>5. \A n \in 1..Len(revisions[id]) : revisions'[id][n] = revisions[id][n]
    BY <1>1, <1>2, AppendProperties
  <1>6. revisions'[id][Len(revisions[id]) + 1] = x
    BY <1>1, <1>2, AppendProperties
  <1>7. revisions' \in [Ids -> Seq(Revisions)] /\ \A i \in Ids : i # id => revisions'[i] = revisions[i]
    BY <1>1, <1>2, <1>3
  <1> QED BY <1>3, <1>4, <1>5, <1>6, <1>7 DEF Revised, Rev

(* The appended revision does not owe an event, and repeats its predecessor *)
(* if that did.                                                             *)
LEMMA RepeatsGrow ==
  ASSUME CalTypes, CalTypes', NEW id \in Ids, NEW x \in Revisions,
         revisions' = [revisions EXCEPT ![id] = Append(@, x)],
         x.was = Content(id), sync.pc = "revise", Paid(id),
         ~Owed(id)', Failures' = Failures
  PROVE  Paid(id)'
  <1> DEFINE old == Cal!Repeats(id)
             len == Len(revisions[id])
  <1>1. len \in Nat /\ Failures \in Nat /\ IsFiniteSet(old) /\ Cardinality(old) \in Nat
    BY RevisionIs, FailuresAreCounted, RepeatsAreFinite
  <1>2. Cardinality(old) + (IF Owed(id) THEN 1 ELSE 0) <= Failures
    BY DEF Paid
  <1>3. /\ Len(revisions'[id]) = len + 1
        /\ \A n \in 1..len : revisions'[id][n] = revisions[id][n]
        /\ revisions'[id][len + 1] = x
    BY RevisionAppended DEF Revised, Rev
  <1>4. Cal!Repeats(id)' \subseteq old \cup {len}
    <2> SUFFICES ASSUME NEW n \in Cal!Repeats(id)', n # len PROVE n \in old
      OBVIOUS
    <2>1. n \in 1..len /\ revisions'[id][n + 1].was # revisions'[id][n].is
      BY <1>1, <1>3 DEF Cal!Repeats
    <2>2. n \in 1..(len - 1) /\ n + 1 \in 1..len
      BY <1>1, <2>1
    <2> QED BY <1>3, <2>1, <2>2 DEF Cal!Repeats
  <1>5. ~Owed(id) => len \notin Cal!Repeats(id)'
    <2> SUFFICES ASSUME ~Owed(id), len \in Cal!Repeats(id)' PROVE FALSE
      OBVIOUS
    <2>1. len \in 1..len /\ revisions'[id][len + 1].was # revisions'[id][len].is
      BY <1>1, <1>3 DEF Cal!Repeats
    <2>2. revisions[id] # << >>
      BY <1>1, <2>1, RevisionIs
    <2>3. x.was # LastOf(id).is
      BY <1>3, <2>1 DEF LastOf
    <2> QED BY <2>2, <2>3 DEF Owed
  <1>6. Cardinality(Cal!Repeats(id)') <= Failures
    <2>1. CASE Owed(id)
      <3> HIDE DEF old, len
      <3>1. IsFiniteSet(old \cup {len}) /\ Cardinality(old \cup {len}) <= Cardinality(old) + 1
        <4>1. Cardinality(old \cup {len}) = IF len \in old THEN Cardinality(old) ELSE Cardinality(old) + 1
          BY <1>1, FS_AddElement
        <4>2. IsFiniteSet(old \cup {len})
          BY <1>1, FS_AddElement
        <4> QED BY <1>1, <4>1, <4>2
      <3>2. /\ Cardinality(Cal!Repeats(id)') <= Cardinality(old \cup {len})
            /\ Cardinality(Cal!Repeats(id)') \in Nat /\ Cardinality(old \cup {len}) \in Nat
        BY <1>4, <3>1, FS_Subset, FS_CardinalityType
      <3> QED BY <1>1, <1>2, <2>1, <3>1, <3>2
    <2>2. CASE ~Owed(id)
      <3>1. Cal!Repeats(id)' \subseteq old
        BY <1>4, <1>5, <2>2
      <3>2. Cardinality(Cal!Repeats(id)') <= Cardinality(old) /\ Cardinality(Cal!Repeats(id)') \in Nat
        BY <1>1, <3>1, FS_Subset, FS_CardinalityType
      <3> HIDE DEF old
      <3> QED BY <1>1, <1>2, <2>2, <3>2
    <2> QED BY <2>1, <2>2
  <1>7. Cardinality(Cal!Repeats(id)') + 0 <= Failures'
    <2>1. IsFiniteSet(Cal!Repeats(id)')
      BY <1>1, <1>4, FS_AddElement, FS_Subset
    <2>2. Cardinality(Cal!Repeats(id)') \in Nat
      BY <2>1, FS_CardinalityType
    <2> QED BY <1>6, <2>2
  <1> QED BY <1>7 DEF Paid

LEMMA ReviseSkips ==
  ASSUME CalInv, sync.pc = "revise", Content(identity) = sync.item,
         sync' = [sync EXCEPT !.pc = "store"],
         UNCHANGED <<clock, observations, calendar, revisions, identity, checkpoint, faults>>
  PROVE  CalInv'
  <1>1. CalTypes /\ InHand /\ Histories /\ Retained /\ Undisturbed
    BY CalParts
  <1>2. /\ sync'.pc = "store" /\ sync'.at = sync.at /\ sync'.item = sync.item
        /\ sync' \in [pc : Cal!Places, boundary : 0..clock, at : 0..clock, item : Items]
    BY <1>1 DEF CalTypes, Cal!Places
  <1>3. /\ Fresh /\ identity \in Ids /\ sync.item.status # "none"
        /\ \A o \in observations : o.at = sync.at => Agree(o.content, sync.item)
        /\ \E o \in observations : o.at = sync.at
    BY <1>1 DEF InHand
  <1>4. Led(identity) /\ Paid(identity)
    BY <1>1, <1>3 DEF Histories
  <1>5. revisions[identity] # << >>
    <2>1. calendar[identity] # Cal!NoRow
      BY <1>3, CalendarData DEF Content, Cal!NoRow
    <2> QED BY <1>4, <2>1 DEF Led
  <1>6. CalTypes'
    BY <1>1, <1>2 DEF CalTypes, Revised, Rev
  <1>7. InHand'
    BY <1>2, <1>3, <1>5 DEF InHand, LastOf, Content
  <1>8. Histories'
    <2>1. Failures' = Failures /\ Failures \in Nat
      BY <1>1, FailuresAreCounted DEF Failures
    <2>2. \A id \in Ids : Owed(id)' => Owed(id)
      BY DEF Owed, LastOf, Content
    <2> QED BY <1>1, <1>6, <2>1, <2>2, HistoriesRest
  <1>9. Undisturbed'
    <2> SUFFICES ASSUME Failures = 0 PROVE Undisturbed'
      BY DEF Undisturbed, Failures
    <2>1. /\ faults.lost = 0 /\ \A id \in Ids : revisions[id] # << >> => id = identity
          /\ \A o \in observations : Done(o) => Accounted(o)
      BY <1>1 DEF Undisturbed
    <2>2. ~Owed(identity)
      <3>1. Cardinality(Cal!Repeats(identity)) \in Nat
        BY <1>1, <1>3, RepeatsAreFinite
      <3> QED BY <1>4, <3>1 DEF Paid
    <2>3. LastOf(identity).is = sync.item
      BY <1>5, <2>2 DEF Owed
    <2>4. \A o \in observations : o.at = sync.at => Accounted(o)
      <3> SUFFICES ASSUME NEW o \in observations, o.at = sync.at PROVE Accounted(o)
        OBVIOUS
      <3> DEFINE n == Len(revisions[identity])
      <3>1. n \in Nat /\ n > 0 /\ Rev(identity, n) = LastOf(identity)
        BY <1>1, <1>3, <1>5, RevisionIs DEF Rev, LastOf
      <3>2. n \in Revised(identity) /\ n + 1 \notin Revised(identity)
        BY <3>1 DEF Revised
      <3>3. Rev(identity, n).at < clock /\ sync.at = clock /\ clock \in Nat /\ Rev(identity, n).at \in Nat
        BY <1>1, <1>3, <3>2 DEF Fresh, CalTypes
      <3>4. Rev(identity, n).at <= o.at /\ Agree(o.content, Rev(identity, n).is)
        BY <1>3, <2>3, <3>1, <3>3
      <3> HIDE DEF n
      <3> QED BY <1>3, <3>2, <3>4 DEF Accounted
    <2>5. \A o \in observations : Accounted(o)
      BY <2>1, <2>4 DEF Done
    <2>6. \A o \in observations : Accounted(o) => Accounted(o)'
      BY DEF Accounted, Revised, Rev
    <2> QED BY <2>1, <2>5, <2>6 DEF Undisturbed
  <1>10. Retained'
    BY <1>1, RetainedRests
  <1> QED BY <1>6, <1>7, <1>8, <1>9, <1>10 DEF CalInv, Histories

LEMMA ReviseAppends ==
  ASSUME CalInv, sync.pc = "revise",
         NEW x, x = [at |-> sync.at, was |-> Content(identity), is |-> sync.item],
         revisions' = [revisions EXCEPT ![identity] = Append(@, x)],
         sync' = [sync EXCEPT !.pc = "store"],
         UNCHANGED <<clock, observations, calendar, identity, checkpoint, faults>>
  PROVE  CalInv'
  <1> DEFINE len == Len(revisions[identity])
  <1>1. CalTypes /\ InHand /\ Histories /\ Retained /\ Undisturbed
    BY CalParts
  <1>2. /\ sync'.pc = "store" /\ sync'.at = sync.at /\ sync'.item = sync.item
        /\ sync' \in [pc : Cal!Places, boundary : 0..clock, at : 0..clock, item : Items]
    BY <1>1 DEF CalTypes, Cal!Places
  <1>3. /\ Fresh /\ identity \in Ids /\ sync.item.status # "none"
        /\ \A o \in observations : o.at = sync.at => Agree(o.content, sync.item)
        /\ \E o \in observations : o.at = sync.at
    BY <1>1 DEF InHand
  <1>4. Ordered(identity) /\ Chained(identity) /\ Led(identity) /\ Paid(identity)
    BY <1>1, <1>3 DEF Histories
  <1>5. x \in Revisions /\ x.at = clock /\ x.was = Content(identity) /\ x.is = sync.item
        /\ clock \in Nat /\ clock > 0
    <2>1. sync.at \in Nat /\ sync.item \in Items /\ Content(identity) \in Items
      BY <1>1, <1>3 DEF CalTypes, Content
    <2>2. x \in Revisions /\ x.at = sync.at /\ x.was = Content(identity) /\ x.is = sync.item
      BY <2>1 DEF Revisions
    <2> QED BY <1>1, <1>3, <2>2 DEF Fresh, CalTypes
  <1>6. /\ revisions' \in [Ids -> Seq(Revisions)]
        /\ \A i \in Ids : i # identity => revisions'[i] = revisions[i]
        /\ Len(revisions'[identity]) = len + 1 /\ revisions'[identity] # << >>
        /\ \A n \in 1..len : revisions'[identity][n] = Rev(identity, n)
        /\ revisions'[identity][len + 1] = x
    BY <1>1, <1>3, <1>5, RevisionAppended DEF Revised
  <1>7. /\ len \in Nat /\ (revisions[identity] # << >> <=> len > 0)
        /\ \A n \in 1..len : Rev(identity, n).at \in 1..clock
        /\ \A n \in 1..len : Rev(identity, n).at < clock
    BY <1>1, <1>3, RevisionIs DEF Fresh, Revised
  <1>8. revisions[identity] # << >> => len \in 1..len /\ Rev(identity, len) = LastOf(identity)
    BY <1>7 DEF Rev, LastOf
  <1> HIDE DEF len
  <1>9. CalTypes'
    <2>1. \A id \in Ids : \A n \in 1..Len(revisions'[id]) : revisions'[id][n].at \in 1..clock
      <3> SUFFICES ASSUME NEW id \in Ids, NEW n \in 1..Len(revisions'[id])
                   PROVE  revisions'[id][n].at \in 1..clock
        OBVIOUS
      <3>1. CASE id # identity
        BY <1>1, <1>6, <3>1 DEF CalTypes, Revised, Rev
      <3>2. CASE id = identity /\ n \in 1..len
        BY <1>6, <1>7, <3>2
      <3>3. CASE id = identity /\ n = len + 1
        BY <1>5, <1>6, <3>3
      <3> QED BY <1>6, <1>7, <3>1, <3>2, <3>3
    <2> QED BY <1>1, <1>2, <1>6, <2>1 DEF CalTypes, Revised, Rev
  <1>10. /\ \A id \in Ids : id # identity => (Revised(id)' = Revised(id) /\ LastOf(id)' = LastOf(id))
         /\ \A id \in Ids : id # identity =>
              \A m, n : m = n => (Rev(id, m))' = Rev(id, m)
         /\ LastOf(identity)' = x
    BY <1>6, <1>3 DEF Revised, LastOf, Rev
  <1>11. InHand'
    BY <1>2, <1>3, <1>5, <1>6, <1>10 DEF InHand
  <1>12. Histories'
    <2> SUFFICES ASSUME NEW id \in Ids PROVE Ordered(id)' /\ Chained(id)' /\ Led(id)' /\ Paid(id)'
      BY DEF Histories
    <2>1. Failures' = Failures
      BY DEF Failures
    <2>2. CASE id # identity
      <3>1. Ordered(id) /\ Chained(id) /\ Led(id) /\ Paid(id)
        BY <1>1 DEF Histories
      <3>2. revisions'[id] = revisions[id] /\ calendar'[id] = calendar[id]
        BY <1>6, <2>2
      <3>3. Ordered(id)' /\ Chained(id)' /\ Led(id)'
        <4>1. Ordered(id)'
          BY <3>1, <3>2 DEF Ordered, Revised, Rev
        <4>2. Chained(id)'
          BY <3>1, <3>2, ChainKept
        <4>3. Led(id)'
          BY <3>1, <3>2 DEF Led, LastOf, Content
        <4> QED BY <4>1, <4>2, <4>3
      <3>4. Owed(id)' <=> Owed(id)
        BY <2>2, <3>2 DEF Owed, LastOf, Content
      <3>5. Cal!Repeats(id)' = Cal!Repeats(id)
        BY <3>2 DEF Cal!Repeats
      <3>6. Paid(id)'
        BY <2>1, <3>1, <3>4, <3>5 DEF Paid
      <3> QED BY <3>3, <3>6
    <2>3. CASE id = identity
      <3>1. Ordered(id)'
        <4> SUFFICES ASSUME NEW m \in 1..(len + 1), NEW n \in 1..(len + 1), m < n
                     PROVE  revisions'[identity][m].at < revisions'[identity][n].at
          BY <1>6, <2>3 DEF Ordered, Revised, Rev
        <4>1. m \in 1..len
          BY <1>7
        <4>2. CASE n \in 1..len
          BY <1>4, <1>6, <4>1, <4>2 DEF Ordered, Revised, len
        <4>3. CASE n = len + 1
          BY <1>5, <1>6, <1>7, <4>1, <4>3
        <4>4. len \in Nat
          BY <1>7
        <4>5. n \in 1..len \/ n = len + 1
          BY <4>4
        <4> QED BY <4>2, <4>3, <4>5
      <3>2. Chained(id)'
        <4> DEFINE rev(n) == revisions'[identity][n]
                   Links(n) ==
                     /\ rev(n).is.status # "none"
                     /\ n > 1 => rev(n).was \in {rev(n - 1).is, rev(n - 1).was}
                     /\ rev(n).was = Cal!Unknown \/ \E m \in 1..(n - 1) : rev(n).was = rev(m).is
                     /\ \E o \in observations : o.at = rev(n).at /\ Agree(o.content, rev(n).is)
        <4>1. \A n \in 1..len : Links(n)
          <5> SUFFICES ASSUME NEW n \in 1..len PROVE Links(n)
            OBVIOUS
          <5>1. \A m \in 1..n : m \in 1..len /\ rev(m) = Rev(identity, m)
            BY <1>6, <1>7
          <5>2. n \in 1..n /\ (n > 1 => n - 1 \in 1..n) /\ \A m \in 1..(n - 1) : m \in 1..n
            BY <1>7
          <5>3. /\ Rev(identity, n).is.status # "none"
                /\ n > 1 => Rev(identity, n).was \in {Rev(identity, n - 1).is, Rev(identity, n - 1).was}
                /\ \/ Rev(identity, n).was = Cal!Unknown
                   \/ \E m \in 1..(n - 1) : Rev(identity, n).was = Rev(identity, m).is
                /\ \E o \in observations :
                     o.at = Rev(identity, n).at /\ Agree(o.content, Rev(identity, n).is)
            BY <1>4 DEF Chained, Revised, len
          <5> HIDE DEF rev
          <5> QED BY <5>1, <5>2, <5>3
        <4>2. Links(len + 1)
          <5>1. rev(len + 1) = x /\ (len + 1) - 1 = len
            BY <1>6, <1>7
          <5>2. len \in 1..len => rev(len) = Rev(identity, len)
            BY <1>6
          <5>3. len + 1 > 1 => x.was \in {rev(len).is, rev(len).was}
            <6> SUFFICES ASSUME len + 1 > 1 PROVE x.was \in {rev(len).is, rev(len).was}
              OBVIOUS
            <6>1. revisions[identity] # << >>
              BY <1>7
            <6>2. len \in 1..len /\ Rev(identity, len) = LastOf(identity)
              BY <1>8, <6>1
            <6>3. rev(len) = LastOf(identity)
              BY <5>2, <6>2
            <6>4. Content(identity) \in {LastOf(identity).is, LastOf(identity).was}
              BY <1>4, <6>1 DEF Led
            <6> QED BY <1>5, <6>3, <6>4
          <5>4. x.was = Cal!Unknown \/ \E m \in 1..len : x.was = rev(m).is
            <6>1. CASE calendar[identity] = Cal!NoRow
              BY <1>5, <6>1 DEF Content, Cal!NoRow
            <6>2. CASE calendar[identity] # Cal!NoRow
              <7>1. len \in 1..len /\ x.was \in {rev(len).is, rev(len).was}
                <8>1. revisions[identity] # << >>
                  BY <1>4, <6>2 DEF Led
                <8>2. len \in 1..len /\ len > 0
                  BY <1>7, <1>8, <8>1
                <8>3. len + 1 > 1
                  BY <1>7, <8>2
                <8> HIDE DEF rev
                <8> QED BY <5>3, <8>2, <8>3
              <7>2. CASE x.was = rev(len).is
                BY <7>1, <7>2
              <7>3. CASE x.was = rev(len).was
                <8>1. rev(len).was = Cal!Unknown \/ \E m \in 1..(len - 1) : rev(len).was = rev(m).is
                  BY <4>1, <7>1
                <8>2. \A m \in 1..(len - 1) : m \in 1..len
                  BY <1>7
                <8> HIDE DEF rev
                <8> QED BY <7>3, <8>1, <8>2
              <7> QED BY <7>1, <7>2, <7>3
            <6> QED BY <6>1, <6>2
          <5>5. \E o \in observations : o.at = x.at /\ Agree(o.content, x.is)
            BY <1>3, <1>5 DEF Fresh
          <5> HIDE DEF rev
          <5> QED BY <1>3, <1>5, <5>1, <5>3, <5>4, <5>5
        <4>3. \A n \in 1..(len + 1) : Links(n)
          <5> HIDE DEF Links
          <5> QED BY <1>7, <4>1, <4>2
        <4>4. Len(revisions'[id]) = len + 1 /\ \A n : (Rev(id, n))' = rev(n)
          BY <1>6, <2>3 DEF Rev
        <4>5. \A n \in Revised(id)' :
                /\ (Rev(id, n))'.is.status # "none"
                /\ n > 1 => (Rev(id, n))'.was \in {(Rev(id, n - 1))'.is, (Rev(id, n - 1))'.was}
                /\ \/ (Rev(id, n))'.was = Cal!Unknown
                   \/ \E m \in 1..(n - 1) : (Rev(id, n))'.was = (Rev(id, m))'.is
                /\ \E o \in observations : o.at = (Rev(id, n))'.at /\ Agree(o.content, (Rev(id, n))'.is)
          <5> HIDE DEF rev
          <5> QED BY <4>3, <4>4 DEF Revised
        <4> QED BY <4>5 DEF Chained, Agree
      <3>3. Led(id)'
        <4>1. calendar[id] # Cal!NoRow =>
                Content(id).status # "none" /\ \E o \in observations : o.at = calendar[id].at
          BY <1>4, <2>3 DEF Led
        <4>2. Content(id)' = x.was
          BY <1>5, <2>3 DEF Content
        <4>3. Content(id)' = Content(id)
          BY DEF Content
        <4> QED BY <1>6, <1>10, <2>3, <4>1, <4>2, <4>3 DEF Led
      <3>4. ~Owed(id)'
        BY <1>2, <1>5, <1>10, <2>3 DEF Owed
      <3>5. Paid(id)'
        BY <1>1, <1>4, <1>5, <1>9, <2>1, <2>3, <3>4, RepeatsGrow
      <3> QED BY <3>1, <3>2, <3>3, <3>5
    <2> QED BY <2>2, <2>3
  <1>13. Undisturbed'
    <2> SUFFICES ASSUME Failures = 0 PROVE Undisturbed'
      BY DEF Undisturbed, Failures
    <2>1. /\ faults.lost = 0 /\ \A id \in Ids : revisions[id] # << >> => id = identity
          /\ \A o \in observations : Done(o) => Accounted(o)
      BY <1>1 DEF Undisturbed
    <2>2. \A id \in Ids : revisions'[id] # << >> => id = identity
      BY <1>6, <2>1
    <2>3. ASSUME NEW o \in observations PROVE Accounted(o)'
      <3> DEFINE rev(n) == revisions'[identity][n]
      <3> SUFFICES \E n \in 1..(len + 1) :
                     /\ rev(n).at <= o.at /\ Agree(o.content, rev(n).is)
                     /\ n + 1 \in 1..(len + 1) => o.at < rev(n + 1).at
        BY <1>3, <1>6 DEF Accounted, Revised, Rev
      <3>1. CASE o.at = sync.at
        <4>1. len + 1 \in 1..(len + 1) /\ (len + 1) + 1 \notin 1..(len + 1)
          BY <1>7
        <4>2. rev(len + 1).at <= o.at /\ Agree(o.content, rev(len + 1).is)
          BY <1>3, <1>5, <1>6, <3>1 DEF Fresh
        <4> HIDE DEF rev
        <4> QED BY <4>1, <4>2
      <3>2. CASE o.at # sync.at
        <4>1. PICK n \in 1..len : /\ Rev(identity, n).at <= o.at /\ Agree(o.content, Rev(identity, n).is)
                                  /\ n + 1 \in 1..len => o.at < Rev(identity, n + 1).at
          BY <2>1, <3>2 DEF Done, Accounted, Revised, len
        <4>2. o.at < clock
          BY <1>1, <1>3, <3>2 DEF CalTypes, Fresh
        <4>3. n \in 1..(len + 1) /\ rev(n) = Rev(identity, n)
          BY <1>6, <1>7
        <4>4. n + 1 \in 1..(len + 1) => o.at < rev(n + 1).at
          <5>1. CASE n = len
            BY <1>5, <1>6, <4>2, <5>1
          <5>2. CASE n # len
            <6>1. n + 1 \in 1..len
              BY <1>7, <5>2
            <6> QED BY <1>6, <4>1, <6>1
          <5> QED BY <5>1, <5>2
        <4> HIDE DEF rev
        <4> QED BY <4>1, <4>3, <4>4
      <3> QED BY <3>1, <3>2
    <2> QED BY <2>1, <2>2, <2>3 DEF Undisturbed
  <1>14. Retained'
    BY <1>1, RetainedRests
  <1> QED BY <1>9, <1>11, <1>12, <1>13, <1>14 DEF CalInv, Histories

LEMMA ReviseKeeps == CalInv /\ Cal!Revise => CalInv'
  <1> SUFFICES ASSUME CalInv, Cal!Revise PROVE CalInv'
    OBVIOUS
  <1> DEFINE x == [at |-> sync.at, was |-> Content(identity), is |-> sync.item]
  <1>1. /\ sync.pc = "revise" /\ sync' = [sync EXCEPT !.pc = "store"]
        /\ UNCHANGED <<clock, observations, calendar, identity, checkpoint, faults>>
    BY DEF Cal!Revise, Cal!At, Cal!Goto
  <1>2. CASE Content(identity) = sync.item
    <2>1. UNCHANGED revisions
      BY <1>2 DEF Cal!Revise, Cal!Changed, Content
    <2> QED BY <1>1, <1>2, <2>1, ReviseSkips
  <1>3. CASE Content(identity) # sync.item
    <2>1. revisions' = [revisions EXCEPT ![identity] = Append(@, x)]
      BY <1>3 DEF Cal!Revise, Cal!Changed, Content
    <2> QED BY <1>1, <2>1, ReviseAppends
  <1> QED BY <1>2, <1>3

-----------------------------------------------------------------------------
(* The failures.                                                            *)

LEMMA FailureKeeps ==
  ASSUME CalInv, sync' = Cal!Idle,
         faults' \in [errors : Nat, crashes : Nat, lost : Nat],
         Failures' = Failures + 1,
         UNCHANGED <<clock, observations, calendar, revisions, checkpoint>>,
         identity' \in {identity, checkpoint}
  PROVE  CalTypes' /\ InHand' /\ Histories' /\ Undisturbed'
  <1>1. CalTypes /\ Histories
    BY CalParts
  <1>2. sync'.pc = "idle"
        /\ sync' \in [pc : Cal!Places, boundary : 0..clock, at : 0..clock, item : Items]
    <2>1. 0 \in 0..clock
      BY <1>1 DEF CalTypes
    <2> QED BY <2>1, CalendarData DEF Cal!Idle, Cal!Places
  <1>3. CalTypes'
    <2>1. identity' \in Ids \cup {"none"} /\ checkpoint' \in {"none", identity'}
      BY <1>1 DEF CalTypes
    <2> QED BY <1>1, <1>2, <2>1 DEF CalTypes, Revised, Rev
  <1>4. InHand'
    BY <1>2 DEF InHand
  <1>5. Failures \in Nat /\ Failures' > Failures
    BY <1>1, FailuresAreCounted
  <1>6. Histories'
    BY <1>1, <1>3, <1>5, HistoriesRest
  <1>7. Undisturbed'
    BY <1>5 DEF Undisturbed
  <1> QED BY <1>3, <1>4, <1>6, <1>7

LEMMA ErrorKeeps == CalInv /\ Cal!Error => CalInv'
  <1> SUFFICES ASSUME CalInv, Cal!Error PROVE CalInv'
    OBVIOUS
  <1>1. CalTypes /\ Retained
    BY CalParts
  <1>2. /\ faults' = [faults EXCEPT !.errors = @ + 1] /\ sync' = Cal!Idle
        /\ UNCHANGED <<clock, observations, calendar, revisions, identity, checkpoint>>
    BY DEF Cal!Error
  <1>3. faults \in [errors : Nat, crashes : Nat, lost : Nat]
    BY <1>1 DEF CalTypes
  <1>4. /\ faults' \in [errors : Nat, crashes : Nat, lost : Nat]
        /\ Failures' = Failures + 1 /\ faults'.lost = faults.lost
    BY <1>2, <1>3 DEF Failures
  <1>5. CalTypes' /\ InHand' /\ Histories' /\ Undisturbed'
    BY <1>2, <1>4, FailureKeeps
  <1>6. Retained'
    BY <1>1, <1>2, <1>4 DEF Retained, Named, Cal!Known
  <1> QED BY <1>5, <1>6 DEF CalInv, Histories

LEMMA CrashKeeps == CalInv /\ Cal!Crash => CalInv'
  <1> SUFFICES ASSUME CalInv, Cal!Crash PROVE CalInv'
    OBVIOUS
  <1>1. CalTypes /\ Retained
    BY CalParts
  <1> DEFINE more == IF identity # checkpoint THEN 1 ELSE 0
  <1>2. /\ faults' = [faults EXCEPT !.crashes = @ + 1, !.lost = @ + more] /\ sync' = Cal!Idle
        /\ identity' = checkpoint
        /\ UNCHANGED <<clock, observations, calendar, revisions, checkpoint>>
    BY DEF Cal!Crash, Cal!Restored
  <1>3. faults \in [errors : Nat, crashes : Nat, lost : Nat] /\ more \in Nat
    BY <1>1 DEF CalTypes
  <1>4. more = IF identity # checkpoint THEN 1 ELSE 0
    OBVIOUS
  <1> HIDE DEF more
  <1>5. /\ faults' \in [errors : Nat, crashes : Nat, lost : Nat]
        /\ Failures' = Failures + 1 /\ faults'.lost = faults.lost + more
    <2>1. /\ faults.errors \in Nat /\ faults.crashes \in Nat /\ faults.lost \in Nat
          /\ faults.crashes + 1 \in Nat /\ faults.lost + more \in Nat
      BY <1>3
    <2>2. faults' \in [errors : Nat, crashes : Nat, lost : Nat]
      BY <1>2, <1>3, <2>1
    <2>3. /\ faults'.errors = faults.errors /\ faults'.crashes = faults.crashes + 1
          /\ faults'.lost = faults.lost + more
      BY <1>2, <1>3
    <2> QED BY <2>1, <2>2, <2>3 DEF Failures
  <1>6. CalTypes' /\ InHand' /\ Histories' /\ Undisturbed'
    BY <1>2, <1>5, FailureKeeps
  <1>7. Retained'
    <2>1. Cal!Known' = Cal!Known
      BY <1>2 DEF Cal!Known
    <2>2. IsFiniteSet(Named) /\ Cardinality(Named) \in Nat /\ faults.lost \in Nat
      BY <1>1, NamedIsFinite, FailuresAreCounted
    <2>3. CASE identity = checkpoint
      <3>1. Named' = Named /\ faults'.lost = faults.lost
        BY <1>2, <1>4, <1>5, <2>1, <2>2, <2>3 DEF Named
      <3> QED BY <1>1, <1>2, <2>3, <3>1 DEF Retained
    <2>4. CASE identity # checkpoint
      <3>1. checkpoint = "none" /\ identity # "none"
        BY <1>1, <2>4 DEF CalTypes
      <3>2. Named' \subseteq Named
        BY <1>2, <2>1, <3>1 DEF Named
      <3>3. Cardinality(Named') <= Cardinality(Named) /\ Cardinality(Named') \in Nat
        BY <2>2, <3>2, FS_Subset, FS_CardinalityType
      <3>4. Cardinality(Named) <= faults.lost + 1
        BY <1>1, <3>1 DEF Retained
      <3>5. Cardinality(Named') <= faults'.lost + 0
        BY <1>4, <1>5, <2>2, <2>4, <3>3, <3>4
      <3> QED BY <1>2, <3>1, <3>5 DEF Retained
    <2> QED BY <2>3, <2>4
  <1> QED BY <1>6, <1>7 DEF CalInv, Histories

LEMMA CalKeeps == CalInv /\ [Next]_vars => CalInv'
  <1> SUFFICES ASSUME CalInv, [Next]_vars PROVE CalInv'
    OBVIOUS
  <1>1. CASE UNCHANGED calVars
    <2>1. UNCHANGED <<clock, observations, calendar, revisions, identity, checkpoint, sync, faults>>
      BY <1>1 DEF calVars
    <2>2. CalTypes' /\ InHand'
      BY <2>1 DEF CalInv, CalTypes, InHand, Fresh, Revised, Rev, LastOf, Content
    <2>3. Histories'
      <3>1. CalTypes /\ Histories /\ Failures' = Failures /\ Failures \in Nat
        BY <2>1, CalParts, FailuresAreCounted DEF Failures
      <3> QED BY <2>1, <2>2, <3>1, HistoriesRest DEF Owed, LastOf, Content
    <2>4. Undisturbed'
      BY <2>1, CalParts, UndisturbedRests DEF Done
    <2>5. Retained'
      BY <2>1, CalParts, RetainedRests
    <2> QED BY <2>2, <2>3, <2>4, <2>5 DEF CalInv, Histories
  <1>2. CASE Cal!Next
    <2>1. CASE Cal!FetchNothing
      BY <2>1, MovingOnKeeps DEF Cal!FetchNothing, Cal!At, Cal!Goto
    <2>2. CASE Cal!Snapshot
      BY <2>2, MovingOnKeeps DEF Cal!Snapshot, Cal!At, Cal!Goto
    <2>3. CASE Cal!Checkpoint
      BY <2>3, MovingOnKeeps DEF Cal!Checkpoint, Cal!At, Cal!Goto
    <2> QED BY <1>2, <2>1, <2>2, <2>3, BeginKeeps, FetchKeeps, ObserveKeeps, NormalizeKeeps,
               ReviseKeeps, StoreKeeps, ErrorKeeps, CrashKeeps DEF Cal!Next
  <1> QED BY <1>1, <1>2, CalSteps

LEMMA CalInvHolds == Spec => []CalInv
  BY CalStarts, CalKeeps, PTL DEF Spec

-----------------------------------------------------------------------------
(* One history.                                                             *)

LEMMA CalCount == \A S : Cal!Cardinality(S) = Cardinality(S)
  BY DEF Cal!Cardinality, Cardinality, Cal!IsFiniteSet, IsFiniteSet

(* Nothing is owed and nothing was repeated while nothing has failed.       *)
LEMMA Unbroken ==
  ASSUME CalInv, Failures = 0, NEW id \in Ids
  PROVE  ~Owed(id) /\ Cal!Repeats(id) = {}
  <1>1. CalTypes /\ Paid(id)
    BY DEF CalInv
  <1>2. IsFiniteSet(Cal!Repeats(id)) /\ Cardinality(Cal!Repeats(id)) \in Nat
    BY <1>1, RepeatsAreFinite
  <1>3. ~Owed(id) /\ Cardinality(Cal!Repeats(id)) = 0
    BY <1>1, <1>2 DEF Paid
  <1> QED BY <1>2, <1>3, FS_EmptySet

(* There is one event, or as many more as crashes lost identities; and its  *)
(* revisions lead from one to the next and to what is stored, save as many  *)
(* repetitions as there were failures (service.py:333, :335).               *)
THEOREM EventsHaveOneHistory == Spec => []OneHistory
  <1>1. CalInv => OneHistory
    <2> SUFFICES ASSUME CalInv PROVE OneHistory
      OBVIOUS
    <2>1. CalTypes /\ Histories /\ Retained
      BY CalParts
    <2>2. Cardinality(Cal!Known) <= 1 + faults.lost
      <3>1. IsFiniteSet(Named) /\ Cardinality(Named) \in Nat /\ faults.lost \in Nat
        BY <2>1, NamedIsFinite, FailuresAreCounted
      <3>2. Cal!Known \subseteq Named
        BY DEF Named
      <3>3. Cardinality(Cal!Known) <= Cardinality(Named) /\ Cardinality(Cal!Known) \in Nat
        BY <3>1, <3>2, FS_Subset, FS_CardinalityType
      <3>4. Cardinality(Named) <= faults.lost + 1
        BY <2>1, <3>1 DEF Retained
      <3> QED BY <3>1, <3>3, <3>4
    <2>3. ASSUME NEW id \in Cal!Known
          PROVE  /\ \A n \in Cal!Repeats(id) : revisions[id][n + 1].was = revisions[id][n].was
                 /\ Cardinality(Cal!Repeats(id)) <= Failures
                 /\ Content(id) \in {LastOf(id).is, LastOf(id).was}
                 /\ Failures = 0 /\ sync.pc = "idle" => Content(id) = LastOf(id).is
      <3>1. id \in Ids /\ calendar[id] # Cal!NoRow
        BY DEF Cal!Known, Ids
      <3>2. Chained(id) /\ Led(id) /\ Paid(id)
        BY <2>1, <3>1 DEF Histories
      <3>3. \A n \in Cal!Repeats(id) : revisions[id][n + 1].was = revisions[id][n].was
        <4> SUFFICES ASSUME NEW n \in Cal!Repeats(id)
                     PROVE  revisions[id][n + 1].was = revisions[id][n].was
          OBVIOUS
        <4>1. Len(revisions[id]) \in Nat
          BY <2>1, <3>1, RevisionIs
        <4>2. n \in 1..(Len(revisions[id]) - 1) /\ revisions[id][n + 1].was # revisions[id][n].is
          BY DEF Cal!Repeats
        <4>3. n + 1 \in Revised(id) /\ n + 1 > 1 /\ (n + 1) - 1 = n
          BY <4>1, <4>2 DEF Revised
        <4>4. Rev(id, n + 1).was \in {Rev(id, n).is, Rev(id, n).was}
          BY <3>2, <4>3 DEF Chained
        <4> QED BY <4>2, <4>4 DEF Rev
      <3>4. Cardinality(Cal!Repeats(id)) <= Failures
        <4>1. Cardinality(Cal!Repeats(id)) \in Nat /\ Failures \in Nat
          BY <2>1, <3>1, RepeatsAreFinite, FailuresAreCounted
        <4> QED BY <3>2, <4>1 DEF Paid
      <3>5. revisions[id] # << >> /\ Content(id) \in {LastOf(id).is, LastOf(id).was}
        BY <3>1, <3>2 DEF Led
      <3>6. Failures = 0 /\ sync.pc = "idle" => Content(id) = LastOf(id).is
        BY <3>1, <3>5, Unbroken DEF Owed
      <3> QED BY <3>3, <3>4, <3>5, <3>6
    <2> QED BY <2>2, <2>3, CalCount
            DEF OneHistory, Cal!OneHistory, Cal!NoFault, Cal!At, Cal!Last, Failures, Content, LastOf
  <1> QED BY <1>1, CalInvHolds, PTL

-----------------------------------------------------------------------------
(* Reads of the past.                                                       *)

LEMMA LeastOfNat ==
  ASSUME NEW S, S \subseteq Nat, S # {}
  PROVE  \E x \in S : \A y \in S : x <= y
  <1>1. \E x \in S : \A y \in S : ~(<<y, x>> \in OpToRel(<, Nat))
    BY NatLessThanWellFounded, WFMin
  <1>2. \A x, y \in S : ~(<<y, x>> \in OpToRel(<, Nat)) => x <= y
    BY DEF OpToRel
  <1> QED BY <1>1, <1>2

LEMMA LeastIs ==
  ASSUME NEW S, S \subseteq Nat, S # {}
  PROVE  Cal!Min(S) \in S /\ \A y \in S : Cal!Min(S) <= y
  BY LeastOfNat DEF Cal!Min

LEMMA Earlier ==
  ASSUME CalTypes, NEW id \in Ids, Ordered(id),
         NEW m \in Revised(id), NEW n \in Revised(id), m <= n
  PROVE  Rev(id, m).at <= Rev(id, n).at
  <1>1. Rev(id, m).at \in 1..clock /\ Rev(id, n).at \in 1..clock /\ clock \in Nat
    BY RevisionIs DEF CalTypes
  <1>2. CASE m = n
    BY <1>1, <1>2
  <1>3. CASE m # n
    <2>1. m < n
      BY <1>3, RevisionIs DEF Revised
    <2> QED BY <1>1, <2>1 DEF Ordered
  <1> QED BY <1>2, <1>3

(* What is undone back to b, and what is then read.                         *)
Before(id, b) ==
  IF Cal!Undone(id, b) = {} THEN Content(id) ELSE Rev(id, Cal!Min(Cal!Undone(id, b))).was

LEMMA FirstUndone ==
  ASSUME CalTypes, NEW id \in Ids, Ordered(id), NEW b \in 0..clock,
         NEW m \in Revised(id), m + 1 \in Revised(id),
         Rev(id, m).at <= b, Rev(id, m + 1).at > b
  PROVE  Before(id, b) = Rev(id, m + 1).was
  <1> DEFINE U == Cal!Undone(id, b)
  <1>1. Len(revisions[id]) \in Nat /\ clock \in Nat
    BY RevisionIs DEF CalTypes
  <1>2. U \subseteq Revised(id) /\ U \subseteq Nat /\ m + 1 \in U
    BY <1>1 DEF Cal!Undone, Revised, Rev
  <1>3. \A n \in U : Rev(id, n).at > b
    BY DEF Cal!Undone, Rev
  <1>4. \A n \in U : m + 1 <= n
    <2> SUFFICES ASSUME NEW n \in U, ~(m + 1 <= n) PROVE FALSE
      OBVIOUS
    <2>1. n \in Nat /\ m \in Nat
      BY <1>1, <1>2 DEF Revised
    <2>2. n <= m
      BY <2>1
    <2>3. Rev(id, n).at <= Rev(id, m).at
      BY <1>2, <2>2, Earlier
    <2>4. /\ Rev(id, n).at \in Nat /\ Rev(id, m).at \in Nat /\ b \in Nat /\ Rev(id, n).at > b
      BY <1>1, <1>2, <1>3, RevisionIs
    <2> QED BY <2>3, <2>4
  <1>5. Cal!Min(U) = m + 1
    <2>1. U # {}
      BY <1>2
    <2> HIDE DEF U
    <2>2. Cal!Min(U) \in U /\ Cal!Min(U) <= m + 1
      BY <1>2, <2>1, LeastIs
    <2>3. m + 1 <= Cal!Min(U) /\ Cal!Min(U) \in Nat /\ m + 1 \in Nat
      BY <1>2, <1>4, <2>2
    <2> QED BY <2>2, <2>3
  <1> QED BY <1>2, <1>5 DEF Before

(* Whoever agrees with that agrees with the values that are read.           *)
LEMMA AgreementIsRead ==
  ASSUME CalTypes, NEW id \in Ids, NEW b \in 0..clock, NEW c, Agree(c, Before(id, b))
  PROVE  c.value = Cal!ValueAt(id, b) /\ c.schedule \in {Cal!ScheduleAt(id, b), "tentative"}
  <1> DEFINE U == Cal!Undone(id, b)
             dated == { n \in U : revisions[id][n].was.schedule # "tentative" }
  <1>1. U \subseteq Nat
    BY RevisionIs DEF Cal!Undone
  <1>2. CASE U = {}
    <2>1. Before(id, b) = Content(id) /\ dated = {}
      BY <1>2 DEF Before
    <2>2. c.value = Cal!ValueAt(id, b)
      BY <1>2, <2>1 DEF Cal!ValueAt, Agree, Content
    <2>3. c.schedule = Cal!ScheduleAt(id, b)
      BY <2>1 DEF Cal!ScheduleAt, Agree, Content
    <2> QED BY <2>2, <2>3
  <1>3. CASE U # {}
    <2> DEFINE m == Cal!Min(U)
    <2>1. Before(id, b) = revisions[id][m].was
      BY <1>3 DEF Before, Rev
    <2>2. c.value = Cal!ValueAt(id, b) /\ c.schedule = revisions[id][m].was.schedule
      BY <1>3, <2>1 DEF Cal!ValueAt, Agree
    <2>3. c.schedule # "tentative" => c.schedule = Cal!ScheduleAt(id, b)
      <3> SUFFICES ASSUME c.schedule # "tentative" PROVE c.schedule = Cal!ScheduleAt(id, b)
        OBVIOUS
      <3>1. m \in U /\ \A n \in U : m <= n
        <4> HIDE DEF U
        <4> QED BY <1>1, <1>3, LeastIs
      <3>2. m \in dated /\ dated \subseteq U
        BY <2>2, <3>1
      <3>3. Cal!Min(dated) \in dated /\ Cal!Min(dated) <= m
        <4>1. dated \subseteq Nat /\ dated # {}
          BY <1>1, <3>2
        <4> HIDE DEF dated, m
        <4> QED BY <3>2, <4>1, LeastIs
      <3>4. Cal!Min(dated) = m
        <4>1. Cal!Min(dated) \in U
          BY <3>2, <3>3
        <4>2. m <= Cal!Min(dated) /\ m \in Nat /\ Cal!Min(dated) \in Nat
          BY <1>1, <3>1, <4>1
        <4> HIDE DEF dated, m
        <4> QED BY <3>3, <4>2
      <3>5. dated # {}
        BY <3>2
      <3> QED BY <2>2, <3>4, <3>5 DEF Cal!ScheduleAt
    <2> QED BY <2>2, <2>3
  <1> QED BY <1>2, <1>3

(* Where a read of the past finds its state: an observation made by then,   *)
(* or a failure that made the event be discovered again.                    *)
LEMMA PastIsObserved ==
  ASSUME CalInv, NEW id \in Cal!Known, NEW b \in 0..clock, Cal!Visible(id, b)
  PROVE  \/ Failures # 0 /\ Cal!Rediscovered(id, b) /\ Cal!ValueAt(id, b) = "none"
         \/ \E o \in observations : o.at <= b /\ Agree(o.content, Before(id, b))
  <1> DEFINE U == Cal!Undone(id, b)
             len == Len(revisions[id])
             m == Cal!Min(U)
  <1>1. CalTypes /\ id \in Ids /\ calendar[id] # Cal!NoRow
    BY DEF CalInv, Cal!Known, Ids
  <1>2. Ordered(id) /\ Chained(id) /\ Led(id) /\ Paid(id)
    BY <1>1 DEF CalInv
  <1>3. len \in Nat /\ Revised(id) = 1..len /\ clock \in Nat
    BY <1>1, RevisionIs DEF Revised, CalTypes
  <1>4. \A n \in 1..len : Rev(id, n).at \in Nat
    BY <1>1, <1>3, RevisionIs
  <1>5. U = { n \in 1..len : Rev(id, n).at > b }
    BY DEF Cal!Undone, Rev
  <1> HIDE DEF len
  <1>6. \A n \in 1..len : \E o \in observations : o.at = Rev(id, n).at /\ Agree(o.content, Rev(id, n).is)
    BY <1>2, <1>3 DEF Chained
  <1>7. CASE U = {}
    <2>1. \A n \in 1..len : Rev(id, n).at <= b
      BY <1>3, <1>4, <1>5, <1>7
    <2>2. len \in 1..len /\ Rev(id, len) = LastOf(id)
      <3>1. revisions[id] # << >>
        BY <1>1, <1>2 DEF Led
      <3>2. len > 0
        BY <1>1, <3>1, RevisionIs DEF len
      <3> QED BY <1>3, <3>2 DEF Rev, LastOf, len
    <2>3. Content(id) \in {Rev(id, len).is, Rev(id, len).was} /\ Content(id).status # "none"
      BY <1>1, <1>2, <2>2 DEF Led
    <2>4. \E n \in 1..len : Content(id) = Rev(id, n).is
      <3>1. CASE Content(id) = Rev(id, len).is
        BY <2>2, <3>1
      <3>2. CASE Content(id) = Rev(id, len).was
        <4>1. Rev(id, len).was # Cal!Unknown
          BY <2>3, <3>2, CalendarData
        <4>2. PICK n \in 1..(len - 1) : Rev(id, len).was = Rev(id, n).is
          BY <1>2, <1>3, <2>2, <4>1 DEF Chained
        <4>3. n \in 1..len
          BY <1>3
        <4> QED BY <3>2, <4>2, <4>3
      <3> QED BY <2>3, <3>1, <3>2
    <2>5. Before(id, b) = Content(id)
      BY <1>7 DEF Before
    <2> QED BY <1>6, <2>1, <2>4, <2>5
  <1>8. CASE U # {}
    <2>1. m \in U /\ \A n \in U : m <= n
      <3>1. U \subseteq Nat
        BY <1>3, <1>5
      <3> HIDE DEF U
      <3> QED BY <1>8, <3>1, LeastIs
    <2>2. Before(id, b) = Rev(id, m).was
      BY <1>8 DEF Before
    <2> HIDE DEF m
    <2>3. m \in 1..len /\ Rev(id, m).at > b
      BY <1>5, <2>1
    <2>4. \A n \in 1..(m - 1) : n \in 1..len /\ Rev(id, n).at <= b
      <3> SUFFICES ASSUME NEW n \in 1..(m - 1) PROVE n \in 1..len /\ Rev(id, n).at <= b
        OBVIOUS
      <3>1. n \in 1..len /\ ~(m <= n)
        BY <1>3, <2>3
      <3>2. n \notin U
        BY <2>1, <3>1
      <3>3. b \in Nat /\ Rev(id, n).at \in Nat
        BY <1>3, <1>4, <3>1
      <3> QED BY <1>5, <3>1, <3>2, <3>3
    <2>5. m > 1
      <3>1. PICK k \in 1..len : Rev(id, k).at <= b
        BY DEF Cal!Visible, Rev, len
      <3>2. k \notin U /\ k # m
        BY <1>3, <1>4, <1>5, <2>1, <3>1
      <3>3. CASE m = 1
        <4>1. Rev(id, m).at <= Rev(id, k).at
          BY <1>1, <1>2, <1>3, <2>3, <3>3, Earlier
        <4> QED BY <1>3, <1>4, <2>3, <3>1, <4>1
      <3> QED BY <1>3, <2>3, <3>3
    <2>6. CASE Rev(id, m).was = Cal!Unknown
      <3>1. Cal!Rediscovered(id, b)
        BY <2>1, <2>6 DEF Cal!Rediscovered, Rev
      <3>2. Cal!ValueAt(id, b) = "none"
        BY <1>8, <2>6, CalendarData DEF Cal!ValueAt, Rev, m
      <3>3. Failures # 0
        <4>1. m - 1 \in 1..(len - 1) /\ m - 1 \in 1..len /\ (m - 1) + 1 = m
          BY <1>3, <2>3, <2>5
        <4>2. Rev(id, m - 1).is.status # "none"
          BY <1>2, <1>3, <4>1 DEF Chained
        <4>3. Rev(id, m).was # Rev(id, m - 1).is
          BY <2>6, <4>2, CalendarData
        <4>4. m - 1 \in Cal!Repeats(id)
          BY <4>1, <4>3 DEF Cal!Repeats, Rev, len
        <4> QED BY <1>1, <4>4, Unbroken
      <3> QED BY <3>1, <3>2, <3>3
    <2>7. CASE Rev(id, m).was # Cal!Unknown
      <3>1. PICK n \in 1..(m - 1) : Rev(id, m).was = Rev(id, n).is
        BY <1>2, <1>3, <2>3, <2>7 DEF Chained
      <3>2. PICK o \in observations : o.at = Rev(id, n).at /\ Agree(o.content, Rev(id, n).is)
        BY <1>6, <2>4
      <3> QED BY <2>2, <2>4, <3>1, <3>2
    <2> QED BY <2>6, <2>7
  <1> QED BY <1>7, <1>8

(* The newest observation made by then says what is read, while nothing     *)
(* failed.                                                                  *)
LEMMA NewestIsRead ==
  ASSUME CalInv, NEW id \in Cal!Known, NEW b \in 0..clock, Cal!Visible(id, b),
         Failures = 0, sync.pc = "idle"
  PROVE  \E o \in observations :
           /\ o.at <= b /\ Agree(o.content, Before(id, b))
           /\ \A p \in observations : p.at <= b => p.at <= o.at
  <1> DEFINE len == Len(revisions[id])
  <1>1. CalTypes /\ Undisturbed /\ id \in Ids /\ calendar[id] # Cal!NoRow
    BY DEF CalInv, Cal!Known, Ids
  <1>2. Ordered(id) /\ Chained(id) /\ Led(id)
    BY <1>1 DEF CalInv
  <1>3. len \in Nat /\ Revised(id) = 1..len /\ clock \in Nat /\ b \in Nat
    BY <1>1, RevisionIs DEF Revised, CalTypes
  <1>4. \A n \in 1..len : Rev(id, n).at \in Nat
    BY <1>1, <1>3, RevisionIs
  <1>5. revisions[id] # << >>
    BY <1>1, <1>2 DEF Led
  <1>6. \A o \in observations : o.at \in Nat
    BY <1>1 DEF CalTypes
  <1> HIDE DEF len
  <1>7. \A n \in 1..len : \E o \in observations : o.at = Rev(id, n).at
    BY <1>2, <1>3 DEF Chained
  <1>8. PICK o \in observations : o.at <= b /\ \A p \in observations : p.at <= b => p.at <= o.at
    <2> DEFINE Past == { p \in observations : p.at <= b }
               Ages == { b - p.at : p \in Past }
    <2>1. \E p \in observations : p.at <= b
      <3>1. PICK k \in 1..len : Rev(id, k).at <= b
        BY DEF Cal!Visible, Rev, len
      <3> QED BY <1>7, <3>1
    <2>2. Ages \subseteq Nat /\ Ages # {}
      <3>1. \A p \in Past : b - p.at \in Nat
        BY <1>3, <1>6
      <3>2. Past # {}
        BY <2>1
      <3> HIDE DEF Past
      <3> QED BY <3>1, <3>2
    <2>3. PICK a \in Ages : \A c \in Ages : a <= c
      <3> HIDE DEF Ages
      <3> QED BY <2>2, LeastOfNat
    <2>4. PICK o \in Past : a = b - o.at
      OBVIOUS
    <2>5. \A p \in Past : b - o.at <= b - p.at
      BY <2>3, <2>4
    <2>6. \A p \in Past : p.at <= o.at
      BY <1>3, <1>6, <2>5
    <2> QED BY <2>4, <2>6
  <1>9. identity = id
    BY <1>1, <1>5 DEF Undisturbed
  <1>10. PICK n \in 1..len : /\ Rev(id, n).at <= o.at /\ Agree(o.content, Rev(id, n).is)
                             /\ n + 1 \in 1..len => o.at < Rev(id, n + 1).at
    BY <1>1, <1>3, <1>9 DEF Undisturbed, Done, Accounted
  <1>11. Rev(id, n).at <= b
    BY <1>3, <1>4, <1>6, <1>8, <1>10
  <1>12. ~Owed(id) /\ Cal!Repeats(id) = {}
    BY <1>1, Unbroken
  <1>13. Before(id, b) = Rev(id, n).is
    <2>1. CASE n + 1 \in 1..len
      <3>1. Rev(id, n + 1).at > b
        <4>1. PICK p \in observations : p.at = Rev(id, n + 1).at
          BY <1>7, <2>1
        <4>2. ~(p.at <= b)
          BY <1>6, <1>8, <1>10, <2>1, <4>1
        <4> QED BY <1>3, <1>6, <4>1, <4>2
      <3>2. Before(id, b) = Rev(id, n + 1).was
        BY <1>1, <1>2, <1>3, <1>11, <2>1, <3>1, FirstUndone
      <3>3. n \in 1..(len - 1)
        BY <1>3, <2>1
      <3>4. Rev(id, n + 1).was = Rev(id, n).is
        BY <1>12, <3>3 DEF Cal!Repeats, Rev, len
      <3> QED BY <3>2, <3>4
    <2>2. CASE n + 1 \notin 1..len
      <3>1. n = len
        BY <1>3, <2>2
      <3>2. \A k \in 1..len : ~(Rev(id, k).at > b)
        <4> SUFFICES ASSUME NEW k \in 1..len PROVE ~(Rev(id, k).at > b)
          OBVIOUS
        <4>1. k <= n
          BY <1>3, <3>1
        <4>2. Rev(id, k).at <= Rev(id, n).at
          BY <1>1, <1>2, <1>3, <4>1, Earlier
        <4> QED BY <1>3, <1>4, <1>11, <4>2
      <3>3. Cal!Undone(id, b) = {}
        BY <3>2 DEF Cal!Undone, Rev, len
      <3>4. Before(id, b) = Content(id)
        BY <3>3 DEF Before
      <3>5. Rev(id, n) = LastOf(id)
        BY <3>1 DEF Rev, LastOf, len
      <3>6. Content(id) = LastOf(id).is
        BY <1>5, <1>12 DEF Owed
      <3> QED BY <3>4, <3>5, <3>6
    <2> QED BY <2>1, <2>2
  <1> QED BY <1>8, <1>10, <1>13

(* Whatever is read of an event's past was observed by then; it is the      *)
(* newest observation if nothing failed, and a discovery made twice is the  *)
(* only exception, which takes a failure (repository.py:329).               *)
THEOREM ThePastIsKept == Spec => []PastIsKept
  <1>1. CalInv => PastIsKept
    <2> SUFFICES ASSUME CalInv, NEW id \in Cal!Known, NEW b \in 0..clock, Cal!Visible(id, b)
                 PROVE
      \/ Failures # 0 /\ Cal!Rediscovered(id, b) /\ Cal!ValueAt(id, b) = "none"
      \/ \E o \in observations :
           /\ o.at <= b
           /\ o.content.value = Cal!ValueAt(id, b)
           /\ o.content.schedule \in {Cal!ScheduleAt(id, b), "tentative"}
           /\ Failures = 0 /\ sync.pc = "idle" =>
                \A p \in observations : p.at <= b => p.at <= o.at
      BY DEF PastIsKept, Cal!PastIsKept, Cal!NoFault, Cal!At, Failures
    <2>1. CalTypes /\ id \in Ids
      BY DEF CalInv, Cal!Known, Ids
    <2>2. \A o \in observations : Agree(o.content, Before(id, b)) =>
            /\ o.content.value = Cal!ValueAt(id, b)
            /\ o.content.schedule \in {Cal!ScheduleAt(id, b), "tentative"}
      BY <2>1, AgreementIsRead
    <2>3. CASE Failures = 0 /\ sync.pc = "idle"
      BY <2>2, <2>3, NewestIsRead
    <2>4. CASE ~(Failures = 0 /\ sync.pc = "idle")
      BY <2>2, <2>4, PastIsObserved
    <2> QED BY <2>3, <2>4
  <1> QED BY <1>1, CalInvHolds, PTL

-----------------------------------------------------------------------------
(* The types as the model states them: fetches and failures stay within     *)
(* their bounds, and only a crash loses an identity.                        *)

CalBounds ==
  /\ clock <= MaxFetches
  /\ sync.pc = "fetch" => clock < MaxFetches
  /\ Failures <= CalendarFaults
  /\ faults.lost <= faults.crashes
  /\ delay \in {"none", "adaptive", "normal", "backoff"}

LEMMA CalBoundsKept == CalInv /\ CalBounds /\ [Next]_vars => CalBounds'
  <1> SUFFICES ASSUME CalInv, CalBounds, [Next]_vars PROVE CalBounds'
    OBVIOUS
  <1>1. /\ clock \in Nat /\ faults \in [errors : Nat, crashes : Nat, lost : Nat]
        /\ sync \in [pc : Cal!Places, boundary : 0..clock, at : 0..clock, item : Items]
    BY DEF CalInv, CalTypes
  <1>2. /\ faults.errors \in Nat /\ faults.crashes \in Nat /\ faults.lost \in Nat
        /\ MaxFetches \in Nat /\ CalendarFaults \in Nat
    BY <1>1
  <1>3. ASSUME UNCHANGED <<clock, faults>>, sync'.pc # "fetch" \/ UNCHANGED sync,
               delay' \in {"none", "adaptive", "normal", "backoff"}
        PROVE  CalBounds'
    BY <1>3 DEF CalBounds, Failures
  <1>4. CASE Cal!Begin
    <2>1. clock < MaxFetches /\ UNCHANGED <<clock, faults, delay>>
      BY <1>4 DEF Cal!Begin
    <2> QED BY <2>1 DEF CalBounds, Failures
  <1>5. CASE Cal!Fetch
    <2>1. /\ sync.pc = "fetch" /\ clock' = clock + 1 /\ UNCHANGED <<faults, delay>>
          /\ sync'.pc = "observe"
      BY <1>1, <1>5 DEF Cal!Fetch, Cal!At
    <2>2. clock' <= MaxFetches
      BY <1>1, <1>2, <2>1 DEF CalBounds
    <2> QED BY <2>1, <2>2 DEF CalBounds, Failures
  <1>6. CASE Cal!FetchNothing \/ Cal!Observe \/ Cal!Revise \/ Cal!Store \/ Cal!Checkpoint
    <2>1. UNCHANGED <<clock, faults, delay>> /\ sync'.pc # "fetch"
      BY <1>1, <1>6 DEF Cal!FetchNothing, Cal!Observe, Cal!Revise, Cal!Store, Cal!Checkpoint, Cal!Goto
    <2> QED BY <1>3, <2>1 DEF CalBounds
  <1>7. CASE Cal!Normalize
    <2>1. UNCHANGED <<clock, faults, delay>>
      BY <1>7 DEF Cal!Normalize
    <2>2. PICK status : sync' = [sync EXCEPT !.pc = "revise", !.item.status = status]
      BY <1>7 DEF Cal!Normalize
    <2>3. sync'.pc = "revise"
      BY <1>1, <2>2
    <2> QED BY <1>3, <2>1, <2>3 DEF CalBounds
  <1>8. CASE Cal!Snapshot
    <2>1. UNCHANGED <<clock, faults>> /\ sync'.pc # "fetch" /\ delay' \in {"adaptive", "normal"}
      BY <1>1, <1>8 DEF Cal!Snapshot, Cal!NextDelay, Cal!Goto
    <2> QED BY <1>3, <2>1
  <1>9. CASE Cal!Error
    <2>1. /\ Failures < CalendarFaults /\ faults' = [faults EXCEPT !.errors = @ + 1]
          /\ sync' = Cal!Idle /\ delay' = "backoff" /\ UNCHANGED clock
      BY <1>9 DEF Cal!Error, Failures
    <2>2. /\ faults'.errors = faults.errors + 1 /\ faults'.crashes = faults.crashes
          /\ faults'.lost = faults.lost
      BY <1>1, <2>1
    <2>3. Failures' <= CalendarFaults
      BY <1>2, <2>1, <2>2 DEF Failures
    <2> QED BY <2>1, <2>2, <2>3 DEF CalBounds, Cal!Idle
  <1>10. CASE Cal!Crash
    <2> DEFINE more == IF identity # checkpoint THEN 1 ELSE 0
    <2>1. /\ Failures < CalendarFaults
          /\ faults' = [faults EXCEPT !.crashes = @ + 1, !.lost = @ + more]
          /\ sync' = Cal!Idle /\ delay' = "none" /\ UNCHANGED clock
      BY <1>10 DEF Cal!Crash, Failures
    <2>2. more \in {0, 1}
      OBVIOUS
    <2> HIDE DEF more
    <2>3. /\ faults'.errors = faults.errors /\ faults'.crashes = faults.crashes + 1
          /\ faults'.lost = faults.lost + more
      BY <1>1, <2>1
    <2>4. Failures' <= CalendarFaults
      BY <1>2, <2>1, <2>3 DEF Failures
    <2>5. faults'.lost <= faults'.crashes
      BY <1>2, <2>2, <2>3 DEF CalBounds
    <2> QED BY <2>1, <2>4, <2>5 DEF CalBounds, Cal!Idle
  <1>11. CASE UNCHANGED calVars
    BY <1>3, <1>11 DEF calVars, CalBounds
  <1> QED BY <1>4, <1>5, <1>6, <1>7, <1>8, <1>9, <1>10, <1>11, CalSteps DEF Cal!Next

LEMMA CalIsTyped == Spec => []Cal!TypeOK
  <1>1. Init => CalBounds
    BY DEF Init, Cal!Init, Cal!Idle, CalBounds, Failures
  <1>2. CalInv /\ CalBounds => Cal!TypeOK
    <2> SUFFICES ASSUME CalInv, CalBounds PROVE Cal!TypeOK
      OBVIOUS
    <2>1. CalTypes /\ Histories
      BY CalParts
    <2>2. /\ clock \in Nat /\ MaxFetches \in Nat /\ CalendarFaults \in Nat
          /\ faults \in [errors : Nat, crashes : Nat, lost : Nat]
      BY <2>1 DEF CalTypes
    <2>3. clock \in 0..MaxFetches
      BY <2>2 DEF CalBounds
    <2>4. faults \in [errors : 0..CalendarFaults, crashes : 0..CalendarFaults, lost : 0..CalendarFaults]
      <3>1. /\ faults.errors \in Nat /\ faults.crashes \in Nat /\ faults.lost \in Nat
            /\ faults.errors + faults.crashes <= CalendarFaults /\ faults.lost <= faults.crashes
        BY <2>2 DEF CalBounds, Failures
      <3>2. /\ faults.errors \in 0..CalendarFaults /\ faults.crashes \in 0..CalendarFaults
            /\ faults.lost \in 0..CalendarFaults
        BY <2>2, <3>1
      <3> QED BY <2>2, <3>2
    <2>5. ASSUME NEW id \in Ids
          PROVE  revisions[id] \in Seq([at : 1..clock, was : Items, is : Items])
      <3>1. revisions[id] \in Seq(Revisions)
        BY <2>1 DEF CalTypes
      <3>2. ASSUME NEW n \in 1..Len(revisions[id])
            PROVE  revisions[id][n] \in [at : 1..clock, was : Items, is : Items]
        <4>1. revisions[id][n] \in Revisions
          BY <3>1, ElementOfSeq
        <4>2. revisions[id][n].at \in 1..clock
          BY <2>1 DEF CalTypes, Revised, Rev
        <4> QED BY <4>1, <4>2 DEF Revisions
      <3> DEFINE R == [at : 1..clock, was : Items, is : Items]
                 s == revisions[id]
      <3>3. Len(s) \in Nat /\ s = [n \in 1..Len(s) |-> s[n]]
        BY <3>1, LenProperties
      <3>4. \A n \in 1..Len(s) : s[n] \in R
        BY <3>2
      <3> HIDE DEF R, s
      <3>5. s \in [1..Len(s) -> R]
        BY <3>3, <3>4
      <3>6. s \in Seq(R)
        BY <3>3, <3>5, SeqDef
      <3> QED BY <3>6 DEF R, s
    <2>6. revisions \in [Ids -> Seq([at : 1..clock, was : Items, is : Items])]
      BY <2>1, <2>5 DEF CalTypes
    <2>7. checkpoint \in Ids \cup {"none"}
      BY <2>1 DEF CalTypes
    <2>8. ASSUME NEW id \in Cal!Known
          PROVE  /\ revisions[id] # << >>
                 /\ \E o \in observations : o.at = calendar[id].at
      BY <2>1 DEF Histories, Led, Cal!Known, Ids
    <2> QED BY <2>1, <2>3, <2>4, <2>6, <2>7, <2>8 DEF Cal!TypeOK, CalTypes, CalBounds, Items, Ids
  <1> QED BY <1>1, <1>2, CalInvHolds, CalBoundsKept, PTL DEF Spec
=============================================================================
