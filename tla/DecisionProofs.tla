--------------------------- MODULE DecisionProofs ---------------------------
(***************************************************************************)
(* Proofs about the decision gate of InProcess, for any number of          *)
(* evaluators and decisions, any evidence and times, and any lengths of    *)
(* the cooldowns, the lock and the validity of decisions.                  *)
(***************************************************************************)
EXTENDS InProcess, FiniteSetTheorems, SequenceTheorems, TLAPS

USE InProcessAssumption DEF Gate!DecisionAssumption

LEMMA GateSteps ==
  ASSUME [Next]_vars
  PROVE  Gate!Next \/ UNCHANGED gateVars
  BY DEF Next, vars

-----------------------------------------------------------------------------
(* Types.  What is stored of a decision suffices to see how it was judged.  *)

Gates == {"invalid", "hard", "insufficient", "soft"}
Decisions ==
  [asof : AsOfs, evidence : Evidences, decided : Nat, seen : Nat, state : Gate!States]
Evaluations(n) ==
  [pc : {"find", "save", "publish"}, asof : AsOfs, evidence : Evidences, decided : Nat, seen : 0..n]

GateTypes ==
  /\ now \in Nat
  /\ decisions \in Seq(Decisions) /\ events \in Seq(Nat)
  /\ Len(events) = Len(decisions)
  /\ DOMAIN job = Evaluators
  /\ \A e \in Evaluators : job[e] = Gate!Idle \/ job[e] \in Evaluations(Len(decisions))

(* What an evaluation may read of the decisions S.                          *)
Readings(S, asof, ev) ==
  LET R == { d \in S : d.asof <= asof }
  IN [ same : Gate!FirstOf(Gate!SameDirection(R, ev.label)),
       active : Gate!FirstOf({ d \in R : asof < Gate!ValidUntil(d) }),
       opposite : Gate!FirstOf({ d \in R : /\ d.state = "eligible"
                                           /\ Gate!Direction(d.evidence) \notin {ev.label, "neutral"}
                                           /\ Gate!ValidUntil(d) > asof }) ]
JudgedBy(d, S) ==
  \E h \in Readings(S, d.asof, d.evidence) :
    d.state = Gate!StateOf(Gate!Severities(d.asof, d.evidence, h))

(* A decision was judged by the history it saw, that of decisions before it. *)
Prefix(n) == { decisions[i] : i \in 1..n }
Judged(j) == decisions[j].seen < j /\ JudgedBy(decisions[j], Prefix(decisions[j].seen))
History == \A j \in Gate!D : Judged(j)

(* No input is decided twice; who may still publish a decision looked for   *)
(* it before it was stored.                                                 *)
Unique ==
  \A i, j \in Gate!D : Gate!IsOf(decisions[i], decisions[j].asof, decisions[j].evidence) => i = j
Racing(e, i) ==
  /\ job[e].pc \in {"save", "publish"}
  /\ Gate!IsOf(decisions[i], job[e].asof, job[e].evidence)
Racers(i) == { e \in Evaluators : Racing(e, i) }
Copies(i) == events[i] + Cardinality(Racers(i))
Raced == \A i \in Gate!D : Copies(i) <= Cardinality(Evaluators)

GateInv == GateTypes /\ History /\ Unique /\ Raced

-----------------------------------------------------------------------------
(* The policy.                                                              *)

LEMMA GatesOfBelow ==
  ASSUME NEW value \in Int, NEW observe \in Int, NEW eligible \in Int
  PROVE  /\ Gate!Below(value, observe, eligible) \subseteq Gates
         /\ value >= eligible /\ value >= observe => Gate!Below(value, observe, eligible) = {}
  <1>1. CASE value < observe
    BY <1>1 DEF Gate!Below, Gates
  <1>2. CASE value >= observe /\ value < eligible
    BY <1>2 DEF Gate!Below, Gates
  <1>3. CASE value >= observe /\ ~(value < eligible)
    BY <1>3 DEF Gate!Below, Gates
  <1> QED BY <1>1, <1>2, <1>3

LEMMA ReliefIsSmall == \A ev, h : Gate!Relief(ev, h) \in {0, 5}
  BY DEF Gate!Relief

(* Every set of severities is weighed, and only none at all is eligible.    *)
LEMMA StateOfGates ==
  ASSUME NEW S \in SUBSET Gates
  PROVE  /\ Gate!StateOf(S) \in Gate!States
         /\ Gate!StateOf(S) = "eligible" <=> S = {}
         /\ S \in {{}, {"hard"}} => Gate!StateOf(S) \in {"eligible", "blocked"}
  <1>1. CASE "invalid" \in S
    BY <1>1 DEF Gate!StateOf, Gate!States
  <1>2. CASE "invalid" \notin S /\ "hard" \in S
    <2>1. S \cap {"invalid", "hard"} = {"hard"}
      BY <1>2
    <2>2. S \cap {"invalid", "hard", "insufficient"} # {"insufficient"} /\ S # {"soft"} /\ S # {}
      BY <1>2
    <2> QED BY <1>2, <2>1, <2>2 DEF Gate!StateOf, Gate!States
  <1>3. CASE S \cap {"invalid", "hard"} = {} /\ "insufficient" \in S
    <2>1. S \cap {"invalid", "hard", "insufficient"} = {"insufficient"}
      BY <1>3
    <2>2. "invalid" \notin S /\ S \cap {"invalid", "hard"} # {"hard"} /\ S # {"soft"} /\ S # {}
      BY <1>3
    <2> QED BY <2>1, <2>2 DEF Gate!StateOf, Gate!States
  <1>4. CASE S = {"soft"}
    <2>1. "invalid" \notin S /\ S \cap {"invalid", "hard"} # {"hard"} /\ S # {}
          /\ S \cap {"invalid", "hard", "insufficient"} # {"insufficient"}
      BY <1>4
    <2> QED BY <1>4, <2>1 DEF Gate!StateOf, Gate!States
  <1>5. CASE S = {}
    <2>1. "invalid" \notin S /\ S \cap {"invalid", "hard"} # {"hard"} /\ S # {"soft"}
          /\ S \cap {"invalid", "hard", "insufficient"} # {"insufficient"}
      BY <1>5
    <2> QED BY <1>5, <2>1 DEF Gate!StateOf, Gate!States
  <1>6. \/ "invalid" \in S
        \/ "invalid" \notin S /\ "hard" \in S
        \/ S \cap {"invalid", "hard"} = {} /\ "insufficient" \in S
        \/ S = {"soft"}
        \/ S = {}
    BY DEF Gates
  <1> QED BY <1>1, <1>2, <1>3, <1>4, <1>5, <1>6

LEMMA EvidenceIs ==
  ASSUME NEW ev \in Evidences
  PROVE  /\ ev.strength \in Nat /\ ev.confidence \in Nat /\ ev.gates \subseteq Gates
         /\ ev.label \in {"bullish", "bearish", "neutral"}
         /\ ev.action \in {"BUY", "SELL", "HOLD", "none"}
  BY DEF Gate!Evidence, Gates

LEMMA SeveritiesAreGates ==
  ASSUME NEW ev \in Evidences, NEW asof, NEW h
  PROVE  Gate!Severities(asof, ev, h) \in SUBSET Gates
  <1>1. ev.strength \in Int /\ ev.confidence \in Int /\ ev.gates \subseteq Gates
    BY EvidenceIs
  <1>2. 45 - Gate!Relief(ev, h) \in Int /\ 70 - Gate!Relief(ev, h) \in Int
    BY ReliefIsSmall
  <1>3. /\ Gate!Below(ev.strength, 20, 45 - Gate!Relief(ev, h)) \subseteq Gates
        /\ Gate!Below(ev.confidence, 45, 70 - Gate!Relief(ev, h)) \subseteq Gates
    BY <1>1, <1>2, GatesOfBelow
  <1>4. "hard" \in Gates
    BY DEF Gates
  <1> QED BY <1>1, <1>3, <1>4 DEF Gate!Severities

(* An eligible decision was neither cooling nor reversing.                  *)
LEMMA EligibleIsFree ==
  ASSUME NEW ev \in Evidences, NEW asof, NEW h,
         Gate!StateOf(Gate!Severities(asof, ev, h)) = "eligible"
  PROVE  ~Gate!Cooling(asof, h)
  <1>1. Gate!Severities(asof, ev, h) = {}
    BY SeveritiesAreGates, StateOfGates
  <1> QED BY <1>1 DEF Gate!Severities

(* Sound evidence is eligible, or blocked by what was decided before.       *)
LEMMA SoundIsFreeOrBlocked ==
  ASSUME NEW ev \in Evidences, NEW asof, NEW h,
         ev.gates = {}, ev.strength >= 45, ev.confidence >= 70
  PROVE  /\ Gate!StateOf(Gate!Severities(asof, ev, h)) \in {"eligible", "blocked"}
         /\ ~Gate!Cooling(asof, h) /\ ~Gate!Reversing(asof, ev, h)
              => Gate!StateOf(Gate!Severities(asof, ev, h)) = "eligible"
  <1>1. ev.strength \in Int /\ ev.confidence \in Int
    BY EvidenceIs
  <1>2. /\ 45 - Gate!Relief(ev, h) \in Int /\ 70 - Gate!Relief(ev, h) \in Int
        /\ 45 - Gate!Relief(ev, h) <= 45 /\ 70 - Gate!Relief(ev, h) <= 70
    BY ReliefIsSmall
  <1>3. /\ Gate!Below(ev.strength, 20, 45 - Gate!Relief(ev, h)) = {}
        /\ Gate!Below(ev.confidence, 45, 70 - Gate!Relief(ev, h)) = {}
    <2> DEFINE r == Gate!Relief(ev, h)
    <2>1. ev.strength >= 45 - r /\ ev.strength >= 20
          /\ ev.confidence >= 70 - r /\ ev.confidence >= 45
      BY <1>1, <1>2
    <2> QED BY <1>1, <1>2, <2>1, GatesOfBelow
  <1>4. /\ Gate!Severities(asof, ev, h) \in {{}, {"hard"}}
        /\ ~Gate!Cooling(asof, h) /\ ~Gate!Reversing(asof, ev, h)
             => Gate!Severities(asof, ev, h) = {}
    BY <1>3 DEF Gate!Severities
  <1> QED BY <1>4, SeveritiesAreGates, StateOfGates

-----------------------------------------------------------------------------
(* What is stored stays, and so does what a decision saw.                   *)

LEMMA Appended ==
  ASSUME GateTypes, NEW x \in Decisions, decisions' = Append(decisions, x)
  PROVE  /\ decisions' \in Seq(Decisions) /\ Len(decisions') = Len(decisions) + 1
         /\ Len(decisions) \in Nat
         /\ \A i \in 1..Len(decisions) : decisions'[i] = decisions[i]
         /\ decisions'[Len(decisions) + 1] = x
  BY AppendProperties, LenProperties DEF GateTypes

LEMMA HistoriesAreReadings ==
  ASSUME NEW asof, NEW ev, NEW s
  PROVE  Gate!Histories(asof, ev, s) = Readings(Prefix(s), asof, ev)
  BY DEF Gate!Histories, Gate!Recent, Readings, Prefix

LEMMA JudgedStays ==
  ASSUME GateTypes, NEW j \in 1..Len(decisions), Judged(j),
         \A i \in 1..Len(decisions) : decisions'[i] = decisions[i]
  PROVE  Judged(j)'
  <1> DEFINE d == decisions[j]
             S == { decisions[i] : i \in 1..d.seen }
  <1>1. d \in Decisions /\ decisions'[j] = d
    BY ElementOfSeq DEF GateTypes
  <1>2. d.seen \in Nat /\ d.seen < j /\ Len(decisions) \in Nat
    BY <1>1, LenProperties DEF Judged, Decisions, GateTypes
  <1>3. \A i \in 1..d.seen : decisions'[i] = decisions[i]
    BY <1>2
  <1>4. { decisions'[i] : i \in 1..d.seen } = S
    BY <1>3
  <1>5. JudgedBy(d, S)
    BY DEF Judged, Prefix
  <1> QED BY <1>1, <1>2, <1>4, <1>5 DEF Judged, Prefix

-----------------------------------------------------------------------------
(* The steps.                                                               *)

(* A step that stores nothing.                                              *)
LEMMA HistoryFrame ==
  ASSUME GateTypes, History, Unique, UNCHANGED decisions
  PROVE  History' /\ Unique'
  <1>1. \A j \in 1..Len(decisions) : Judged(j)'
    BY JudgedStays DEF History, Gate!D
  <1>2. History'
    BY <1>1 DEF History, Gate!D
  <1>3. Unique'
    BY DEF Unique, Gate!D, Gate!IsOf
  <1> QED BY <1>2, <1>3

(* An evaluation moves on, with what it has.                                *)
LEMMA JobMoves ==
  ASSUME GateTypes, NEW e \in Evaluators, NEW new,
         new = Gate!Idle \/ new \in Evaluations(Len(decisions)),
         job' = [job EXCEPT ![e] = new], UNCHANGED <<now, decisions>>,
         events' \in Seq(Nat), Len(events') = Len(decisions)
  PROVE  GateTypes'
  BY DEF GateTypes

LEMMA RacersAreFinite ==
  ASSUME NEW i
  PROVE  /\ IsFiniteSet(Racers(i)) /\ Cardinality(Racers(i)) \in Nat
         /\ Cardinality(Evaluators) \in Nat
         /\ Cardinality(Racers(i)) <= Cardinality(Evaluators)
         /\ \A e \in Evaluators : ~Racing(e, i) => Cardinality(Racers(i)) < Cardinality(Evaluators)
  <1>1. IsFiniteSet(Evaluators) /\ Racers(i) \subseteq Evaluators
    BY DEF Racers, Gate!IsFiniteSet, IsFiniteSet
  <1> QED BY <1>1, FS_Subset, FS_CardinalityType DEF Racers

(* Fewer race, nothing is published and nothing stored.                     *)
LEMMA FewerRace ==
  ASSUME GateTypes, Raced, UNCHANGED <<decisions, events>>,
         \A i \in Gate!D : Racers(i)' \subseteq Racers(i)
  PROVE  Raced'
  <1> SUFFICES ASSUME NEW i \in Gate!D PROVE Copies(i)' <= Cardinality(Evaluators)
    BY DEF Raced, Gate!D
  <1>1. Cardinality(Racers(i)') \in Nat /\ Cardinality(Racers(i)') <= Cardinality(Racers(i))
    BY RacersAreFinite, FS_Subset, FS_CardinalityType
  <1>2. events[i] \in Nat /\ Cardinality(Racers(i)) \in Nat /\ Cardinality(Evaluators) \in Nat
    BY RacersAreFinite, ElementOfSeq DEF GateTypes, Gate!D
  <1>3. events[i] + Cardinality(Racers(i)) <= Cardinality(Evaluators)
    BY DEF Raced, Copies
  <1>4. Copies(i)' = events[i] + Cardinality(Racers(i)')
    BY DEF Copies
  <1> QED BY <1>1, <1>2, <1>3, <1>4

LEMMA GateStarts == Init => GateInv
  <1> SUFFICES ASSUME Init PROVE GateInv
    OBVIOUS
  <1>1. /\ now \in Instants /\ decisions = << >> /\ events = << >>
        /\ job = [e \in Evaluators |-> Gate!Idle]
    BY DEF Init, Gate!Init
  <1>2. Gate!D = {}
    BY <1>1, EmptySeq DEF Gate!D
  <1>3. GateTypes
    BY <1>1, EmptySeq DEF GateTypes
  <1> QED BY <1>2, <1>3 DEF GateInv, History, Unique, Raced

LEMMA CollectKeeps ==
  ASSUME GateInv, NEW e \in Evaluators, NEW asof \in AsOfs, NEW ev \in Evidences,
         Gate!Collect(e, asof, ev)
  PROVE  GateInv'
  <1> DEFINE new == [pc |-> "find", asof |-> asof, evidence |-> ev, decided |-> now,
                     seen |-> Len(decisions)]
  <1>1. job' = [job EXCEPT ![e] = new] /\ UNCHANGED <<now, decisions, events>>
    BY DEF Gate!Collect
  <1>2. GateTypes /\ History /\ Unique /\ Raced
    BY DEF GateInv
  <1>3. new \in Evaluations(Len(decisions))
    BY <1>2, LenProperties DEF Evaluations, GateTypes
  <1>4. new.pc = "find"
    OBVIOUS
  <1> HIDE DEF new
  <1>5. GateTypes'
    BY <1>1, <1>2, <1>3, JobMoves DEF GateTypes
  <1>6. \A i \in Gate!D : Racers(i)' \subseteq Racers(i)
    BY <1>1, <1>2, <1>4 DEF Racers, Racing, GateTypes
  <1> QED BY <1>1, <1>2, <1>5, <1>6, HistoryFrame, FewerRace DEF GateInv

LEMMA FindKeeps ==
  ASSUME GateInv, NEW e \in Evaluators, Gate!Find(e)
  PROVE  GateInv'
  <1> DEFINE j == job[e]
             on == [j EXCEPT !.pc = "save"]
  <1>1. /\ j.pc = "find" /\ UNCHANGED <<now, decisions, events>>
        /\ job' = [job EXCEPT ![e] = IF Gate!Decided(j.asof, j.evidence) THEN Gate!Idle ELSE on]
    BY DEF Gate!Find, Gate!At
  <1>2. GateTypes /\ History /\ Unique /\ Raced
    BY DEF GateInv
  <1>3. j \in Evaluations(Len(decisions))
    BY <1>1, <1>2 DEF GateTypes, Gate!Idle
  <1>4. on \in Evaluations(Len(decisions)) /\ on.asof = j.asof /\ on.evidence = j.evidence
    BY <1>3 DEF Evaluations
  <1> HIDE DEF on
  <1>5. GateTypes'
    BY <1>1, <1>2, <1>4, JobMoves DEF GateTypes
  <1>6. \A i \in Gate!D : Racers(i)' \subseteq Racers(i)
    <2> SUFFICES ASSUME NEW i \in Gate!D, NEW f \in Evaluators, Racing(f, i)'
                 PROVE  Racing(f, i)
      BY DEF Racers
    <2>1. CASE f # e
      BY <1>1, <1>2, <2>1 DEF Racing, GateTypes
    <2>2. CASE f = e
      <3>1. job'[e] = on /\ ~Gate!Decided(j.asof, j.evidence)
        BY <1>1, <1>2, <2>2 DEF Racing, GateTypes, Gate!Idle
      <3>2. Gate!IsOf(decisions[i], j.asof, j.evidence)
        BY <1>1, <1>4, <2>2, <3>1 DEF Racing
      <3> QED BY <3>1, <3>2 DEF Gate!Decided, Gate!D
    <2> QED BY <2>1, <2>2
  <1> QED BY <1>1, <1>2, <1>5, <1>6, HistoryFrame, FewerRace DEF GateInv

LEMMA FailKeeps ==
  ASSUME GateInv, NEW e \in Evaluators, Gate!Fail(e)
  PROVE  GateInv'
  <1>1. job' = [job EXCEPT ![e] = Gate!Idle] /\ UNCHANGED <<now, decisions, events>>
    BY DEF Gate!Fail
  <1>2. GateTypes /\ History /\ Unique /\ Raced
    BY DEF GateInv
  <1>3. GateTypes'
    BY <1>1, <1>2, JobMoves DEF GateTypes
  <1>4. \A i \in Gate!D : Racers(i)' \subseteq Racers(i)
    BY <1>1, <1>2 DEF Racers, Racing, GateTypes, Gate!Idle
  <1> QED BY <1>1, <1>2, <1>3, <1>4, HistoryFrame, FewerRace DEF GateInv

LEMMA PublishKeeps ==
  ASSUME GateInv, NEW e \in Evaluators, Gate!Publish(e)
  PROVE  GateInv'
  <1> DEFINE j == job[e]
  <1>1. /\ j.pc = "publish" /\ UNCHANGED <<now, decisions>>
        /\ events' = [i \in 1..Len(events) |->
             IF Gate!IsOf(decisions[i], j.asof, j.evidence) THEN events[i] + 1 ELSE events[i]]
        /\ job' = [job EXCEPT ![e] = Gate!Idle]
    BY DEF Gate!Publish, Gate!At
  <1>2. GateTypes /\ History /\ Unique /\ Raced
    BY DEF GateInv
  <1>3. /\ Len(events) \in Nat /\ Len(events) = Len(decisions)
        /\ \A i \in 1..Len(events) : events[i] \in Nat
    BY <1>2, LenProperties, ElementOfSeq DEF GateTypes
  <1>4. events' \in Seq(Nat) /\ Len(events') = Len(decisions)
    <2>1. events' \in [1..Len(events) -> Nat]
      BY <1>1, <1>3
    <2> QED BY <1>3, <2>1, SeqDef, LenProperties
  <1>5. GateTypes'
    BY <1>1, <1>2, <1>4, JobMoves
  <1>6. ASSUME NEW i \in Gate!D PROVE Copies(i)' <= Cardinality(Evaluators)
    <2>1. i \in 1..Len(events) /\ events[i] \in Nat
      BY <1>3 DEF Gate!D
    <2>2. /\ IsFiniteSet(Racers(i)) /\ Cardinality(Racers(i)) \in Nat /\ Cardinality(Evaluators) \in Nat
          /\ events[i] + Cardinality(Racers(i)) <= Cardinality(Evaluators)
      BY <1>2, RacersAreFinite DEF Raced, Copies
    <2>3. Racers(i)' = Racers(i) \ {e}
      BY <1>1, <1>2 DEF Racers, Racing, GateTypes, Gate!Idle
    <2>4. CASE Gate!IsOf(decisions[i], j.asof, j.evidence)
      <3>1. e \in Racers(i)
        BY <1>1, <2>4 DEF Racers, Racing
      <3>2. Cardinality(Racers(i)') = Cardinality(Racers(i)) - 1
        BY <2>2, <2>3, <3>1, FS_RemoveElement
      <3>3. events'[i] = events[i] + 1
        BY <1>1, <2>1, <2>4
      <3>4. Copies(i)' = events'[i] + Cardinality(Racers(i)')
        BY DEF Copies
      <3> QED BY <2>1, <2>2, <3>2, <3>3, <3>4
    <2>5. CASE ~Gate!IsOf(decisions[i], j.asof, j.evidence)
      <3>1. Racers(i)' = Racers(i)
        BY <2>3, <2>5 DEF Racers, Racing
      <3>2. events'[i] = events[i]
        BY <1>1, <2>1, <2>5
      <3>3. Copies(i)' = events'[i] + Cardinality(Racers(i)')
        BY DEF Copies
      <3> QED BY <2>2, <3>1, <3>2, <3>3
    <2> QED BY <2>4, <2>5
  <1>7. Raced'
    BY <1>1, <1>6 DEF Raced, Gate!D
  <1> QED BY <1>1, <1>2, <1>5, <1>7, HistoryFrame DEF GateInv

LEMMA SaveKeeps ==
  ASSUME GateInv, NEW e \in Evaluators, Gate!Save(e)
  PROVE  GateInv'
  <1> DEFINE j == job[e]
             on == [j EXCEPT !.pc = "publish"]
  <1>1. j.pc = "save" /\ job' = [job EXCEPT ![e] = on] /\ UNCHANGED now
    BY DEF Gate!Save, Gate!At
  <1>2. GateTypes /\ History /\ Unique /\ Raced
    BY DEF GateInv
  <1>3. j \in Evaluations(Len(decisions)) /\ Len(decisions) \in Nat
    BY <1>1, <1>2, LenProperties DEF GateTypes, Gate!Idle
  <1>4. /\ on \in Evaluations(Len(decisions)) /\ on.asof = j.asof /\ on.evidence = j.evidence
        /\ on.pc = "publish"
    BY <1>3 DEF Evaluations
  <1> HIDE DEF on
  <1>5. \A i \in Nat, f \in Evaluators :
          decisions'[i] = decisions[i] => (Racing(f, i)' <=> Racing(f, i))
    BY <1>1, <1>2, <1>4 DEF Racing, GateTypes
  <1>6. CASE ~Gate!Inserts(j)
    <2>1. UNCHANGED <<decisions, events>>
      BY <1>6 DEF Gate!Save
    <2>2. GateTypes'
      BY <1>1, <1>2, <1>4, <2>1, JobMoves DEF GateTypes
    <2>3. \A i \in Gate!D : Racers(i)' \subseteq Racers(i)
      BY <1>3, <1>5, <2>1 DEF Racers, Gate!D
    <2> QED BY <1>2, <2>1, <2>2, <2>3, HistoryFrame, FewerRace DEF GateInv
  <1>7. CASE Gate!Inserts(j)
    <2>1. PICK h \in Gate!Histories(j.asof, j.evidence, j.seen) :
            /\ decisions' = Append(decisions,
                 [asof |-> j.asof, evidence |-> j.evidence, decided |-> j.decided,
                  seen |-> j.seen,
                  state |-> Gate!StateOf(Gate!Severities(j.asof, j.evidence, h))])
            /\ events' = Append(events, 0)
      BY <1>7 DEF Gate!Save
    <2> DEFINE n == Len(decisions)
               x == [asof |-> j.asof, evidence |-> j.evidence, decided |-> j.decided,
                     seen |-> j.seen,
                     state |-> Gate!StateOf(Gate!Severities(j.asof, j.evidence, h))]
    <2>2. /\ x.asof = j.asof /\ x.evidence = j.evidence /\ x.seen = j.seen
          /\ x.state = Gate!StateOf(Gate!Severities(j.asof, j.evidence, h))
      OBVIOUS
    <2>3. /\ j.asof \in AsOfs /\ j.evidence \in Evidences /\ j.decided \in Nat
          /\ j.seen \in 0..Len(decisions)
      BY <1>3 DEF Evaluations
    <2>4. x \in Decisions
      <3>1. Gate!StateOf(Gate!Severities(j.asof, j.evidence, h)) \in Gate!States
        BY <2>3, SeveritiesAreGates, StateOfGates
      <3>2. j.seen \in Nat
        BY <1>3, <2>3
      <3> QED BY <2>3, <3>1, <3>2 DEF Decisions
    <2>5. decisions' = Append(decisions, x)
      BY <2>1
    <2> HIDE DEF x
    <2>6. /\ decisions' \in Seq(Decisions) /\ Len(decisions') = n + 1 /\ n \in Nat
          /\ \A i \in 1..n : decisions'[i] = decisions[i]
          /\ decisions'[n + 1] = x
      BY <1>2, <2>4, <2>5, Appended
    <2>7. /\ events' \in Seq(Nat) /\ Len(events') = n + 1
          /\ \A i \in 1..n : events'[i] = events[i] /\ events[i] \in Nat
          /\ events'[n + 1] = 0
      <3>1. events \in Seq(Nat) /\ Len(events) = n
        BY <1>2 DEF GateTypes
      <3> QED BY <2>1, <3>1, AppendProperties, ElementOfSeq
    <2>8. GateTypes'
      <3>1. \A m \in Nat : \A y \in Evaluations(m) : y \in Evaluations(m + 1)
        BY DEF Evaluations
      <3> QED BY <1>1, <1>2, <1>4, <2>6, <2>7, <3>1 DEF GateTypes
    <2>9. History'
      <3>1. ASSUME NEW i \in 1..n PROVE Judged(i)'
        BY <1>2, <2>6, <3>1, JudgedStays DEF History, Gate!D
      <3>2. ASSUME NEW m, m = n + 1 PROVE Judged(m)'
        <4>1. \A i \in 1..j.seen : decisions'[i] = decisions[i]
          BY <2>3, <2>6
        <4>2. { decisions'[i] : i \in 1..j.seen } = Prefix(j.seen)
          BY <4>1 DEF Prefix
        <4>3. JudgedBy(x, Prefix(j.seen))
          BY <2>1, <2>2, HistoriesAreReadings DEF JudgedBy
        <4>4. x.seen < n + 1
          BY <2>2, <2>3, <2>6
        <4>5. decisions'[m] = x
          BY <2>6, <3>2
        <4> QED BY <2>2, <3>2, <4>2, <4>3, <4>4, <4>5 DEF Judged, Prefix
      <3>3. \A i \in 1..(n + 1) : i \in 1..n \/ i = n + 1
        BY <2>6
      <3> QED BY <2>6, <3>1, <3>2, <3>3 DEF History, Gate!D
    <2>10. Unique'
      <3>1. \A i \in 1..n : ~Gate!IsOf(decisions[i], j.asof, j.evidence)
        BY <1>7 DEF Gate!Inserts
      <3>2. \A i \in 1..n : \A k \in 1..n : decisions[i].asof = decisions[k].asof
                /\ decisions[i].evidence = decisions[k].evidence => i = k
        BY <1>2 DEF Unique, Gate!D, Gate!IsOf
      <3>3. \A i \in 1..(n + 1) : i \in 1..n \/ i = n + 1
        BY <2>6
      <3> QED BY <2>2, <2>6, <3>1, <3>2, <3>3 DEF Unique, Gate!D, Gate!IsOf
    <2>11. Raced'
      <3>1. ASSUME NEW i \in 1..n PROVE Copies(i)' <= Cardinality(Evaluators)
        <4>1. i \in Nat /\ decisions'[i] = decisions[i]
          BY <2>6
        <4>2. Racers(i)' = Racers(i)
          BY <1>5, <4>1 DEF Racers
        <4> QED BY <1>2, <2>7, <4>2 DEF Raced, Copies, Gate!D
      <3>2. ASSUME NEW m, m = n + 1 PROVE Copies(m)' <= Cardinality(Evaluators)
        <4>1. Copies(m)' = 0 + Cardinality(Racers(m)')
          BY <2>7, <3>2 DEF Copies
        <4>2. Racers(m)' \subseteq Evaluators /\ IsFiniteSet(Evaluators)
          BY DEF Racers, Gate!IsFiniteSet, IsFiniteSet
        <4>3. Cardinality(Racers(m)') <= Cardinality(Evaluators)
              /\ Cardinality(Racers(m)') \in Nat
          BY <4>2, FS_Subset, FS_CardinalityType
        <4> QED BY <4>1, <4>3
      <3>3. \A i \in 1..(n + 1) : i \in 1..n \/ i = n + 1
        BY <2>6
      <3> QED BY <2>6, <3>1, <3>2, <3>3 DEF Raced, Gate!D
    <2> QED BY <2>8, <2>9, <2>10, <2>11 DEF GateInv
  <1> QED BY <1>6, <1>7

LEMMA GateKeeps == GateInv /\ [Next]_vars => GateInv'
  <1> SUFFICES ASSUME GateInv, [Next]_vars PROVE GateInv'
    OBVIOUS
  <1>1. ASSUME UNCHANGED <<decisions, events, job>>, now' \in Nat PROVE GateInv'
    <2>1. GateTypes /\ History /\ Unique /\ Raced
      BY DEF GateInv
    <2>2. GateTypes'
      BY <1>1, <2>1 DEF GateTypes
    <2>3. \A i \in Gate!D : Racers(i)' \subseteq Racers(i)
      BY <1>1 DEF Racers, Racing
    <2> QED BY <1>1, <2>1, <2>2, <2>3, HistoryFrame, FewerRace DEF GateInv
  <1>2. ASSUME Gate!Tick PROVE GateInv'
    BY <1>1, <1>2 DEF Gate!Tick
  <1>3. ASSUME UNCHANGED gateVars PROVE GateInv'
    BY <1>1, <1>3 DEF gateVars, GateInv, GateTypes
  <1> QED BY <1>2, <1>3, GateSteps, CollectKeeps, FindKeeps, SaveKeeps, PublishKeeps, FailKeeps
         DEF Gate!Next

LEMMA GateHolds == Spec => []GateInv
  BY GateStarts, GateKeeps, PTL DEF Spec

-----------------------------------------------------------------------------
(* Readings of the newest decision.                                         *)

(* What is read first of a set is among its newest.                         *)
LEMMA FirstIsNewest ==
  ASSUME NEW S, NEW first \in Gate!FirstOf(S), NEW d \in first
  PROVE  /\ first = {d} /\ d \in S
         /\ \A u \in S : u.asof <= d.asof
  BY DEF Gate!FirstOf, Gate!Newest

(* What a decision knew of its own direction.                               *)
LEMMA KnewIsRead ==
  ASSUME GateInv, NEW j \in Gate!D, NEW i \in Gate!D, i <= decisions[j].seen,
         decisions[i].asof <= decisions[j].asof,
         Gate!Direction(decisions[i].evidence) = decisions[j].evidence.label,
         NEW h \in Readings(Prefix(decisions[j].seen), decisions[j].asof, decisions[j].evidence)
  PROVE  \E k \in Gate!D :
           /\ h.same = {decisions[k]} /\ k <= decisions[j].seen
           /\ Gate!Direction(decisions[k].evidence) = decisions[j].evidence.label
           /\ decisions[i].asof <= decisions[k].asof /\ decisions[k].asof <= decisions[j].asof
  <1> DEFINE n == decisions[j].seen
             R == { d \in Prefix(n) : d.asof <= decisions[j].asof }
             S == Gate!SameDirection(R, decisions[j].evidence.label)
  <1>1. n \in Nat /\ n < j /\ Len(decisions) \in Nat
    <2>1. decisions[j] \in Decisions /\ Judged(j)
      BY ElementOfSeq DEF GateInv, GateTypes, History, Gate!D
    <2> QED BY <2>1, LenProperties DEF Decisions, Judged, GateInv, GateTypes
  <1>2. i \in 1..n
    BY <1>1 DEF Gate!D
  <1>3. decisions[i] \in S
    BY <1>2 DEF Prefix, Gate!SameDirection
  <1>4. h.same \in Gate!FirstOf(S)
    BY DEF Readings
  <1>5. h.same # {}
    <2>1. S # {}
      BY <1>3
    <2> HIDE DEF S
    <2> QED BY <1>4, <2>1 DEF Gate!FirstOf
  <1>6. PICK d \in h.same : h.same = {d} /\ d \in S /\ \A u \in S : u.asof <= d.asof
    <2>1. PICK d \in h.same : TRUE
      BY <1>5
    <2> HIDE DEF S
    <2>2. h.same = {d} /\ d \in S /\ \A u \in S : u.asof <= d.asof
      BY <1>4, <2>1, FirstIsNewest
    <2> QED BY <2>1, <2>2
  <1>7. PICK k \in 1..n : d = decisions[k]
    BY <1>6 DEF Prefix, Gate!SameDirection
  <1>8. d.asof <= decisions[j].asof /\ Gate!Direction(d.evidence) = decisions[j].evidence.label
    BY <1>6 DEF Gate!SameDirection
  <1>9. decisions[i].asof <= d.asof
    BY <1>3, <1>6
  <1>10. k \in Gate!D /\ k <= n
    BY <1>1 DEF Gate!D
  <1> QED BY <1>6, <1>7, <1>8, <1>9, <1>10

LEMMA JudgedWith ==
  ASSUME GateInv, NEW j \in Gate!D
  PROVE  /\ decisions[j] \in Decisions /\ decisions[j].seen < j /\ j \in Nat /\ Len(decisions) \in Nat
         /\ \E h \in Readings(Prefix(decisions[j].seen), decisions[j].asof, decisions[j].evidence) :
              decisions[j].state
                = Gate!StateOf(Gate!Severities(decisions[j].asof, decisions[j].evidence, h))
  BY ElementOfSeq, LenProperties DEF GateInv, GateTypes, History, Judged, JudgedBy, Gate!D

LEMMA DecisionIs ==
  ASSUME NEW d \in Decisions
  PROVE  /\ d.asof \in Int /\ d.decided \in Int /\ d.seen \in Int
         /\ d.evidence \in Evidences /\ Repeat[d.state] \in Int
  <1>1. /\ d.asof \in AsOfs /\ d.decided \in Nat /\ d.seen \in Nat
        /\ d.evidence \in Evidences /\ d.state \in Gate!States
    BY DEF Decisions
  <1>2. Repeat \in [Gate!States -> Nat] /\ AsOfs \subseteq Nat
    OBVIOUS
  <1>3. Repeat[d.state] \in Nat
    BY <1>1, <1>2
  <1>4. d.asof \in Nat
    BY <1>1, <1>2
  <1> QED BY <1>1, <1>3, <1>4

LEMMA GateCount == \A S : Gate!Cardinality(S) = Cardinality(S)
  BY DEF Gate!Cardinality, Cardinality, Gate!IsFiniteSet, IsFiniteSet

-----------------------------------------------------------------------------
(* There is one decision for an input, and it is published again only by an *)
(* evaluation that overlapped its commit (service.py:120, :131).            *)
THEOREM DuplicatesTakeARace == Spec => []DuplicatesAreRaces
  <1>1. GateInv => DuplicatesAreRaces
    <2> SUFFICES ASSUME GateInv PROVE DuplicatesAreRaces
      OBVIOUS
    <2>1. \A i, j \in Gate!D :
            Gate!IsOf(decisions[i], decisions[j].asof, decisions[j].evidence) => i = j
      BY DEF GateInv, Unique
    <2>2. ASSUME NEW i \in Gate!D PROVE events[i] <= Cardinality(Evaluators)
      <3>1. events[i] \in Nat
        BY ElementOfSeq DEF GateInv, GateTypes, Gate!D
      <3>2. Cardinality(Racers(i)) \in Nat /\ Cardinality(Evaluators) \in Nat
        BY RacersAreFinite
      <3>3. events[i] + Cardinality(Racers(i)) <= Cardinality(Evaluators)
        BY DEF GateInv, Raced, Copies
      <3> QED BY <3>1, <3>2, <3>3
    <2> QED BY <2>1, <2>2, GateCount DEF DuplicatesAreRaces, Gate!DuplicatesAreRaces
  <1> QED BY <1>1, GateHolds, PTL

(* An eligible decision is repeated within its cooldown only if the newest  *)
(* decision of the direction is another one, whose own cooldown is over     *)
(* (service.py:177).                                                        *)
THEOREM CooldownsHold == Spec => []CooldownHolds
  <1>1. GateInv => CooldownHolds
    <2> SUFFICES ASSUME GateInv, NEW i \in Gate!D, NEW j \in Gate!D,
                        /\ i # j /\ Gate!Eligible(i) /\ Gate!Eligible(j)
                        /\ Gate!Towards(i) = Gate!Towards(j)
                        /\ Gate!AsOf(i) <= Gate!AsOf(j)
                        /\ Gate!AsOf(j) - decisions[i].decided < Repeat["eligible"]
                        /\ Gate!Knew(j, i) /\ Gate!Authentic(j)
                 PROVE  \E k \in Gate!D \ {i, j} :
                          /\ Gate!Knew(j, k) /\ Gate!Towards(k) = Gate!Towards(j)
                          /\ Gate!AsOf(k) \in Gate!AsOf(i)..Gate!AsOf(j)
                          /\ Gate!AsOf(j) - decisions[k].decided >= Repeat[decisions[k].state]
      BY DEF CooldownHolds, Gate!CooldownHolds
    <2> USE DEF Gate!Eligible, Gate!Towards, Gate!AsOf, Gate!Knew, Gate!Authentic
    <2>1. PICK h \in Readings(Prefix(decisions[j].seen), decisions[j].asof, decisions[j].evidence) :
            decisions[j].state
              = Gate!StateOf(Gate!Severities(decisions[j].asof, decisions[j].evidence, h))
      BY JudgedWith
    <2>2. decisions[j].evidence \in Evidences
      BY JudgedWith DEF Decisions
    <2>3. ~Gate!Cooling(decisions[j].asof, h)
      BY <2>1, <2>2, EligibleIsFree
    <2>4. PICK k \in Gate!D :
            /\ h.same = {decisions[k]} /\ k <= decisions[j].seen
            /\ Gate!Direction(decisions[k].evidence) = decisions[j].evidence.label
            /\ decisions[i].asof <= decisions[k].asof /\ decisions[k].asof <= decisions[j].asof
      BY KnewIsRead
    <2>5. /\ decisions[k] \in Decisions /\ decisions[j] \in Decisions /\ decisions[i] \in Decisions
          /\ decisions[j].seen < j /\ j \in Nat /\ k \in Nat
      BY JudgedWith
    <2>6. /\ decisions[k].asof \in Int /\ decisions[j].asof \in Int /\ decisions[i].asof \in Int
          /\ decisions[k].decided \in Int /\ Repeat[decisions[k].state] \in Int
          /\ decisions[j].seen \in Int
      BY <2>5, DecisionIs
    <2>7. ~(decisions[j].asof - decisions[k].decided < Repeat[decisions[k].state])
      BY <2>3, <2>4 DEF Gate!Cooling, Gate!RepeatOf
    <2>8. decisions[j].asof - decisions[k].decided >= Repeat[decisions[k].state]
      BY <2>6, <2>7
    <2>9. k # i
      BY <2>7
    <2>10. k # j
      BY <2>4, <2>5, <2>6
    <2>11. decisions[k].asof \in decisions[i].asof..decisions[j].asof
      BY <2>4, <2>6
    <2> QED BY <2>4, <2>8, <2>9, <2>10, <2>11
  <1> QED BY <1>1, GateHolds, PTL

(* Of two M15 candles in a row with sound evidence for one direction, one   *)
(* gets an eligible decision: what the cooldown blocked does not block the  *)
(* next candle (service.py:177, engine.py:344).                             *)
THEOREM OneOfTwoIsEligible == Spec => []OneOfTwo
  <1>1. GateInv => OneOfTwo
    <2> SUFFICES ASSUME GateInv, NEW i \in Gate!D, NEW j \in Gate!D,
                        /\ Gate!Clean(i) /\ Gate!Clean(j) /\ Gate!Towards(i) = Gate!Towards(j)
                        /\ Gate!AsOf(j) = Gate!AsOf(i) + Step /\ Gate!Knew(j, i)
                        /\ decisions[i].decided <= Gate!AsOf(i) + MaxLate
                        /\ \A k \in Gate!D \ {i, j} :
                             Gate!Knew(j, k) => Gate!AsOf(k) \notin Gate!AsOf(i)..Gate!AsOf(j),
                        ~Gate!Eligible(i)
                 PROVE  Gate!Eligible(j)
      BY DEF OneOfTwo, Gate!OneOfTwo
    <2> USE DEF Gate!Eligible, Gate!Towards, Gate!AsOf, Gate!Knew, Gate!Authentic
    <2>1. /\ decisions[i] \in Decisions /\ decisions[j] \in Decisions
          /\ decisions[j].seen < j /\ j \in Nat
      BY JudgedWith
    <2>2. /\ decisions[i].asof \in Int /\ decisions[j].asof \in Int /\ decisions[i].decided \in Int
          /\ decisions[i].evidence \in Evidences /\ decisions[j].evidence \in Evidences
          /\ decisions[j].seen \in Int
      BY <2>1, DecisionIs
    <2>3. decisions[i].state = "blocked"
      <3>1. PICK h \in Readings(Prefix(decisions[i].seen), decisions[i].asof, decisions[i].evidence) :
              decisions[i].state
                = Gate!StateOf(Gate!Severities(decisions[i].asof, decisions[i].evidence, h))
        BY JudgedWith
      <3> QED BY <2>2, <3>1, SoundIsFreeOrBlocked DEF Gate!Clean
    <2>4. PICK h \in Readings(Prefix(decisions[j].seen), decisions[j].asof, decisions[j].evidence) :
            decisions[j].state
              = Gate!StateOf(Gate!Severities(decisions[j].asof, decisions[j].evidence, h))
      BY JudgedWith
    <2>5. ASSUME NEW k \in Gate!D, k <= decisions[j].seen,
                 decisions[i].asof <= decisions[k].asof, decisions[k].asof <= decisions[j].asof
          PROVE  k = i
      <3>1. decisions[k].asof \in decisions[i].asof..decisions[j].asof
        <4>1. decisions[k].asof \in Int
          BY JudgedWith, DecisionIs
        <4> QED BY <2>2, <2>5, <4>1
      <3>2. k # j
        BY <2>1, <2>2, <2>5
      <3> QED BY <2>5, <3>1, <3>2
    <2>6. ~Gate!Cooling(decisions[j].asof, h)
      <3>1. Gate!Direction(decisions[i].evidence) = decisions[j].evidence.label
        BY DEF Gate!Clean
      <3>2. decisions[i].asof <= decisions[j].asof
        BY <2>2
      <3>3. h.same = {decisions[i]}
        BY <2>5, <3>1, <3>2, KnewIsRead
      <3>4. Repeat["blocked"] \in Int /\ Step \in Int /\ MaxLate \in Int
        BY DEF Gate!States
      <3>5. ~(decisions[j].asof - decisions[i].decided < Repeat["blocked"])
        BY <2>2, <3>4, M15Assumption
      <3> QED BY <2>3, <3>3, <3>5 DEF Gate!Cooling, Gate!RepeatOf
    <2>7. ~Gate!Reversing(decisions[j].asof, decisions[j].evidence, h)
      <3> SUFFICES ASSUME NEW d \in h.opposite PROVE FALSE
        BY DEF Gate!Reversing
      <3>1. /\ d \in Prefix(decisions[j].seen) /\ d.asof <= decisions[j].asof
            /\ d.state = "eligible" /\ Gate!ValidUntil(d) > decisions[j].asof
        BY FirstIsNewest DEF Readings
      <3>2. PICK k \in 1..decisions[j].seen : d = decisions[k]
        BY <3>1 DEF Prefix
      <3>3. k \in Gate!D /\ k <= decisions[j].seen
        BY <2>1, <2>2, JudgedWith DEF Gate!D
      <3>4. d.asof \in Int
        BY <3>2, <3>3, JudgedWith, DecisionIs
      <3>5. Validity["eligible"] \in Int /\ Step \in Int
        BY DEF Gate!States
      <3>6. decisions[i].asof <= d.asof
        BY <2>2, <3>1, <3>4, <3>5, M15Assumption DEF Gate!ValidUntil
      <3>7. k = i
        BY <2>5, <3>1, <3>2, <3>3, <3>6
      <3> QED BY <2>3, <3>1, <3>2, <3>7
    <2> QED BY <2>2, <2>4, <2>6, <2>7, SoundIsFreeOrBlocked DEF Gate!Clean
  <1> QED BY <1>1, GateHolds, PTL

-----------------------------------------------------------------------------
(* The types as the model states them: every time is one at which the clock *)
(* was read, an evaluation that may still store finds room, and an eligible *)
(* decision has a direction.                                                *)

Pending == { e \in Evaluators : job[e].pc \in {"find", "save"} }

GateBounds ==
  /\ now \in Instants
  /\ \A i \in Gate!D : decisions[i].decided \in Instants
  /\ \A e \in Evaluators : job[e].pc # "idle" => job[e].decided \in Instants
  /\ Len(decisions) + Cardinality(Pending) <= MaxDecisions

LEMMA EvaluatorsAreCounted ==
  ASSUME NEW S, NEW T, S \subseteq T, T \subseteq Evaluators
  PROVE  /\ IsFiniteSet(T) /\ Cardinality(S) \in Nat /\ Cardinality(T) \in Nat
         /\ Cardinality(S) <= Cardinality(T)
         /\ \A e : Cardinality(T \cup {e}) <= Cardinality(T) + 1
         /\ \A e \in T : Cardinality(T \ {e}) = Cardinality(T) - 1
  <1>1. IsFiniteSet(T)
    BY FS_Subset DEF Gate!IsFiniteSet, IsFiniteSet
  <1>2. IsFiniteSet(S) /\ Cardinality(S) <= Cardinality(T)
    BY <1>1, FS_Subset
  <1>3. Cardinality(S) \in Nat /\ Cardinality(T) \in Nat
    BY <1>1, <1>2, FS_CardinalityType
  <1>4. ASSUME NEW e PROVE Cardinality(T \cup {e}) <= Cardinality(T) + 1
    <2>1. Cardinality(T \cup {e}) = IF e \in T THEN Cardinality(T) ELSE Cardinality(T) + 1
      BY <1>1, FS_AddElement
    <2> QED BY <1>3, <2>1
  <1>5. ASSUME NEW e \in T PROVE Cardinality(T \ {e}) = Cardinality(T) - 1
    BY <1>1, FS_RemoveElement
  <1> QED BY <1>1, <1>2, <1>3, <1>4, <1>5

(* An evaluation moves on and stores nothing.                               *)
LEMMA BoundsMove ==
  ASSUME GateTypes, GateBounds, NEW e \in Evaluators, NEW new, job' = [job EXCEPT ![e] = new],
         UNCHANGED <<now, decisions>>, new.pc # "idle" => new.decided \in Instants,
         \/ new.pc \notin {"find", "save"} \/ job[e].pc \in {"find", "save"}
         \/ Len(decisions) + Cardinality(Pending) < MaxDecisions
  PROVE  GateBounds'
  <1>1. \A f \in Evaluators : job'[f] = IF f = e THEN new ELSE job[f]
    BY DEF GateTypes
  <1>2. /\ now' \in Instants
        /\ \A i \in Gate!D' : decisions'[i].decided \in Instants
        /\ \A f \in Evaluators : job'[f].pc # "idle" => job'[f].decided \in Instants
    BY <1>1 DEF GateBounds, Gate!D
  <1>3. Len(decisions) \in Nat /\ Cardinality(Pending) \in Nat /\ MaxDecisions \in Nat
    BY EvaluatorsAreCounted, LenProperties DEF Pending, GateTypes
  <1>4. Pending' \subseteq Evaluators /\ Cardinality(Pending') \in Nat
    BY EvaluatorsAreCounted DEF Pending
  <1>5. CASE new.pc \notin {"find", "save"} \/ job[e].pc \in {"find", "save"}
    <2>1. Pending' \subseteq Pending
      BY <1>1, <1>5 DEF Pending
    <2>2. Cardinality(Pending') <= Cardinality(Pending)
      BY <2>1, EvaluatorsAreCounted DEF Pending
    <2> QED BY <1>2, <1>3, <1>4, <2>2 DEF GateBounds
  <1>6. CASE Len(decisions) + Cardinality(Pending) < MaxDecisions
    <2>1. Pending' \subseteq Pending \cup {e} /\ Pending \subseteq Evaluators
      BY <1>1 DEF Pending
    <2>2. Cardinality(Pending \cup {e}) <= Cardinality(Pending) + 1
      BY <2>1, EvaluatorsAreCounted
    <2>3. Cardinality(Pending') <= Cardinality(Pending \cup {e})
          /\ Cardinality(Pending \cup {e}) \in Nat
      BY <2>1, EvaluatorsAreCounted
    <2>4. Len(decisions) + Cardinality(Pending') <= MaxDecisions
      BY <1>3, <1>4, <1>6, <2>2, <2>3
    <2> QED BY <1>2, <2>4 DEF GateBounds
  <1> QED BY <1>5, <1>6

LEMMA SaveIsBounded ==
  ASSUME GateTypes, GateBounds, GateTypes', NEW e \in Evaluators, Gate!Save(e)
  PROVE  GateBounds'
  <1> DEFINE j == job[e]
             on == [j EXCEPT !.pc = "publish"]
             n == Len(decisions)
  <1>1. j.pc = "save" /\ job' = [job EXCEPT ![e] = on] /\ UNCHANGED now
    BY DEF Gate!Save, Gate!At
  <1>2. j \in Evaluations(n)
    BY <1>1 DEF GateTypes, Gate!Idle
  <1>3. on.pc = "publish" /\ on.decided = j.decided /\ j.decided \in Instants
    BY <1>1, <1>2 DEF Evaluations, GateBounds
  <1> HIDE DEF on
  <1>4. CASE ~Gate!Inserts(j)
    <2>1. UNCHANGED decisions
      BY <1>4 DEF Gate!Save
    <2> QED BY <1>1, <1>3, <2>1, BoundsMove
  <1>5. CASE Gate!Inserts(j)
    <2>0. PICK h \in Gate!Histories(j.asof, j.evidence, j.seen) :
            decisions' = Append(decisions,
              [asof |-> j.asof, evidence |-> j.evidence, decided |-> j.decided, seen |-> j.seen,
               state |-> Gate!StateOf(Gate!Severities(j.asof, j.evidence, h))])
      BY <1>5 DEF Gate!Save
    <2> DEFINE x == [asof |-> j.asof, evidence |-> j.evidence, decided |-> j.decided, seen |-> j.seen,
                     state |-> Gate!StateOf(Gate!Severities(j.asof, j.evidence, h))]
    <2>1. decisions' = Append(decisions, x) /\ x.decided = j.decided
      BY <2>0
    <2> HIDE DEF x
    <2>2. n \in Nat /\ Len(decisions') = n + 1 /\ decisions \in Seq(Decisions)
      BY <2>1, LenProperties, AppendProperties DEF GateTypes
    <2>3. \A i \in 1..(n + 1) : decisions'[i] = IF i <= n THEN decisions[i] ELSE x
      BY <2>1, <2>2 DEF GateTypes
    <2>4. \A i \in 1..(n + 1) : decisions'[i].decided \in Instants
      <3>1. \A i \in 1..(n + 1) : i <= n => i \in 1..n
        BY <2>2
      <3> QED BY <1>3, <2>1, <2>3, <3>1 DEF GateBounds, Gate!D
    <2>5. \A f \in Evaluators : job'[f] = IF f = e THEN on ELSE job[f]
      BY <1>1 DEF GateTypes
    <2>6. Pending' = Pending \ {e} /\ e \in Pending /\ Pending \subseteq Evaluators
      BY <1>1, <1>3, <2>5 DEF Pending
    <2>7. Cardinality(Pending') = Cardinality(Pending) - 1 /\ Cardinality(Pending) \in Nat
      BY <2>6, EvaluatorsAreCounted
    <2>8. Len(decisions') + Cardinality(Pending') <= MaxDecisions
      BY <2>2, <2>7 DEF GateBounds
    <2> QED BY <1>1, <1>3, <2>2, <2>4, <2>5, <2>8 DEF GateBounds, Gate!D
  <1> QED BY <1>4, <1>5

LEMMA BoundsKept == GateInv /\ GateBounds /\ [Next]_vars => GateBounds'
  <1> SUFFICES ASSUME GateInv, GateBounds, [Next]_vars PROVE GateBounds'
    OBVIOUS
  <1>1. GateTypes /\ GateTypes'
    BY GateKeeps DEF GateInv
  <1>2. ASSUME NEW e \in Evaluators, NEW asof \in AsOfs, NEW ev \in Evidences,
               Gate!Collect(e, asof, ev)
        PROVE  GateBounds'
    <2> DEFINE new == [pc |-> "find", asof |-> asof, evidence |-> ev, decided |-> now,
                       seen |-> Len(decisions)]
    <2>1. /\ job' = [job EXCEPT ![e] = new] /\ UNCHANGED <<now, decisions>>
          /\ Len(decisions) + Gate!Running < MaxDecisions
      BY <1>2 DEF Gate!Collect
    <2>2. new.decided \in Instants
      BY DEF GateBounds
    <2> HIDE DEF new
    <2>3. Cardinality(Pending) <= Gate!Running /\ Cardinality(Pending) \in Nat /\ Gate!Running \in Nat
      <3> DEFINE R == { f \in Evaluators : job[f].pc # "idle" }
      <3>1. Pending \subseteq R /\ R \subseteq Evaluators
        BY DEF Pending
      <3>2. Gate!Running = Cardinality(R)
        BY GateCount DEF Gate!Running
      <3> HIDE DEF R
      <3> QED BY <3>1, <3>2, EvaluatorsAreCounted
    <2>4. Len(decisions) + Cardinality(Pending) < MaxDecisions
      <3>1. Len(decisions) \in Nat /\ MaxDecisions \in Nat
        BY <1>1, LenProperties DEF GateTypes
      <3> QED BY <2>1, <2>3, <3>1
    <2> QED BY <1>1, <2>1, <2>2, <2>4, BoundsMove
  <1>3. ASSUME NEW e \in Evaluators, Gate!Find(e) PROVE GateBounds'
    <2> DEFINE j == job[e]
               on == [j EXCEPT !.pc = "save"]
               new == IF Gate!Decided(j.asof, j.evidence) THEN Gate!Idle ELSE on
    <2>1. j.pc = "find" /\ job' = [job EXCEPT ![e] = new] /\ UNCHANGED <<now, decisions>>
      BY <1>3 DEF Gate!Find, Gate!At
    <2>2. j \in Evaluations(Len(decisions))
      BY <1>1, <2>1 DEF GateTypes, Gate!Idle
    <2>3. on.decided = j.decided /\ j.decided \in Instants
      BY <2>1, <2>2 DEF Evaluations, GateBounds
    <2> HIDE DEF on
    <2>4. new.pc # "idle" => new.decided \in Instants
      BY <2>3 DEF Gate!Idle
    <2> HIDE DEF new
    <2> QED BY <1>1, <2>1, <2>4, BoundsMove
  <1>4. ASSUME NEW e \in Evaluators, Gate!Publish(e) \/ Gate!Fail(e) PROVE GateBounds'
    <2>1. job' = [job EXCEPT ![e] = Gate!Idle] /\ UNCHANGED <<now, decisions>>
      BY <1>4 DEF Gate!Publish, Gate!Fail
    <2>2. Gate!Idle.pc = "idle"
      BY DEF Gate!Idle
    <2> QED BY <1>1, <2>1, <2>2, BoundsMove
  <1>5. ASSUME now' \in Instants, UNCHANGED <<decisions, job>> PROVE GateBounds'
    BY <1>5 DEF GateBounds, Pending, Gate!D
  <1>6. ASSUME Gate!Tick \/ UNCHANGED gateVars PROVE GateBounds'
    BY <1>5, <1>6 DEF Gate!Tick, gateVars, GateBounds
  <1> QED BY <1>1, <1>2, <1>3, <1>4, <1>6, GateSteps, SaveIsBounded DEF Gate!Next

(* models.py:437: an eligible decision has a direction.  A score without    *)
(* one is too weak to be eligible, and so is a scenario that says HOLD.     *)
LEMMA EligibleHasDirection ==
  ASSUME NEW ev \in Evidences, NEW asof, NEW h,
         Gate!StateOf(Gate!Severities(asof, ev, h)) = "eligible"
  PROVE  Gate!Direction(ev) # "neutral"
  <1>1. Gate!Severities(asof, ev, h) = {}
    BY SeveritiesAreGates, StateOfGates
  <1>2. Gate!Below(ev.strength, 20, 45 - Gate!Relief(ev, h)) = {}
    BY <1>1 DEF Gate!Severities
  <1>3. ~(ev.strength < 20)
    BY <1>2 DEF Gate!Below
  <1>4. ASSUME Gate!Direction(ev) = "neutral"
        PROVE  ev.action = "HOLD" \/ (ev.action = "none" /\ ev.label = "neutral")
    BY <1>4, EvidenceIs DEF Gate!Direction
  <1>5. /\ ev.action = "HOLD" => ev.strength = 0
        /\ ev.action = "none" /\ ev.label = "neutral" => ev.strength <= 10
    OBVIOUS
  <1>6. ev.strength \in Nat
    BY EvidenceIs
  <1> QED BY <1>3, <1>4, <1>5, <1>6

LEMMA GateIsTyped == Spec => []Gate!TypeOK
  <1>1. Init => GateBounds
    <2> SUFFICES ASSUME Init PROVE GateBounds
      OBVIOUS
    <2>1. now \in Instants /\ decisions = << >> /\ job = [e \in Evaluators |-> Gate!Idle]
      BY DEF Init, Gate!Init
    <2>2. Pending = {}
      BY <2>1 DEF Pending, Gate!Idle
    <2>3. Len(decisions) = 0 /\ Gate!D = {}
      BY <2>1, EmptySeq DEF Gate!D
    <2>4. Cardinality(Pending) = 0
      BY <2>2, FS_EmptySet
    <2> QED BY <2>1, <2>3, <2>4 DEF GateBounds, Gate!Idle
  <1>2. GateInv /\ GateBounds => Gate!TypeOK
    <2> SUFFICES ASSUME GateInv, GateBounds PROVE Gate!TypeOK
      OBVIOUS
    <2> DEFINE n == Len(decisions)
    <2>1. GateTypes
      BY DEF GateInv
    <2>2. n \in Nat /\ Cardinality(Pending) \in Nat
      BY <2>1, LenProperties, EvaluatorsAreCounted DEF GateTypes, Pending
    <2>3. n <= MaxDecisions
      BY <2>2 DEF GateBounds
    <2>4. ASSUME NEW i \in 1..n PROVE decisions[i] \in Gate!Stored
      <3>1. decisions[i] \in Decisions
        BY <2>1, <2>4, ElementOfSeq DEF GateTypes
      <3>2. decisions[i].decided \in Instants
        BY <2>4 DEF GateBounds, Gate!D
      <3> QED BY <3>1, <3>2 DEF Decisions, Gate!Stored
    <2>5. decisions \in Seq(Gate!Stored)
      <3>1. decisions = [i \in 1..n |-> decisions[i]]
        BY <2>1 DEF GateTypes
      <3> QED BY <2>2, <2>4, <3>1, SeqDef
    <2>6. ASSUME NEW i \in 1..n, decisions[i].state = "eligible"
          PROVE  Gate!Direction(decisions[i].evidence) # "neutral"
      <3>1. /\ decisions[i] \in Decisions
            /\ \E h \in Readings(Prefix(decisions[i].seen), decisions[i].asof, decisions[i].evidence) :
                 decisions[i].state
                   = Gate!StateOf(Gate!Severities(decisions[i].asof, decisions[i].evidence, h))
        BY JudgedWith DEF Gate!D
      <3>2. decisions[i].evidence \in Evidences
        BY <3>1 DEF Decisions
      <3> QED BY <2>6, <3>1, <3>2, EligibleHasDirection
    <2>7. ASSUME NEW e \in Evaluators, job[e] # Gate!Idle
          PROVE  job[e] \in [pc : {"find", "save", "publish"}, asof : AsOfs, evidence : Evidences,
                             decided : Instants, seen : 0..n]
      <3>1. job[e] \in Evaluations(n)
        BY <2>1, <2>7 DEF GateTypes
      <3>2. job[e].decided \in Instants
        BY <3>1 DEF Evaluations, GateBounds
      <3> QED BY <3>1, <3>2 DEF Evaluations
    <2> QED BY <2>1, <2>3, <2>5, <2>6, <2>7 DEF Gate!TypeOK, GateTypes, GateBounds
  <1> QED BY <1>1, <1>2, GateHolds, BoundsKept, PTL DEF Spec
=============================================================================
