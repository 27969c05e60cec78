--------------------------- MODULE SignalDecision ---------------------------
(***************************************************************************)
(* engines/signal_decision_engine: the gate every analysed candle passes.  *)
(* The pipeline and HTTP callers, in several processes, evaluate a score   *)
(* of one instrument and timeframe as of some time; the service reads the  *)
(* decisions so far, the policy turns score and history into a state, and  *)
(* the decision is stored once for each input and published.  Live mode    *)
(* only; times are minutes, strengths and confidences percent.             *)
(***************************************************************************)
EXTENDS Integers, Sequences, FiniteSets

CONSTANTS
  Evaluators,   \* concurrent evaluations
  Instants,     \* when the clock is read; bounds a behaviour
  AsOfs,        \* boundaries that are asked for: closed candles, other times
  Evidences,    \* what a request may carry
  Step,         \* length of a candle
  Repeat,       \* cooldown after a decision, by its state
  Validity,     \* how long a decision is valid, by its state
  Lock,         \* reversal.lock_seconds
  MaxLate,      \* how old a candle the pipeline still evaluates
  MaxDecisions  \* bounds the decisions of a behaviour

States == {"eligible", "observe_only", "blocked", "insufficient", "invalid"}

(* label: the direction of the score.  action: of the primary scenario, if  *)
(* there is a selection.  strength: of the scenario, else of the score.     *)
(* gates: the severities of the rules that failed or warn, of those that    *)
(* look at the evidence only.                                               *)
Evidence ==
  [label : {"bullish", "bearish", "neutral"}, action : {"BUY", "SELL", "HOLD", "none"},
   strength : 0..100, confidence : 0..100,
   gates : SUBSET {"invalid", "hard", "insufficient", "soft"}]

(* What the constants are, assumed where they get their values. *)
DecisionAssumption ==
  /\ IsFiniteSet(Evaluators)
  /\ Instants \subseteq Nat /\ AsOfs \subseteq Nat
  /\ Evidences \subseteq Evidence
  /\ \A ev \in Evidences : ev.action = "HOLD" => ev.strength = 0
  /\ \A ev \in Evidences : ev.action = "none" /\ ev.label = "neutral" => ev.strength <= 10
  /\ Repeat \in [States -> Nat] /\ Validity \in [States -> Nat]
  /\ Step \in Nat /\ Lock \in Nat /\ MaxLate \in Nat /\ MaxDecisions \in Nat

VARIABLES
  now,        \* the clock
  decisions,  \* signal_decisions, in the order of their commits
  events,     \* how often each of them was published
  job         \* where each evaluation is, and with what

vars == <<now, decisions, events, job>>

Idle == [pc |-> "idle"]
At(e, pc) == job[e].pc = pc

-----------------------------------------------------------------------------
(* The policy.                                                              *)

Direction(ev) ==
  CASE ev.action = "none" -> ev.label
    [] ev.action = "BUY"  -> "bullish"
    [] ev.action = "SELL" -> "bearish"
    [] ev.action = "HOLD" -> "neutral"

(* confidence_score of a decision is not that of its score: what it is      *)
(* weighed with, temporal consistency and data quality, are at 50 and 80.   *)
Scenario(ev) == IF ev.action \in {"BUY", "SELL"} THEN ev.strength ELSE 0
Confidence(ev) == (55 * ev.confidence + 20 * Scenario(ev) + 15 * 50 + 10 * 80) \div 100

ValidUntil(d) == d.asof + Validity[d.state]

(* What _threshold_rule says of a value. *)
Below(value, observe, eligible) ==
  CASE value < observe  -> {"insufficient"}
    [] value >= observe /\ value < eligible -> {"soft"}
    [] OTHER -> {}

(* Hysteresis: an active eligible decision of the direction relieves both.  *)
Relief(ev, h) ==
  IF \E d \in h.active : d.state = "eligible" /\ Direction(d.evidence) = Direction(ev)
    THEN 5 ELSE 0

Repeat_Eligible(d) == Repeat["eligible"]    \* deviation: one window for all
RepeatOf(d) == Repeat[d.state]
Cooling(asof, h) == \E d \in h.same : asof - d.decided < RepeatOf(d)

Reversing(asof, ev, h) ==
  \E d \in h.opposite :
    /\ Direction(ev) # "neutral"
    /\ asof - d.decided < Lock
    /\ ev.strength < d.evidence.strength + 10
    /\ ev.confidence < Confidence(d.evidence) + 5

Severities(asof, ev, h) ==
  LET own == ev.gates \cup Below(ev.strength, 20, 45 - Relief(ev, h))
                      \cup Below(ev.confidence, 45, 70 - Relief(ev, h))
  IN IF Cooling(asof, h) \/ Reversing(asof, ev, h) THEN own \cup {"hard"} ELSE own

StateOf(severities) ==
  CASE "invalid" \in severities -> "invalid"
    [] severities \cap {"invalid", "hard"} = {"hard"} -> "blocked"
    [] severities \cap {"invalid", "hard", "insufficient"} = {"insufficient"} -> "insufficient"
    [] severities = {"soft"} -> "observe_only"
    [] severities = {} -> "eligible"

-----------------------------------------------------------------------------
(* The service.                                                             *)

(* collect_input looks the history up by the direction of the label, not by *)
(* that of the scenario, which the policy will decide on.  Of decisions     *)
(* with the same as_of that with the greatest id comes first: any.          *)
Newest(S) == { d \in S : \A u \in S : u.asof <= d.asof }
FirstOf(S) == IF S = {} THEN {{}} ELSE { {d} : d \in Newest(S) }

Recent(asof, seen) == { d \in { decisions[i] : i \in 1..seen } : d.asof <= asof }

Same_Any(R, label) == R                       \* deviation: whatever the direction
SameDirection(R, label) == { d \in R : Direction(d.evidence) = label }

Histories(asof, ev, seen) ==
  LET R == Recent(asof, seen)
  IN [ same : FirstOf(SameDirection(R, ev.label)),
       active : FirstOf({ d \in R : asof < ValidUntil(d) }),
       opposite : FirstOf({ d \in R : /\ d.state = "eligible"
                                      /\ Direction(d.evidence) \notin {ev.label, "neutral"}
                                      /\ ValidUntil(d) > asof }) ]

(* The fingerprint leaves the clock and the history out.                    *)
IsOf(d, asof, ev) == d.asof = asof /\ d.evidence = ev
Decided_Never(asof, ev) == FALSE              \* deviation: duplicates are not looked up
Decided(asof, ev) == \E i \in 1..Len(decisions) : IsOf(decisions[i], asof, ev)

Running == Cardinality({ e \in Evaluators : job[e].pc # "idle" })

(* The pipeline asks for candles that have closed, HTTP for any time.       *)
Collect(e, asof, ev) ==
  /\ At(e, "idle") /\ asof <= now
  /\ Len(decisions) + Running < MaxDecisions
  /\ job' = [job EXCEPT ![e] = [pc |-> "find", asof |-> asof, evidence |-> ev,
                                decided |-> now, seen |-> Len(decisions)]]
  /\ UNCHANGED <<now, decisions, events>>

(* An exact duplicate is answered with the decision there is.               *)
Find(e) ==
  /\ At(e, "find")
  /\ job' = [job EXCEPT ![e] = IF Decided(@.asof, @.evidence) THEN Idle
                                                               ELSE [@ EXCEPT !.pc = "save"]]
  /\ UNCHANGED <<now, decisions, events>>

(* INSERT ... ON CONFLICT DO NOTHING: the loser gets the winner's decision, *)
(* and goes on with it.                                                     *)
Inserts_Always(j) == TRUE                     \* deviation: the conflict is not ignored
Inserts(j) == ~\E i \in 1..Len(decisions) : IsOf(decisions[i], j.asof, j.evidence)

Save(e) ==
  LET j == job[e]
  IN /\ At(e, "save")
     /\ IF Inserts(j)
          THEN \E h \in Histories(j.asof, j.evidence, j.seen) :
                 /\ decisions' = Append(decisions,
                      [asof |-> j.asof, evidence |-> j.evidence, decided |-> j.decided,
                       seen |-> j.seen,
                       state |-> StateOf(Severities(j.asof, j.evidence, h))])
                 /\ events' = Append(events, 0)
          ELSE UNCHANGED <<decisions, events>>
     /\ job' = [job EXCEPT ![e].pc = "publish"]
     /\ UNCHANGED now

Publish(e) ==
  /\ At(e, "publish")
  /\ events' = [i \in 1..Len(events) |->
       IF IsOf(decisions[i], job[e].asof, job[e].evidence) THEN events[i] + 1 ELSE events[i]]
  /\ job' = [job EXCEPT ![e] = Idle]
  /\ UNCHANGED <<now, decisions>>

(* A dependency or the database raises, the process dies; a failed          *)
(* publication is only counted.                                             *)
Fail(e) ==
  /\ ~At(e, "idle")
  /\ job' = [job EXCEPT ![e] = Idle]
  /\ UNCHANGED <<now, decisions, events>>

Tick ==
  /\ \E t \in Instants :
       /\ t > now /\ \A u \in Instants : u > now => t <= u
       /\ now' = t
  /\ UNCHANGED <<decisions, events, job>>

Init ==
  /\ now \in Instants /\ \A t \in Instants : now <= t
  /\ decisions = << >> /\ events = << >>
  /\ job = [e \in Evaluators |-> Idle]

Next ==
  \/ \E e \in Evaluators :
       \/ \E asof \in AsOfs, ev \in Evidences : Collect(e, asof, ev)
       \/ Find(e) \/ Save(e) \/ Publish(e) \/ Fail(e)
  \/ Tick

Spec == Init /\ [][Next]_vars

-----------------------------------------------------------------------------
(* Properties.                                                              *)

Stored == [asof : AsOfs, evidence : Evidences, decided : Instants, seen : Nat, state : States]

(* Types; and models.py: an eligible decision has a direction.              *)
TypeOK ==
  /\ now \in Instants
  /\ decisions \in Seq(Stored) /\ events \in Seq(Nat)
  /\ Len(events) = Len(decisions) /\ Len(decisions) <= MaxDecisions
  /\ \A i \in 1..Len(decisions) :
       decisions[i].state = "eligible" => Direction(decisions[i].evidence) # "neutral"
  /\ \A e \in Evaluators :
       \/ job[e] = Idle
       \/ job[e] \in [pc : {"find", "save", "publish"}, asof : AsOfs, evidence : Evidences,
                      decided : Instants, seen : 0..Len(decisions)]

D == 1..Len(decisions)

(* docs/SIGNAL_DECISION_ENGINE.md:85: duplicates are race-safe across       *)
(* instances and do not republish.  There is one decision for an input;     *)
(* that it is published again takes an evaluation which overlapped the      *)
(* first commit, so once for each evaluator at most (service.py:120, :131). *)
DuplicatesAreRaces ==
  /\ \A i, j \in D : IsOf(decisions[i], decisions[j].asof, decisions[j].evidence) => i = j
  /\ \A i \in D : events[i] <= Cardinality(Evaluators)

Eligible(i) == decisions[i].state = "eligible"
Towards(i) == Direction(decisions[i].evidence)
AsOf(i) == decisions[i].asof
Knew(j, i) == i <= decisions[j].seen
Authentic(i) == decisions[i].evidence.label = Towards(i)

(* docs/SIGNAL_DECISION_ENGINE.md:87: an eligible decision is not repeated  *)
(* in the same direction within 15 minutes.  It takes evaluations that      *)
(* overlap, a scenario against the label of its score (service.py:177), or  *)
(* another decision of the direction for a candle not older, whose window   *)
(* is over.                                                                 *)
CooldownHolds ==
  \A i, j \in D :
    /\ i # j /\ Eligible(i) /\ Eligible(j) /\ Towards(i) = Towards(j)
    /\ AsOf(i) <= AsOf(j) /\ AsOf(j) - decisions[i].decided < Repeat["eligible"]
    /\ Knew(j, i) /\ Authentic(j)
    => \E k \in D \ {i, j} :
         /\ Knew(j, k) /\ Towards(k) = Towards(j) /\ AsOf(k) \in AsOf(i)..AsOf(j)
         /\ AsOf(j) - decisions[k].decided >= Repeat[decisions[k].state]

Clean(i) ==
  LET ev == decisions[i].evidence
  IN ev.gates = {} /\ ev.strength >= 45 /\ ev.confidence >= 70 /\ Authentic(i)

(* The cooldown of a decision that the cooldown blocked does not block the  *)
(* next candle in turn: of two candles in a row with sound evidence for one *)
(* direction, decided in time and with nothing between them, one gets       *)
(* through (service.py:177, engine.py:344).                                 *)
OneOfTwo ==
  \A i, j \in D :
    /\ Clean(i) /\ Clean(j) /\ Towards(i) = Towards(j)
    /\ AsOf(j) = AsOf(i) + Step /\ Knew(j, i)
    /\ decisions[i].decided <= AsOf(i) + MaxLate
    /\ \A k \in D \ {i, j} : Knew(j, k) => AsOf(k) \notin AsOf(i)..AsOf(j)
    => Eligible(i) \/ Eligible(j)

(* docs/SIGNAL_DECISION_ENGINE.md:87: reversal protection "blocks a rapid   *)
(* opposite eligible direction for 600 seconds unless both configured       *)
(* strength and confidence improvements are met".                           *)
ReversalLock ==
  \A i, j \in D :
    /\ Eligible(i) /\ Eligible(j) /\ Towards(i) # Towards(j)
    /\ AsOf(i) < AsOf(j) /\ AsOf(j) - decisions[i].decided < Lock
    /\ Knew(j, i) /\ Authentic(j)
    => /\ decisions[j].evidence.strength >= decisions[i].evidence.strength + 10
       /\ Confidence(decisions[j].evidence) >= Confidence(decisions[i].evidence) + 5
=============================================================================
