----------------------------- MODULE InProcess -----------------------------
(***************************************************************************)
(* Five components that share no variable: the candles of a series, the    *)
(* provider pool, the event bus, the decision gate and the economic        *)
(* calendar.  A behaviour is one of one component, picked by the initial   *)
(* state; the others rest in theirs.                                       *)
(***************************************************************************)
EXTENDS Integers, Sequences, FiniteSets

CONSTANTS
  MaxTime, Callers, Pollers, NoCaller, FeedLimit, FeedFaults,  \* MarketFeed
  Accounts, Requests, NoAccount, MaximumRetries, Threshold,  \* GroqPool
  Publications, Handlers, Capacity,  \* EventBus
  Evaluators, Instants, AsOfs, Evidences, Step, Repeat, Validity, Lock, MaxLate,
  MaxDecisions,  \* SignalDecision
  Contents, MaxFetches, CalendarFaults  \* CalendarSync

VARIABLES
  part,
  closed, stored, loaded, cached, lock, announced, run, used,
  cursor, cooldown, recent, request,
  busClosed, place, queue, task, inflight, stop,
  now, decisions, events, job,
  clock, observations, calendar, revisions, identity, checkpoint, sync, delay, faults

Feed == INSTANCE MarketFeed WITH Limit <- FeedLimit, MaxFaults <- FeedFaults

Pool == INSTANCE GroqPool

Bus == INSTANCE EventBus WITH closed <- busClosed

Gate == INSTANCE SignalDecision

Cal == INSTANCE CalendarSync WITH MaxFaults <- CalendarFaults

ASSUME InProcessAssumption ==
  /\ Feed!FeedAssumption /\ Pool!PoolAssumption
  /\ Bus!BusAssumption /\ Gate!DecisionAssumption
  /\ Cal!CalendarAssumption

(* The settings of M15 candles: a decision is made so early that a blocked  *)
(* one has no cooldown left when the next candle closes, and an eligible    *)
(* one is valid for a candle.  OneOfTwo is about no others.                 *)
ASSUME M15Assumption ==
  /\ Step - MaxLate >= Repeat["blocked"]
  /\ Validity["eligible"] <= Step

-----------------------------------------------------------------------------
feedVars == <<closed, stored, loaded, cached, lock, announced, run, used>>
poolVars == <<cursor, cooldown, recent, request>>
busVars == <<busClosed, place, queue, task, inflight, stop>>
gateVars == <<now, decisions, events, job>>
calVars == <<clock, observations, calendar, revisions, identity, checkpoint, sync, delay, faults>>
vars == <<part, feedVars, poolVars, busVars, gateVars, calVars>>

Init ==
  /\ part \in {"feed", "pool", "bus", "gate", "calendar"}
  /\ Feed!Init /\ Pool!Init /\ Bus!Init /\ Gate!Init /\ Cal!Init

Next ==
  /\ UNCHANGED part
  /\ \/ part = "feed" /\ Feed!Next /\ UNCHANGED <<poolVars, busVars, gateVars, calVars>>
     \/ part = "pool" /\ Pool!Next /\ UNCHANGED <<feedVars, busVars, gateVars, calVars>>
     \/ part = "bus"  /\ Bus!Next  /\ UNCHANGED <<feedVars, poolVars, gateVars, calVars>>
     \/ part = "gate" /\ Gate!Next /\ UNCHANGED <<feedVars, poolVars, busVars, calVars>>
     \/ part = "calendar" /\ Cal!Next /\ UNCHANGED <<feedVars, poolVars, busVars, gateVars>>

Spec == Init /\ [][Next]_vars

(* The fairness of the one component that has a liveness property. *)
Fairness ==
  /\ \A c \in Callers : WF_feedVars(part = "feed" /\ Feed!Work(c))
  /\ \A c \in Pollers : SF_feedVars(part = "feed" /\ Feed!Poll(c))
  /\ WF_feedVars(part = "feed" /\ Feed!Expire)

FairSpec == Spec /\ Fairness

-----------------------------------------------------------------------------
(* The properties of the components, under their own names.                 *)

(* The types of all five. *)
TypeOK == Feed!TypeOK /\ Pool!TypeOK /\ Bus!TypeOK /\ Gate!TypeOK /\ Cal!TypeOK

(* Candles are announced once, and none is missed without a fault. *)
AnnouncedOnce == Feed!AnnouncedOnce

(* A closed candle becomes visible to the readers of histories. *)
ClosedIsSeen == Feed!ClosedIsSeen

(* A provider account's cooldown is respected and not cut short. *)
CooldownKept == Pool!CooldownKept

(* The HTTP calls of one analysis at one account are bounded. *)
CallsBounded == Pool!CallsBounded

(* When drain() or close() has returned, what still runs has a reason. *)
StopWaits == Bus!StopWaits

(* One decision for one input; publishing it again takes a race. *)
DuplicatesAreRaces == Gate!DuplicatesAreRaces

(* An eligible decision is not repeated within its cooldown. *)
CooldownHolds == Gate!CooldownHolds

(* The cooldown does not perpetuate itself on M15 candles. *)
OneOfTwo == Gate!OneOfTwo

(* The revisions of an economic event lead to what is stored of it. *)
OneHistory == Cal!OneHistory

(* What is read of an event's past was observed by then. *)
PastIsKept == Cal!PastIsKept
=============================================================================
