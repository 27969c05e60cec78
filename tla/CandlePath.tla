----------------------------- MODULE CandlePath -----------------------------
(***************************************************************************)
(* What a final candle leaves in the database: its row in the integration  *)
(* outbox and, of an M15 candle, the attempt to simulate the market.  They *)
(* share no variable: a behaviour is one of either, picked by the initial  *)
(* state, and the other rests.  The tasks that deliver candles are those   *)
(* that simulate.                                                          *)
(***************************************************************************)
EXTENDS Naturals, FiniteSets

CONSTANTS
  Tasks, Pollers,
  Events, Rejected, Processes, NoProcess, Dead, Home, NoTask, NoEvent,  \* of IntegrationOutbox
  Decisions, BatchLimit, CandleLimit, CandleFaults,
  Results, NoResult, MaxWaits, AttemptLimit, AttemptFaults  \* of SimulationAttempt

VARIABLES
  part,
  row, stale, processed, signals, verdict, run, lock, circuit, used,
  ledger, analysis, synthesis, selection, old, delivered, task, restarted, spent

Candle == INSTANCE IntegrationOutbox WITH Limit <- CandleLimit, MaxFaults <- CandleFaults

Attempt == INSTANCE SimulationAttempt WITH
  Limit <- AttemptLimit, MaxFaults <- AttemptFaults

ASSUME CandlePathAssumption == Candle!OutboxAssumption /\ Attempt!AttemptAssumption

-----------------------------------------------------------------------------
candleVars == <<row, stale, processed, signals, verdict, run, lock, circuit, used>>
attemptVars ==
  <<ledger, analysis, synthesis, selection, old, delivered, task, restarted, spent>>
vars == <<part, candleVars, attemptVars>>

Init == part \in {"candle", "attempt"} /\ Candle!Init /\ Attempt!Init

Next ==
  /\ UNCHANGED part
  /\ \/ part = "candle"  /\ Candle!Next  /\ UNCHANGED attemptVars
     \/ part = "attempt" /\ Attempt!Next /\ UNCHANGED candleVars

Spec == Init /\ [][Next]_vars

(* The fairness of the component that runs. *)
Fairness ==
  /\ \A t \in Tasks : WF_candleVars(part = "candle" /\ Candle!Work(t))
  /\ \A t \in Pollers : WF_candleVars(part = "candle" /\ Candle!Claim(t))
  /\ \A e \in Events :
       /\ WF_candleVars(part = "candle" /\ Candle!Age(e))
       /\ WF_candleVars(part = "candle" /\ Candle!LeaseExpires(e))
       /\ WF_candleVars(part = "candle" /\ Candle!BackoffEnds(e))
  /\ \A p \in Processes : WF_candleVars(part = "candle" /\ Candle!CircuitCloses(p))
  /\ \A t \in Tasks : WF_attemptVars(part = "attempt" /\ Attempt!Work(t))
  /\ \A t \in Pollers : WF_attemptVars(part = "attempt" /\ Attempt!Recover(t))

FairSpec == Spec /\ Fairness

-----------------------------------------------------------------------------
(* The properties of the components, under their own names.                 *)

(* The types of both. *)
TypeOK == Candle!TypeOK /\ Attempt!TypeOK

(* A processed event has the signal its delivery decided on, and no other. *)
SignalMatchesMark == Candle!SignalMatchesMark

(* Second signals and simultaneous cycles of an event cost faults. *)
RerunsCostFaults == Candle!RerunsCostFaults

(* The rows of the outbox deliver. *)
Delivers == Candle!Delivers

(* An enqueued event is published. *)
EventuallyPublished == Candle!EventuallyPublished

(* The attempt tells what became of its simulation. *)
LedgerIsTrue == Attempt!LedgerIsTrue

(* A finished attempt stays as it is. *)
FinalStays == Attempt!FinalStays

(* An attempt is settled once the AI has answered. *)
AnsweredSettles == Attempt!AnsweredSettles
=============================================================================
