-------------------------- MODULE MCSignalDecision --------------------------
(* M5 candles of one instrument, closed at 0 and 5, for SignalDecision. *)
EXTENDS SignalDecision

Ev(label, action, strength, confidence) ==
  [label |-> label, action |-> action, strength |-> strength, confidence |-> confidence,
   gates |-> {}]
MCEvidences == { Ev("bullish", "BUY", 70, 80), Ev("bearish", "SELL", 75, 80) }

MCInstants == {1, 6}
MCAsOfs == {0, 5}
MCRepeat == [eligible |-> 15, observe_only |-> 5, blocked |-> 5, insufficient |-> 5, invalid |-> 5]
MCValidity == [eligible |-> 5, observe_only |-> 3, blocked |-> 5, insufficient |-> 3, invalid |-> 1]
=============================================================================
