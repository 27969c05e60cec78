----------------------------- MODULE MCInProcess -----------------------------
(* Model checking of InProcess: two provider accounts, decisions on M15      *)
(* candles, one economic event.                                              *)
EXTENDS InProcess

CONSTANTS g1, g2

MCAccounts == <<g1, g2>>

(* Each fault of the feed at most once. *)
MCFeedLimit == [f \in {"crashes", "errors", "lags", "holes"} |-> 1]

(* Decisions on the candles closed at 4 and 19, and as of 0, for which a     *)
(* caller may ask.                                                           *)
MCRepeat == [eligible |-> 15, observe_only |-> 5, blocked |-> 5, insufficient |-> 5, invalid |-> 5]
MCValidity == [eligible |-> 15, observe_only |-> 10, blocked |-> 5, insufficient |-> 3, invalid |-> 1]

Ev(label, action, strength, confidence) ==
  [label |-> label, action |-> action, strength |-> strength, confidence |-> confidence,
   gates |-> {}]
MCEvidences ==
  { Ev("bullish", "BUY", 70, 80), Ev("bearish", "SELL", 75, 80), Ev("bearish", "BUY", 70, 72) }
MCInstants == {5, 20}
MCAsOfs == {0, 4, 19}

(* An event that gets a date, is moved, released and revised; on its first   *)
(* day it may also be released with less importance.                         *)
Says(schedule, value, importance) ==
  [schedule |-> schedule, value |-> value, importance |-> importance]
MCContents ==
  { Says("tentative", "none", "low"), Says("today", "none", "high"), Says("today", "revised", "low"),
    Says("later", "none", "high"), Says("later", "first", "high"), Says("later", "revised", "high") }
=============================================================================
