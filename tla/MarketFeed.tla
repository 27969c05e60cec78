----------------------------- MODULE MarketFeed -----------------------------
(***************************************************************************)
(* The closed candles of one series in engines/market_data_engine: the     *)
(* worker and HTTP callers poll the newest candle (service.py, latest),    *)
(* fill a gap before it, store, and announce every candle that closed as   *)
(* NewCandle, on which the analytical pipeline runs; bootstrap and HTTP    *)
(* callers fetch, store and cache whole histories (service.py, history)    *)
(* and announce nothing.  Candles are numbered in the order they close.    *)
(***************************************************************************)
EXTENDS Naturals, Sequences, FiniteSetsExt

CONSTANTS
  MaxTime,    \* bounds the candles of a behaviour
  Callers,    \* the polling worker, its bootstrap, and the HTTP requests
  Pollers,    \* the polling worker, which goes on for ever
  NoCaller,
  Limit,      \* bounds on the faults of a behaviour, of each kind
  MaxFaults   \* and of all kinds together

Faults == {"crashes", "errors", "lags", "holes"}
Times == 1..MaxTime

(* What the constants are, assumed where they get their values. *)
FeedAssumption ==
  /\ MaxTime \in Nat \ {0} /\ Pollers \subseteq Callers
  /\ NoCaller \notin Callers
  /\ Limit \in [Faults -> Nat] /\ MaxFaults \in Nat

VARIABLES
  closed,     \* how many candles have closed in the market
  stored,     \* the candles of historical_candles
  loaded,     \* those that a history request stored first
  cached,     \* the cached history, {} if there is none or it has expired
  lock,       \* the poll lock of the series
  announced,  \* the NewCandle events that the pipeline enqueued
  run,        \* where each caller is, and with what
  used        \* how much of Limit is spent

vars == <<closed, stored, loaded, cached, lock, announced, run, used>>

Idle == [pc |-> "idle", got |-> 0, prev |-> 0, rest |-> << >>]

Spend(fault) ==
  /\ used[fault] < Limit[fault]
  /\ SumFunction(used) < MaxFaults
  /\ used' = [used EXCEPT ![fault] = @ + 1]

At(c, pc) == run[c].pc = pc
Goto(c, pc) == run' = [run EXCEPT ![c].pc = pc]
Leave(c) == run' = [run EXCEPT ![c] = Idle]
Release(c) == lock' = IF lock = c THEN NoCaller ELSE lock

(* The elements of S in the order in which they close. *)
Ascending(S) ==
  CHOOSE s \in [1..Cardinality(S) -> S] :
    Range(s) = S /\ \A i, j \in DOMAIN s : i < j => s[i] < s[j]

-----------------------------------------------------------------------------
(* One poll of the newest closed candle, under the lock of the series.      *)

Lockable_Any == TRUE                       \* deviation: polls are not serialised
Lockable == lock = NoCaller

Poll(c) ==
  /\ At(c, "idle") /\ Lockable
  /\ lock' = c
  /\ Goto(c, "fetch")
  /\ UNCHANGED <<closed, stored, loaded, cached, announced, used>>

(* The provider manager asks vendors in turn; one that is asked after a     *)
(* failover may lag behind.                                                 *)
Fetch(c) ==
  /\ At(c, "fetch") /\ closed > 0
  /\ \E t \in { closed, closed - 1 } \ {0} :
       /\ IF t < closed THEN Spend("lags") ELSE UNCHANGED used
       /\ run' = [run EXCEPT ![c].pc = "look", ![c].got = t]
  /\ UNCHANGED <<closed, stored, loaded, cached, lock, announced>>

NoCandle(c) ==
  /\ At(c, "fetch") /\ closed = 0
  /\ Leave(c) /\ Release(c)
  /\ UNCHANGED <<closed, stored, loaded, cached, announced, used>>

(* The newest stored candle that is not after the fetched one.              *)
Previous(t) == Max({0} \cup { u \in stored : u <= t })

(* A duplicate ends the poll; the same candle with other values, which a    *)
(* correction or another vendor has, goes on; a gap since the previous      *)
(* candle is filled first.                                                  *)
Look(c) ==
  LET t == run[c].got
      prev == Previous(t)
  IN /\ At(c, "look")
     /\ \/ prev = t /\ Leave(c) /\ Release(c)
        \/ /\ run' = [run EXCEPT ![c].prev = prev, ![c].rest = <<t>>,
                                     ![c].pc = IF prev # 0 /\ prev + 1 < t
                                                 THEN "recover" ELSE "append"]
           /\ UNCHANGED lock
     /\ UNCHANGED <<closed, stored, loaded, cached, announced, used>>

NewlyClosed_Last(c, S) == <<run[c].got>>   \* deviation: only the newest is announced
NewlyClosed(c, S) == Ascending(S \cup {run[c].got})

(* The missing candles, as far as the vendor has them.                      *)
Recover(c) ==
  /\ At(c, "recover")
  /\ LET gap == run[c].prev + 1 .. run[c].got - 1
     IN \E S \in SUBSET gap :
          /\ IF S # gap THEN Spend("holes") ELSE UNCHANGED used
          /\ stored' = stored \cup S
          /\ run' = [run EXCEPT ![c].pc = "append", ![c].rest = NewlyClosed(c, S)]
  /\ UNCHANGED <<closed, loaded, cached, lock, announced>>

Corrects(c) == run[c].prev = run[c].got

AppendRealtime(c) ==
  /\ At(c, "append")
  /\ stored' = stored \cup {run[c].got}
  /\ Goto(c, "invalidate")
  /\ UNCHANGED <<closed, loaded, cached, lock, announced, used>>

(* A correction of a stored candle is not announced again.                  *)
Announcements_All(c) == run[c].rest        \* deviation: corrections are announced
Announcements(c) == IF Corrects(c) THEN << >> ELSE run[c].rest

Invalidate(c) ==
  /\ At(c, "invalidate")
  /\ cached' = {}
  /\ run' = [run EXCEPT ![c].pc = "publish", ![c].rest = Announcements(c)]
  /\ UNCHANGED <<closed, stored, loaded, lock, announced, used>>

(* publish returns when IntegrationService._on_candle has enqueued.         *)
Publish(c) ==
  /\ At(c, "publish")
  /\ IF run[c].rest = << >>
       THEN Leave(c) /\ Release(c) /\ UNCHANGED announced
       ELSE /\ announced' = Append(announced, Head(run[c].rest))
            /\ run' = [run EXCEPT ![c].rest = Tail(@)]
            /\ UNCHANGED lock
  /\ UNCHANGED <<closed, stored, loaded, cached, used>>

Polling == {"fetch", "look", "recover", "append", "invalidate", "publish"}

-----------------------------------------------------------------------------
(* Histories.                                                               *)

(* From the cache, else from the table, else from a vendor; refresh goes to *)
(* the vendor at once.                                                      *)
History(c) ==
  /\ c \notin Pollers /\ At(c, "idle") /\ cached = {}
  /\ Goto(c, IF stored = {} THEN "load" ELSE "keep")
  /\ UNCHANGED <<closed, stored, loaded, cached, lock, announced, used>>

(* The read and the write of the cache are two steps: what is written may   *)
(* be older than the table by then.                                         *)
Read(c) ==
  /\ At(c, "keep")
  /\ run' = [run EXCEPT ![c].pc = "cache", ![c].rest = Ascending(stored)]
  /\ UNCHANGED <<closed, stored, loaded, cached, lock, announced, used>>

Refresh(c) ==
  /\ c \notin Pollers /\ At(c, "idle")
  /\ Goto(c, "load")
  /\ UNCHANGED <<closed, stored, loaded, cached, lock, announced, used>>

(* What was asked for, as far as it has closed, sorted and validated, is    *)
(* stored.  A candle that the vendors lack or the cross-check quarantines   *)
(* leaves a hole.                                                           *)
Load(c) ==
  /\ At(c, "load") /\ closed > 0
  /\ \E first \in 1..closed : \E last \in first..closed :
       \E S \in SUBSET (first..last) \ {{}} :
         /\ IF S # first..last THEN Spend("holes") ELSE UNCHANGED used
         /\ stored' = stored \cup S
         /\ loaded' = loaded \cup (S \ stored)
         /\ run' = [run EXCEPT ![c].pc = "cache", ![c].rest = Ascending(S)]
  /\ UNCHANGED <<closed, cached, lock, announced>>

Keep(c) ==
  /\ At(c, "cache")
  /\ cached' = Range(run[c].rest)
  /\ Leave(c)
  /\ UNCHANGED <<closed, stored, loaded, lock, announced, used>>

Expires_Never == FALSE                     \* deviation: entries have no TTL
Expires == cached # {}
Expire ==
  /\ Expires
  /\ cached' = {}
  /\ UNCHANGED <<closed, stored, loaded, lock, announced, run, used>>

-----------------------------------------------------------------------------
(* Failures: a vendor, the database or the enqueueing handler raises; the   *)
(* process dies, and with it the lock, while cache files survive.           *)

Raise(c) ==
  /\ run[c].pc # "idle"
  /\ Spend("errors")
  /\ Leave(c) /\ Release(c)
  /\ UNCHANGED <<closed, stored, loaded, cached, announced>>

Crash ==
  /\ Spend("crashes")
  /\ run' = [c \in Callers |-> Idle]
  /\ lock' = NoCaller
  /\ UNCHANGED <<closed, stored, loaded, cached, announced>>

(* The market closes a candle. *)
Close ==
  /\ closed < MaxTime
  /\ closed' = closed + 1
  /\ UNCHANGED <<stored, loaded, cached, lock, announced, run, used>>

-----------------------------------------------------------------------------
Init ==
  /\ closed = 0
  /\ stored = {} /\ loaded = {} /\ cached = {}
  /\ lock = NoCaller
  /\ announced = << >>
  /\ run = [c \in Callers |-> Idle]
  /\ used = [f \in Faults |-> 0]

Work(c) ==
  \/ Fetch(c) \/ NoCandle(c) \/ Look(c) \/ Recover(c) \/ AppendRealtime(c)
  \/ Invalidate(c) \/ Publish(c)
  \/ Read(c) \/ Load(c) \/ Keep(c)

Next ==
  \/ \E c \in Callers : Poll(c) \/ History(c) \/ Refresh(c) \/ Work(c) \/ Raise(c)
  \/ Expire \/ Close \/ Crash

Spec == Init /\ [][Next]_vars

(* Requests are carried on, the worker polls for ever and comes to the      *)
(* front of the lock's queue, entries expire.                               *)
Fairness ==
  /\ \A c \in Callers : WF_vars(Work(c))
  /\ \A c \in Pollers : SF_vars(Poll(c))
  /\ WF_vars(Expire)

FairSpec == Spec /\ Fairness

-----------------------------------------------------------------------------
(* Properties.                                                              *)

(* Types; what is cached or was loaded is stored, and whoever polls holds   *)
(* the lock.                                                                *)
TypeOK ==
  /\ closed \in 0..MaxTime
  /\ stored \subseteq 1..closed
  /\ loaded \subseteq stored /\ cached \subseteq stored
  /\ announced \in Seq(Times)
  /\ run \in [Callers -> [pc : Polling \cup {"idle", "keep", "load", "cache"},
                          got : 0..MaxTime, prev : 0..MaxTime, rest : Seq(Times)]]
  /\ \A c \in Callers : run[c].pc \in Polling <=> lock = c
  /\ used \in [Faults -> Nat]

Missed == stored \ (loaded \cup Range(announced))

(* docs/RESOURCE_OPTIMIZATION.md:62: candles are persisted and then         *)
(* published once.  However polls, corrections, gaps, histories and         *)
(* restarts overlap, no candle is announced twice, none that a reader could *)
(* not find in the table; and the pipeline misses a candle that a poll      *)
(* stored only through a fault, a poll that raised or died between the two  *)
(* (service.py:176).                                                        *)
AnnouncedOnce ==
  /\ IsInjective(announced) /\ Range(announced) \subseteq stored
  /\ lock = NoCaller /\ used["errors"] + used["crashes"] = 0 => Missed = {}

(* A candle that closes becomes visible to every reader of histories, that  *)
(* or a later one, in spite of stale entries that overlapping readers cache.*)
Visible(t) == \E u \in stored : u >= t /\ (cached = {} \/ u \in cached)
ClosedIsSeen == []<>(closed = 0 \/ Visible(closed))
=============================================================================
