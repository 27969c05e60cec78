--------------------------- MODULE InProcessProofs ---------------------------
(***************************************************************************)
(* Proofs about the candles of a series, the event bus and the provider    *)
(* pool of InProcess, for any callers, candles and faults, publications,   *)
(* handlers and capacity, accounts, requests, retries and threshold; and   *)
(* the types of all five components.                                       *)
(***************************************************************************)
EXTENDS CalendarProofs, DecisionProofs

USE InProcessAssumption DEF Feed!FeedAssumption

LEMMA FeedSteps ==
  ASSUME [Next]_vars
  PROVE  Feed!Next \/ UNCHANGED feedVars
  BY DEF Next, vars

LEMMA FeedCount == \A S : Feed!Cardinality(S) = Cardinality(S)
  BY DEF Cardinality, Feed!Cardinality

(* A finite set of naturals can be put in order: if not, take one with the  *)
(* fewest elements, and put its least before the others.                    *)
InOrder(S, s) ==
  /\ s \in [1..Cardinality(S) -> S]
  /\ Feed!Range(s) = S
  /\ \A i, j \in DOMAIN s : i < j => s[i] < s[j]

LEMMA Prepended ==
  ASSUME NEW S, S \subseteq Nat, IsFiniteSet(S), NEW x \in S, \A y \in S : x <= y,
         NEW s, InOrder(S \ {x}, s)
  PROVE  \E r : InOrder(S, r)
  <1> DEFINE n == Cardinality(S)
             r == [i \in 1..n |-> IF i = 1 THEN x ELSE s[i - 1]]
  <1>a. n \in Nat
    BY FS_CardinalityType
  <1>b. IsFiniteSet(S \ {x}) /\ Cardinality(S \ {x}) = n - 1
    BY FS_RemoveElement
  <1>c. Cardinality(S \ {x}) \in Nat
    BY <1>b, FS_CardinalityType
  <1> HIDE DEF n
  <1>1. n \in Nat /\ Cardinality(S \ {x}) = n - 1 /\ n - 1 \in Nat
    BY <1>a, <1>b, <1>c
  <1>2. \A i \in 1..n : i # 1 => i - 1 \in 1..(n - 1)
    BY <1>1
  <1>3. s \in [1..(n - 1) -> S \ {x}] /\ Feed!Range(s) = S \ {x}
    BY <1>1 DEF InOrder
  <1>4. \A i \in 1..n : i # 1 => r[i] = s[i - 1] /\ r[i] \in S /\ r[i] # x
    BY <1>2, <1>3
  <1>5. 1 \in 1..n /\ r[1] = x
    BY <1>1
  <1>6. r \in [1..n -> S]
    BY <1>4, <1>5
  <1>7. Feed!Range(r) = S
    <2>1. \A y \in S : y # x => \E i \in 1..n : r[i] = y
      <3> SUFFICES ASSUME NEW y \in S, y # x PROVE \E i \in 1..n : r[i] = y
        OBVIOUS
      <3>1. PICK k \in 1..(n - 1) : s[k] = y
        BY <1>3 DEF Feed!Range
      <3>2. k + 1 \in 1..n /\ k + 1 # 1 /\ (k + 1) - 1 = k
        BY <1>1
      <3>3. r[k + 1] = s[(k + 1) - 1]
        BY <1>4, <3>2
      <3> QED BY <3>1, <3>2, <3>3
    <2> HIDE DEF r
    <2> QED BY <1>5, <1>6, <2>1 DEF Feed!Range
  <1>8. ASSUME NEW i \in 1..n, NEW j \in 1..n, i < j PROVE r[i] < r[j]
    <2>1. j # 1 /\ j - 1 \in 1..(n - 1) /\ r[j] = s[j - 1] /\ r[j] \in S /\ r[j] # x
      BY <1>1, <1>2, <1>4, <1>8
    <2>2. CASE i = 1
      <3>1. r[i] = x /\ x \in Nat /\ r[j] \in Nat /\ x <= r[j]
        BY <1>5, <2>1, <2>2
      <3> HIDE DEF r
      <3> QED BY <2>1, <3>1
    <2>3. CASE i # 1
      <3>1. i - 1 \in 1..(n - 1) /\ r[i] = s[i - 1]
        BY <1>2, <1>4, <2>3
      <3>2. i - 1 < j - 1
        BY <1>8
      <3>3. s[i - 1] < s[j - 1]
        BY <1>3, <2>1, <3>1, <3>2 DEF InOrder
      <3> QED BY <2>1, <3>1, <3>3
    <2> QED BY <2>2, <2>3
  <1>9. DOMAIN r = 1..n
    OBVIOUS
  <1>10. InOrder(S, r)
    <2> HIDE DEF r
    <2> QED BY <1>6, <1>7, <1>8, <1>9 DEF InOrder, n
  <1> QED BY <1>10

LEMMA OrderExists ==
  ASSUME NEW S, S \subseteq Nat, IsFiniteSet(S)
  PROVE  \E s : InOrder(S, s)
  <1> DEFINE Odd(T) == T \subseteq Nat /\ IsFiniteSet(T) /\ ~\E s : InOrder(T, s)
             Sizes == { n \in Nat : \E T : Odd(T) /\ Cardinality(T) = n }
  <1>1. SUFFICES ASSUME Odd(S) PROVE FALSE
    OBVIOUS
  <1>2. Cardinality(S) \in Sizes
    BY <1>1, FS_CardinalityType
  <1>3. PICK n \in Sizes : \A m \in Sizes : n <= m
    <2>1. Sizes \subseteq Nat /\ Sizes # {}
      BY <1>2
    <2> HIDE DEF Sizes
    <2> QED BY <2>1, LeastOfNat
  <1>4. PICK T : Odd(T) /\ Cardinality(T) = n
    BY <1>3
  <1>5. CASE T = {}
    <2>1. Cardinality(T) = 0 /\ 1..0 = {}
      BY <1>5, FS_EmptySet
    <2>2. InOrder(T, [i \in 1..0 |-> 0])
      BY <1>5, <2>1 DEF InOrder, Feed!Range
    <2> QED BY <1>4, <2>2
  <1>6. CASE T # {}
    <2>1. PICK x \in T : \A y \in T : x <= y
      BY <1>4, <1>6, LeastOfNat
    <2>2. IsFiniteSet(T \ {x}) /\ Cardinality(T \ {x}) = n - 1
      BY <1>4, <2>1, FS_RemoveElement
    <2>3. Cardinality(T \ {x}) \in Nat /\ n \in Nat
      BY <1>3, <2>2, FS_CardinalityType
    <2>4. ~(n <= Cardinality(T \ {x}))
      BY <2>2, <2>3
    <2>5. ~Odd(T \ {x})
      BY <1>3, <2>3, <2>4
    <2>6. PICK s : InOrder(T \ {x}, s)
      BY <1>4, <2>2, <2>5
    <2> QED BY <1>4, <2>1, <2>6, Prepended
  <1> QED BY <1>5, <1>6

LEMMA AscendingIs ==
  ASSUME NEW S, S \subseteq Nat, IsFiniteSet(S), NEW T, S \subseteq T
  PROVE  /\ Feed!Ascending(S) \in Seq(T)
         /\ Feed!Range(Feed!Ascending(S)) = S
         /\ Feed!IsInjective(Feed!Ascending(S))
  <1>1. PICK s : InOrder(S, s)
    BY OrderExists
  <1> DEFINE a == Feed!Ascending(S)
             n == Cardinality(S)
  <1>2. a \in [1..n -> S] /\ Feed!Range(a) = S /\ \A i, j \in DOMAIN a : i < j => a[i] < a[j]
    BY <1>1, FeedCount DEF InOrder, Feed!Ascending
  <1>3. n \in Nat
    BY FS_CardinalityType
  <1> HIDE DEF a, n
  <1>4. a \in Seq(T)
    <2>1. a \in [1..n -> T]
      BY <1>2
    <2> QED BY <1>3, <2>1
  <1>5. Feed!IsInjective(a)
    <2> SUFFICES ASSUME NEW i \in 1..n, NEW j \in 1..n, a[i] = a[j] PROVE i = j
      BY <1>2 DEF Feed!IsInjective
    <2>1. a[i] \in Nat /\ a[j] \in Nat
      BY <1>2
    <2>3. ~(a[i] < a[j]) /\ ~(a[j] < a[i])
      BY <2>1
    <2>2. ~(i < j) /\ ~(j < i)
      BY <1>2, <2>3
    <2> QED BY <2>2
  <1> QED BY <1>2, <1>4, <1>5 DEF a

LEMMA RangeOfAppend ==
  ASSUME NEW T, NEW s \in Seq(T), NEW x \in T
  PROVE  /\ Append(s, x) \in Seq(T)
         /\ Feed!Range(Append(s, x)) = Feed!Range(s) \cup {x}
         /\ Feed!IsInjective(s) /\ x \notin Feed!Range(s) => Feed!IsInjective(Append(s, x))
  <1> DEFINE a == Append(s, x)
             n == Len(s)
  <1>1. n \in Nat /\ DOMAIN s = 1..n /\ a \in Seq(T) /\ DOMAIN a = 1..(n + 1)
    OBVIOUS
  <1>2. a[n + 1] = x /\ \A i \in 1..n : a[i] = s[i]
    OBVIOUS
  <1> HIDE DEF a, n
  <1>3. Feed!Range(a) = Feed!Range(s) \cup {x}
    <2>1. \A i \in 1..(n + 1) : i = n + 1 \/ i \in 1..n
      BY <1>1
    <2>2. n + 1 \in 1..(n + 1) /\ \A i \in 1..n : i \in 1..(n + 1)
      BY <1>1
    <2>3. \A y \in Feed!Range(a) : y \in Feed!Range(s) \cup {x}
      BY <1>1, <1>2, <2>1 DEF Feed!Range
    <2>4. \A y \in Feed!Range(s) \cup {x} : y \in Feed!Range(a)
      BY <1>1, <1>2, <2>2 DEF Feed!Range
    <2> QED BY <2>3, <2>4
  <1>4. ASSUME Feed!IsInjective(s), x \notin Feed!Range(s) PROVE Feed!IsInjective(a)
    <2>1. \A i \in 1..(n + 1) : i = n + 1 \/ i \in 1..n
      BY <1>1
    <2> QED BY <1>1, <1>2, <1>4, <2>1 DEF Feed!IsInjective, Feed!Range
  <1> QED BY <1>1, <1>3, <1>4 DEF a

LEMMA RangeOfTail ==
  ASSUME NEW T, NEW s \in Seq(T), s # << >>
  PROVE  /\ Tail(s) \in Seq(T)
         /\ Head(s) \in Feed!Range(s)
         /\ Feed!Range(s) = {Head(s)} \cup Feed!Range(Tail(s))
         /\ Feed!IsInjective(s) => Feed!IsInjective(Tail(s)) /\ Head(s) \notin Feed!Range(Tail(s))
  <1> DEFINE r == Tail(s)
             n == Len(s)
  <1>1. n \in Nat /\ n >= 1 /\ DOMAIN s = 1..n /\ r \in Seq(T) /\ DOMAIN r = 1..(n - 1)
    <2>1. n \in Nat /\ n # 0 /\ DOMAIN s = 1..n
      OBVIOUS
    <2>2. r \in Seq(T) /\ Len(r) = n - 1
      OBVIOUS
    <2> QED BY <2>1, <2>2
  <1>2. Head(s) = s[1] /\ \A i \in 1..(n - 1) : r[i] = s[i + 1]
    OBVIOUS
  <1> HIDE DEF r, n
  <1>3. /\ 1 \in 1..n
        /\ \A i \in 1..(n - 1) : i + 1 \in 1..n /\ i + 1 # 1
        /\ \A i \in 1..n : i # 1 => i - 1 \in 1..(n - 1) /\ (i - 1) + 1 = i
        /\ \A i, j \in 1..(n - 1) : i + 1 = j + 1 => i = j
    BY <1>1
  <1>4. Feed!Range(s) = {Head(s)} \cup Feed!Range(r)
    <2>1. ASSUME NEW i \in 1..n PROVE s[i] = Head(s) \/ s[i] \in Feed!Range(r)
      <3>1. CASE i = 1
        BY <1>2, <3>1
      <3>2. CASE i # 1
        <4>1. i - 1 \in 1..(n - 1) /\ (i - 1) + 1 = i
          BY <1>3, <3>2
        <4>2. r[i - 1] = s[i]
          BY <1>2, <4>1
        <4> QED BY <1>1, <4>1, <4>2 DEF Feed!Range
      <3> QED BY <3>1, <3>2
    <2>2. ASSUME NEW k \in 1..(n - 1) PROVE r[k] \in Feed!Range(s)
      <3>1. k + 1 \in 1..n /\ r[k] = s[k + 1]
        BY <1>2, <1>3
      <3> QED BY <1>1, <3>1 DEF Feed!Range
    <2>3. Head(s) \in Feed!Range(s)
      BY <1>1, <1>2, <1>3 DEF Feed!Range
    <2>4. \A y \in Feed!Range(s) : y \in {Head(s)} \cup Feed!Range(r)
      <3>1. \A y \in Feed!Range(s) : \E i \in 1..n : y = s[i]
        BY <1>1 DEF Feed!Range
      <3> QED BY <2>1, <3>1
    <2>5. \A y \in Feed!Range(r) : y \in Feed!Range(s)
      <3>1. \A y \in Feed!Range(r) : \E k \in 1..(n - 1) : y = r[k]
        BY <1>1 DEF Feed!Range
      <3> QED BY <2>2, <3>1
    <2> QED BY <2>3, <2>4, <2>5
  <1>5. ASSUME Feed!IsInjective(s) PROVE Feed!IsInjective(r) /\ Head(s) \notin Feed!Range(r)
    <2>1. \A i, j \in 1..n : s[i] = s[j] => i = j
      BY <1>1, <1>5 DEF Feed!IsInjective
    <2>2. ASSUME NEW i \in 1..(n - 1), NEW j \in 1..(n - 1), r[i] = r[j] PROVE i = j
      <3>1. s[i + 1] = s[j + 1] /\ i + 1 \in 1..n /\ j + 1 \in 1..n
        BY <1>2, <1>3, <2>2
      <3>2. i + 1 = j + 1
        BY <2>1, <3>1
      <3> QED BY <1>3, <3>2
    <2>3. ASSUME NEW k \in 1..(n - 1) PROVE r[k] # Head(s)
      <3>1. r[k] = s[k + 1] /\ k + 1 \in 1..n /\ k + 1 # 1 /\ 1 \in 1..n /\ Head(s) = s[1]
        BY <1>2, <1>3
      <3> QED BY <2>1, <3>1
    <2> QED BY <1>1, <2>2, <2>3 DEF Feed!IsInjective, Feed!Range
  <1> QED BY <1>1, <1>4, <1>5 DEF r

-----------------------------------------------------------------------------
(* The candles of a series.                                                 *)

(* What c is about to announce: nothing twice, nothing that was announced   *)
(* before, and nothing but candles of S.                                    *)
Unannounced(c, S) ==
  /\ Feed!IsInjective(run[c].rest)
  /\ Feed!Range(run[c].rest) \subseteq S
  /\ Feed!Range(run[c].rest) \cap Feed!Range(announced) = {}

(* Between looking for a gap and storing, no one else announces: the lock.  *)
InPoll(c) ==
  /\ run[c].pc \in {"look", "recover", "append", "invalidate"} => run[c].got \in 1..closed
  /\ run[c].pc = "recover" =>
       /\ run[c].prev < run[c].got
       /\ (run[c].prev + 1 .. run[c].got) \cap Feed!Range(announced) = {}
  /\ run[c].pc \in {"append", "invalidate"} =>
       IF Feed!Corrects(c)
         THEN run[c].got \in stored
         ELSE /\ run[c].got \in Feed!Range(run[c].rest)
              /\ Unannounced(c, IF run[c].pc = "append" THEN stored \cup {run[c].got} ELSE stored)
  /\ run[c].pc = "publish" => Unannounced(c, stored)
  /\ run[c].pc = "cache" => Feed!Range(run[c].rest) \subseteq stored

(* Who will announce a stored candle. *)
Announces(c, u) ==
  /\ run[c].pc \in {"append", "invalidate", "publish"}
  /\ run[c].pc # "publish" => ~Feed!Corrects(c)
  /\ u \in Feed!Range(run[c].rest)

FeedRaised == used["errors"] + used["crashes"]
NoneLost ==
  FeedRaised = 0 => \A u \in Feed!Missed : \E c \in Callers : Announces(c, u)

FeedInv ==
  /\ Feed!TypeOK
  /\ Feed!IsInjective(announced) /\ Feed!Range(announced) \subseteq stored
  /\ \A c \in Callers : InPoll(c)
  /\ NoneLost

(* The newest stored candle that is not after t. *)
LEMMA PreviousIs ==
  ASSUME closed \in Nat, stored \subseteq 1..closed, NEW t \in 1..closed
  PROVE  /\ Feed!Previous(t) \in 0..t
         /\ Feed!Previous(t) = 0 \/ Feed!Previous(t) \in stored
         /\ \A u \in stored : u <= t => u <= Feed!Previous(t)
  <1> DEFINE S == {0} \cup { u \in stored : u <= t }
             D == { t - u : u \in S }
  <1>1. t \in Nat /\ S \subseteq 0..t /\ 0 \in S
    <2>1. t \in Nat /\ \A u \in stored : u \in Nat
      OBVIOUS
    <2>2. \A u \in S : u \in 0..t
      BY <2>1
    <2> QED BY <2>1, <2>2
  <1>2. D \subseteq Nat /\ D # {}
    BY <1>1
  <1>3. PICK d \in D : \A e \in D : d <= e
    <2> HIDE DEF D
    <2> QED BY <1>2, LeastOfNat
  <1>4. PICK m \in S : d = t - m
    BY <1>3
  <1>5. \A u \in S : t - m <= t - u
    BY <1>3, <1>4
  <1> HIDE DEF S, D
  <1>6. \A u \in S : m >= u
    BY <1>1, <1>4, <1>5
  <1>7. Feed!Max(S) \in S /\ \A u \in S : Feed!Max(S) >= u
    BY <1>4, <1>6 DEF Feed!Max
  <1>8. Feed!Previous(t) = Feed!Max(S)
    BY DEF Feed!Previous, S
  <1>9. \A u \in S : u <= Feed!Previous(t)
    BY <1>1, <1>7, <1>8
  <1> QED BY <1>1, <1>7, <1>8, <1>9 DEF S

FeedRecords ==
  [pc : Feed!Polling \cup {"idle", "keep", "load", "cache"},
   got : 0..MaxTime, prev : 0..MaxTime, rest : Seq(Feed!Times)]
Storing == {"append", "invalidate", "publish"}

LEMMA FeedTypes ==
  ASSUME FeedInv
  PROVE  /\ closed \in Nat /\ closed <= MaxTime /\ MaxTime \in Nat
         /\ stored \subseteq 1..closed /\ loaded \subseteq stored /\ cached \subseteq stored
         /\ announced \in Seq(Feed!Times)
         /\ run \in [Callers -> FeedRecords]
         /\ \A c \in Callers : run[c].pc \in Feed!Polling <=> lock = c
         /\ used \in [Feed!Faults -> Nat]
  BY DEF FeedInv, Feed!TypeOK, FeedRecords

LEMMA FeedSpent ==
  ASSUME used \in [Feed!Faults -> Nat], NEW f \in Feed!Faults, Feed!Spend(f)
  PROVE  /\ used' \in [Feed!Faults -> Nat]
         /\ FeedRaised' = 0 => FeedRaised = 0
         /\ f \in {"errors", "crashes"} => FeedRaised' # 0
  <1>1. used' = [used EXCEPT ![f] = @ + 1]
    BY DEF Feed!Spend
  <1>2. used' \in [Feed!Faults -> Nat]
    BY <1>1
  <1>3. used["errors"] \in Nat /\ used["crashes"] \in Nat
    BY DEF Feed!Faults
  <1>4. /\ used'["errors"] = used["errors"] + (IF f = "errors" THEN 1 ELSE 0)
        /\ used'["crashes"] = used["crashes"] + (IF f = "crashes" THEN 1 ELSE 0)
    BY <1>1, <1>3 DEF Feed!Faults
  <1> QED BY <1>2, <1>3, <1>4 DEF FeedRaised

(* What other callers hold stays true while c moves, for c alone announces. *)
LEMMA OthersInPoll ==
  ASSUME FeedInv, NEW d \in Callers, run'[d] = run[d],
         closed' \in Nat, closed <= closed', stored \subseteq stored',
         announced' = announced \/ run[d].pc \notin Feed!Polling
  PROVE  InPoll(d)'
  <1>1. InPoll(d) /\ closed \in Nat
    BY FeedTypes DEF FeedInv
  <1>2. run[d].pc \in {"look", "recover", "append", "invalidate"} => run[d].got \in 1..closed'
    BY <1>1 DEF InPoll
  <1>3. CASE announced' = announced
    BY <1>1, <1>2, <1>3 DEF InPoll, Unannounced, Feed!Corrects
  <1>4. CASE run[d].pc \notin Feed!Polling
    BY <1>1, <1>2, <1>4 DEF InPoll, Feed!Polling
  <1> QED BY <1>3, <1>4

LEMMA FeedMove ==
  ASSUME FeedInv, NEW c \in Callers, NEW q \in FeedRecords, run' = [run EXCEPT ![c] = q],
         closed' = closed,
         stored \subseteq stored', stored' \subseteq 1..closed,
         loaded' \subseteq stored', cached' \subseteq stored',
         announced' \in Seq(Feed!Times), Feed!IsInjective(announced'),
         Feed!Range(announced') \subseteq stored',
         announced' = announced \/ run[c].pc \in Feed!Polling,
         \/ lock' = lock /\ (q.pc \in Feed!Polling <=> run[c].pc \in Feed!Polling)
         \/ lock' = NoCaller /\ lock = c /\ q.pc \notin Feed!Polling
         \/ lock' = c /\ lock = NoCaller /\ q.pc \in Feed!Polling,
         used' \in [Feed!Faults -> Nat],
         InPoll(c)', NoneLost'
  PROVE  FeedInv'
  <1> USE FeedTypes
  <1>1. run'[c] = q /\ \A d \in Callers : d # c => run'[d] = run[d]
    OBVIOUS
  <1>2. run' \in [Callers -> FeedRecords]
    OBVIOUS
  <1>3. \A d \in Callers : run'[d].pc \in Feed!Polling <=> lock' = d
    <2> SUFFICES ASSUME NEW d \in Callers PROVE run'[d].pc \in Feed!Polling <=> lock' = d
      OBVIOUS
    <2>1. (run[c].pc \in Feed!Polling <=> lock = c) /\ (run[d].pc \in Feed!Polling <=> lock = d)
      OBVIOUS
    <2>2. d # NoCaller /\ c # NoCaller
      OBVIOUS
    <2>3. CASE d = c
      BY <1>1, <2>1, <2>2, <2>3
    <2>4. CASE d # c
      BY <1>1, <2>1, <2>2, <2>4
    <2> QED BY <2>3, <2>4
  <1>4. ASSUME NEW d \in Callers PROVE InPoll(d)'
    <2>1. CASE d = c
      BY <2>1
    <2>2. CASE d # c
      <3>1. announced' = announced \/ run[d].pc \notin Feed!Polling
        BY <2>2
      <3>2. run'[d] = run[d] /\ closed' \in Nat /\ closed <= closed'
        BY <1>1, <2>2
      <3> QED BY <3>1, <3>2, OthersInPoll
    <2> QED BY <2>1, <2>2
  <1>5. Feed!TypeOK'
    BY <1>2, <1>3 DEF Feed!TypeOK, FeedRecords
  <1> QED BY <1>4, <1>5 DEF FeedInv

(* No candle is lost by a step of c that announces what c was to announce. *)
LEMMA NoneLostMove ==
  ASSUME FeedInv, NEW c \in Callers, \A d \in Callers : d # c => run'[d] = run[d],
         FeedRaised' = 0 => FeedRaised = 0,
         \A u \in (Feed!Missed)' : u \in Feed!Missed \/ Announces(c, u)',
         \A u \in (Feed!Missed)' : Announces(c, u) => Announces(c, u)'
  PROVE  NoneLost'
  <1> SUFFICES ASSUME FeedRaised' = 0, NEW u \in (Feed!Missed)'
               PROVE  \E d \in Callers : Announces(d, u)'
    BY DEF NoneLost
  <1>1. CASE Announces(c, u)'
    BY <1>1
  <1>2. CASE u \in Feed!Missed
    <2>1. PICK d \in Callers : Announces(d, u)
      BY <1>2 DEF FeedInv, NoneLost
    <2>2. CASE d = c
      BY <2>1, <2>2
    <2>3. CASE d # c
      <3>1. Announces(d, u)'
        BY <2>1, <2>3 DEF Announces, Feed!Corrects
      <3> QED BY <3>1
    <2> QED BY <2>2, <2>3
  <1> QED BY <1>1, <1>2

LEMMA OnlyStoringAnnounces ==
  ASSUME NEW c, NEW u, Announces(c, u)
  PROVE  run[c].pc \in Storing
  BY DEF Announces, Storing

LEMMA QuietMove ==
  ASSUME FeedInv, NEW c \in Callers, \A d \in Callers : d # c => run'[d] = run[d],
         run[c].pc \notin Storing, FeedRaised' = 0 => FeedRaised = 0,
         (Feed!Missed)' \subseteq Feed!Missed
  PROVE  NoneLost'
  BY NoneLostMove, OnlyStoringAnnounces

(* A step that stores and announces nothing. *)
LEMMA FeedQuiet ==
  ASSUME FeedInv, NEW c \in Callers, NEW q \in FeedRecords, run' = [run EXCEPT ![c] = q],
         UNCHANGED <<closed, stored, loaded, announced>>, cached' \subseteq stored,
         \/ lock' = lock /\ (q.pc \in Feed!Polling <=> run[c].pc \in Feed!Polling)
         \/ lock' = NoCaller /\ lock = c /\ q.pc \notin Feed!Polling
         \/ lock' = c /\ lock = NoCaller /\ q.pc \in Feed!Polling,
         used' \in [Feed!Faults -> Nat], FeedRaised' = 0 => FeedRaised = 0,
         run[c].pc \notin Storing \/ FeedRaised' # 0,
         InPoll(c)'
  PROVE  FeedInv'
  <1>1. \A d \in Callers : d # c => run'[d] = run[d]
    BY FeedTypes
  <1>2. (Feed!Missed)' = Feed!Missed
    BY DEF Feed!Missed
  <1>3. NoneLost'
    <2>1. CASE run[c].pc \notin Storing
      BY <1>1, <1>2, <2>1, QuietMove
    <2>2. CASE FeedRaised' # 0
      BY <2>2 DEF NoneLost
    <2> QED BY <2>1, <2>2
  <1>4. /\ stored' \subseteq 1..closed /\ stored \subseteq stored' /\ loaded' \subseteq stored'
        /\ cached' \subseteq stored'
        /\ announced' \in Seq(Feed!Times) /\ Feed!IsInjective(announced')
        /\ Feed!Range(announced') \subseteq stored' /\ announced' = announced
    BY FeedTypes DEF FeedInv
  <1> QED BY <1>3, <1>4, FeedMove

LEMMA IdleIsARecord == Feed!Idle \in FeedRecords /\ Feed!Idle.pc = "idle"
  BY DEF Feed!Idle, FeedRecords, Feed!FeedAssumption, Feed!Times

LEMMA IdleInPoll ==
  ASSUME NEW c \in Callers, run'[c].pc \in {"idle", "fetch", "keep", "load"}
  PROVE  InPoll(c)'
  BY DEF InPoll

LEMMA PollKeeps == ASSUME FeedInv, NEW c \in Callers, Feed!Poll(c) PROVE FeedInv'
  <1> DEFINE q == [run[c] EXCEPT !.pc = "fetch"]
  <1>1. q \in FeedRecords /\ q.pc = "fetch"
    BY FeedTypes DEF FeedRecords, Feed!Polling
  <1>2. run' = [run EXCEPT ![c] = q]
    BY FeedTypes DEF Feed!Poll, Feed!Goto
  <1>3. /\ UNCHANGED <<closed, stored, loaded, cached, announced, used>>
        /\ lock' = c /\ lock = NoCaller /\ run[c].pc = "idle"
    BY DEF Feed!Poll, Feed!Lockable, Feed!At
  <1> HIDE DEF q
  <1>4. run'[c] = q
    BY <1>2, FeedTypes
  <1>5. InPoll(c)'
    BY <1>1, <1>4, IdleInPoll
  <1>6. q.pc \in Feed!Polling /\ run[c].pc \notin Storing /\ FeedRaised' = FeedRaised
        /\ used' \in [Feed!Faults -> Nat] /\ cached' \subseteq stored
    BY <1>1, <1>3, FeedTypes DEF Feed!Polling, Storing, FeedRaised
  <1> QED BY <1>1, <1>2, <1>3, <1>5, <1>6, FeedQuiet

LEMMA FeedFetchKeeps == ASSUME FeedInv, NEW c \in Callers, Feed!Fetch(c) PROVE FeedInv'
  <1>1. /\ run[c].pc = "fetch" /\ closed > 0
        /\ UNCHANGED <<closed, stored, loaded, cached, lock, announced>>
    BY DEF Feed!Fetch, Feed!At
  <1>2. PICK t \in {closed, closed - 1} \ {0} :
          /\ IF t < closed THEN Feed!Spend("lags") ELSE UNCHANGED used
          /\ run' = [run EXCEPT ![c].pc = "look", ![c].got = t]
    BY DEF Feed!Fetch
  <1>3. t \in 1..closed /\ t \in 0..MaxTime
    BY <1>1, FeedTypes
  <1> DEFINE q == [run[c] EXCEPT !.pc = "look", !.got = t]
  <1>4. q \in FeedRecords /\ q.pc = "look" /\ q.got = t
    BY <1>3, FeedTypes DEF FeedRecords, Feed!Polling
  <1>5. run' = [run EXCEPT ![c] = q]
    BY <1>2, FeedTypes
  <1> HIDE DEF q
  <1>6. run'[c] = q
    BY <1>5, FeedTypes
  <1>7. InPoll(c)'
    BY <1>1, <1>3, <1>4, <1>6 DEF InPoll
  <1>8. used' \in [Feed!Faults -> Nat] /\ (FeedRaised' = 0 => FeedRaised = 0)
    <2>1. CASE t < closed
      BY <1>2, <2>1, FeedSpent, FeedTypes DEF Feed!Faults
    <2>2. CASE ~(t < closed)
      BY <1>2, <2>2, FeedTypes DEF FeedRaised
    <2> QED BY <2>1, <2>2
  <1>9. q.pc \in Feed!Polling /\ run[c].pc \in Feed!Polling /\ run[c].pc \notin Storing
        /\ cached' \subseteq stored
    BY <1>1, <1>4, FeedTypes DEF Feed!Polling, Storing
  <1> QED BY <1>1, <1>4, <1>5, <1>7, <1>8, <1>9, FeedQuiet

(* A caller that ends its poll, or its request, without having stored. *)
LEMMA LeaveKeeps ==
  ASSUME FeedInv, NEW c \in Callers, Feed!Leave(c), Feed!Release(c),
         UNCHANGED <<closed, stored, loaded, announced>>, cached' \subseteq stored,
         used' \in [Feed!Faults -> Nat], FeedRaised' = 0 => FeedRaised = 0,
         run[c].pc \notin Storing \/ FeedRaised' # 0
  PROVE  FeedInv'
  <1>1. run' = [run EXCEPT ![c] = Feed!Idle]
    BY DEF Feed!Leave
  <1>2. run'[c] = Feed!Idle
    BY <1>1, FeedTypes
  <1>3. InPoll(c)'
    BY <1>2, IdleIsARecord, IdleInPoll
  <1>4. Feed!Idle.pc \notin Feed!Polling
    BY IdleIsARecord DEF Feed!Polling
  <1>5. \/ lock' = NoCaller /\ lock = c
        \/ lock' = lock /\ run[c].pc \notin Feed!Polling
    BY FeedTypes DEF Feed!Release
  <1> QED BY <1>1, <1>3, <1>4, <1>5, IdleIsARecord, FeedQuiet

LEMMA NoCandleKeeps == ASSUME FeedInv, NEW c \in Callers, Feed!NoCandle(c) PROVE FeedInv'
  <1>1. /\ run[c].pc = "fetch" /\ Feed!Leave(c) /\ Feed!Release(c)
        /\ UNCHANGED <<closed, stored, loaded, cached, announced, used>>
    BY DEF Feed!NoCandle, Feed!At
  <1>2. run[c].pc \notin Storing /\ cached' \subseteq stored
        /\ used' \in [Feed!Faults -> Nat] /\ FeedRaised' = FeedRaised
    BY <1>1, FeedTypes DEF Storing, FeedRaised
  <1> QED BY <1>1, <1>2, LeaveKeeps

LEMMA RaiseKeeps == ASSUME FeedInv, NEW c \in Callers, Feed!Raise(c) PROVE FeedInv'
  <1>1. /\ Feed!Spend("errors") /\ Feed!Leave(c) /\ Feed!Release(c)
        /\ UNCHANGED <<closed, stored, loaded, cached, announced>>
    BY DEF Feed!Raise
  <1>2. used' \in [Feed!Faults -> Nat] /\ FeedRaised' # 0 /\ cached' \subseteq stored
    BY <1>1, FeedSpent, FeedTypes DEF Feed!Faults
  <1> QED BY <1>1, <1>2, LeaveKeeps

(* A poll finds a duplicate, a correction, a gap, or the next candle; what  *)
(* lies between the previous candle and its own was never announced.        *)
LEMMA LookKeeps == ASSUME FeedInv, NEW c \in Callers, Feed!Look(c) PROVE FeedInv'
  <1> DEFINE t == run[c].got
             prev == Feed!Previous(t)
  <1>1. run[c].pc = "look" /\ UNCHANGED <<closed, stored, loaded, cached, announced, used>>
    BY DEF Feed!Look, Feed!At
  <1>2. run[c].pc \notin Storing /\ run[c].pc \in Feed!Polling /\ cached' \subseteq stored
        /\ used' \in [Feed!Faults -> Nat] /\ FeedRaised' = FeedRaised
    BY <1>1, FeedTypes DEF Storing, FeedRaised, Feed!Polling
  <1>3. CASE Feed!Leave(c) /\ Feed!Release(c)
    BY <1>1, <1>2, <1>3, LeaveKeeps
  <1>4. CASE /\ run' = [run EXCEPT ![c].prev = prev, ![c].rest = <<t>>,
                                  ![c].pc = IF prev # 0 /\ prev + 1 < t THEN "recover" ELSE "append"]
             /\ UNCHANGED lock
    <2> DEFINE q == [run[c] EXCEPT !.prev = prev, !.rest = <<t>>,
                                   !.pc = IF prev # 0 /\ prev + 1 < t THEN "recover" ELSE "append"]
    <2>1. t \in 1..closed /\ Feed!Range(announced) \subseteq stored
      BY <1>1 DEF FeedInv, InPoll
    <2>2. /\ closed \in Nat /\ MaxTime \in Nat /\ closed <= MaxTime
          /\ stored \subseteq 1..closed
      BY FeedTypes
    <2>3. /\ prev \in 0..t /\ (prev = 0 \/ prev \in stored)
          /\ \A u \in stored : u <= t => u <= prev
      BY <2>1, <2>2, PreviousIs
    <2> HIDE DEF t, prev
    <2>4. <<t>> \in Seq(Feed!Times) /\ t \in 0..MaxTime /\ prev \in 0..MaxTime
      BY <2>1, <2>2, <2>3 DEF Feed!Times
    <2>5. /\ q \in FeedRecords /\ q.prev = prev /\ q.rest = <<t>> /\ q.got = t
          /\ q.pc = IF prev # 0 /\ prev + 1 < t THEN "recover" ELSE "append"
      BY <2>4, FeedTypes DEF FeedRecords, Feed!Polling, t
    <2>6. run' = [run EXCEPT ![c] = q]
      BY <1>4, FeedTypes DEF q
    <2> HIDE DEF q
    <2>7. run'[c] = q
      BY <2>6, FeedTypes
    <2>8. Feed!Range(<<t>>) = {t} /\ Feed!IsInjective(<<t>>)
      BY DEF Feed!Range, Feed!IsInjective
    <2>9. (prev + 1 .. t) \cap Feed!Range(announced) = {}
      <3> SUFFICES ASSUME NEW u \in prev + 1 .. t, u \in stored PROVE FALSE
        BY <2>1
      <3> QED BY <2>1, <2>2, <2>3
    <2>10. q.pc = "recover" => prev < t
      BY <2>1, <2>3, <2>5
    <2>11. q.pc = "append" => IF prev = t THEN t \in stored ELSE t \notin Feed!Range(announced)
      <3>1. CASE prev = t
        BY <2>1, <2>3, <3>1
      <3>2. CASE prev # t
        <4>1. t \in prev + 1 .. t
          BY <2>1, <2>3, <3>2
        <4> QED BY <2>9, <3>2, <4>1
      <3> QED BY <3>1, <3>2
    <2>12. InPoll(c)'
      <3>1. /\ run'[c].pc \in {"recover", "append"} /\ run'[c].got \in 1..closed'
        BY <1>1, <2>1, <2>5, <2>7
      <3>2. run'[c].pc = "recover" =>
              /\ run'[c].prev < run'[c].got
              /\ (run'[c].prev + 1 .. run'[c].got) \cap Feed!Range(announced') = {}
        BY <1>1, <2>5, <2>7, <2>9, <2>10
      <3>3. run'[c].pc = "append" =>
              IF run'[c].prev = run'[c].got
                THEN run'[c].got \in stored'
                ELSE /\ run'[c].got \in Feed!Range(run'[c].rest)
                     /\ Feed!IsInjective(run'[c].rest)
                     /\ Feed!Range(run'[c].rest) \subseteq stored' \cup {run'[c].got}
                     /\ Feed!Range(run'[c].rest) \cap Feed!Range(announced') = {}
        BY <1>1, <2>5, <2>7, <2>8, <2>11
      <3> QED BY <3>1, <3>2, <3>3 DEF InPoll, Unannounced, Feed!Corrects
    <2>13. q.pc \in Feed!Polling
      BY <2>5 DEF Feed!Polling
    <2> QED BY <1>1, <1>2, <1>4, <2>5, <2>6, <2>12, <2>13, FeedQuiet
  <1> QED BY <1>3, <1>4 DEF Feed!Look

(* The gap is stored, and its candles are in hand.                          *)
LEMMA RecoverKeeps == ASSUME FeedInv, NEW c \in Callers, Feed!Recover(c) PROVE FeedInv'
  <1> DEFINE t == run[c].got
             prev == run[c].prev
             gap == prev + 1 .. t - 1
  <1>1. run[c].pc = "recover" /\ UNCHANGED <<closed, loaded, cached, lock, announced>>
    BY DEF Feed!Recover, Feed!At
  <1>2. PICK S \in SUBSET gap :
          /\ IF S # gap THEN Feed!Spend("holes") ELSE UNCHANGED used
          /\ stored' = stored \cup S
          /\ run' = [run EXCEPT ![c].pc = "append", ![c].rest = Feed!NewlyClosed(c, S)]
    BY DEF Feed!Recover
  <1>3. /\ t \in 1..closed /\ prev < t /\ (prev + 1 .. t) \cap Feed!Range(announced) = {}
        /\ Feed!Range(announced) \subseteq stored /\ Feed!IsInjective(announced)
    BY <1>1 DEF FeedInv, InPoll
  <1>4. /\ closed \in Nat /\ MaxTime \in Nat /\ closed <= MaxTime
        /\ stored \subseteq 1..closed /\ prev \in Nat
    BY FeedTypes DEF FeedRecords
  <1> DEFINE N == S \cup {t}
             r == Feed!Ascending(N)
             q == [run[c] EXCEPT !.pc = "append", !.rest = r]
  <1>5. Feed!NewlyClosed(c, S) = r
    BY DEF Feed!NewlyClosed
  <1> HIDE DEF t, prev
  <1>6. N \subseteq prev + 1 .. t /\ N \subseteq 1..closed
    <2>1. \A u \in gap : u \in prev + 1 .. t /\ u \in 1..closed
      BY <1>3, <1>4
    <2>2. t \in prev + 1 .. t
      BY <1>3, <1>4
    <2> QED BY <1>3, <2>1, <2>2
  <1>7. N \subseteq Nat /\ IsFiniteSet(N) /\ N \subseteq Feed!Times
    <2>1. IsFiniteSet(1..closed)
      BY <1>4, FS_Interval
    <2>2. IsFiniteSet(N)
      BY <1>6, <2>1, FS_Subset
    <2>3. \A u \in 1..closed : u \in Nat /\ u \in 1..MaxTime
      BY <1>4
    <2> QED BY <1>6, <2>2, <2>3 DEF Feed!Times
  <1> HIDE DEF N
  <1>8. r \in Seq(Feed!Times) /\ Feed!Range(r) = N /\ Feed!IsInjective(r)
    BY <1>7, AscendingIs
  <1> HIDE DEF r
  <1>10. q \in FeedRecords /\ q.pc = "append" /\ q.rest = r /\ q.got = t /\ q.prev = prev
    BY <1>8, FeedTypes DEF FeedRecords, Feed!Polling, t, prev
  <1>11. run' = [run EXCEPT ![c] = q]
    BY <1>2, <1>5, FeedTypes
  <1> HIDE DEF q
  <1>12. run'[c] = q /\ \A d \in Callers : d # c => run'[d] = run[d]
    BY <1>11, FeedTypes
  <1>13. used' \in [Feed!Faults -> Nat] /\ (FeedRaised' = 0 => FeedRaised = 0)
    <2>1. CASE S # gap
      BY <1>2, <2>1, FeedSpent, FeedTypes DEF Feed!Faults
    <2>2. CASE S = gap
      BY <1>2, <2>2, FeedTypes DEF FeedRaised
    <2> QED BY <2>1, <2>2
  <1>14. prev # t /\ t \in N /\ S \subseteq N /\ N \subseteq stored' \cup {t} /\ stored' \subseteq 1..closed
    BY <1>2, <1>3, <1>4, <1>6 DEF N
  <1>15. InPoll(c)'
    <2>1. run'[c].pc = "append" /\ run'[c].got \in 1..closed' /\ run'[c].prev # run'[c].got
      BY <1>1, <1>3, <1>10, <1>12, <1>14
    <2>2. /\ run'[c].got \in Feed!Range(run'[c].rest)
          /\ Feed!IsInjective(run'[c].rest)
          /\ Feed!Range(run'[c].rest) \subseteq stored' \cup {run'[c].got}
          /\ Feed!Range(run'[c].rest) \cap Feed!Range(announced') = {}
      BY <1>1, <1>3, <1>6, <1>8, <1>10, <1>12, <1>14
    <2> QED BY <2>1, <2>2 DEF InPoll, Unannounced, Feed!Corrects
  <1>16. NoneLost'
    <2>1. ASSUME NEW u \in (Feed!Missed)' PROVE u \in Feed!Missed \/ Announces(c, u)'
      <3>1. CASE u \in S
        <4>1. u \in Feed!Range(run'[c].rest) /\ run'[c].prev # run'[c].got /\ run'[c].pc = "append"
          BY <1>8, <1>10, <1>12, <1>14, <3>1
        <4> QED BY <4>1 DEF Announces, Feed!Corrects
      <3>2. CASE u \notin S
        BY <1>1, <1>2, <2>1, <3>2 DEF Feed!Missed
      <3> QED BY <3>1, <3>2
    <2>2. \A u : ~Announces(c, u)
      BY <1>1 DEF Announces
    <2> QED BY <1>12, <1>13, <2>1, <2>2, NoneLostMove
  <1>17. /\ stored \subseteq stored' /\ loaded' \subseteq stored' /\ cached' \subseteq stored'
         /\ announced' \in Seq(Feed!Times) /\ Feed!IsInjective(announced')
         /\ Feed!Range(announced') \subseteq stored' /\ announced' = announced
    BY <1>1, <1>2, <1>3, FeedTypes
  <1>18. lock' = lock /\ (q.pc \in Feed!Polling <=> run[c].pc \in Feed!Polling)
    BY <1>1, <1>10 DEF Feed!Polling
  <1> QED BY <1>1, <1>10, <1>11, <1>13, <1>14, <1>15, <1>16, <1>17, <1>18, FeedMove

LEMMA AppendRealtimeKeeps ==
  ASSUME FeedInv, NEW c \in Callers, Feed!AppendRealtime(c) PROVE FeedInv'
  <1> DEFINE t == run[c].got
             q == [run[c] EXCEPT !.pc = "invalidate"]
  <1>1. /\ run[c].pc = "append" /\ stored' = stored \cup {t}
        /\ UNCHANGED <<closed, loaded, cached, lock, announced, used>>
    BY DEF Feed!AppendRealtime, Feed!At
  <1>2. run' = [run EXCEPT ![c] = q] /\ q \in FeedRecords /\ q.pc = "invalidate"
        /\ q.got = t /\ q.prev = run[c].prev /\ q.rest = run[c].rest
    BY FeedTypes DEF Feed!AppendRealtime, Feed!Goto, FeedRecords, Feed!Polling
  <1> HIDE DEF q
  <1>3. run'[c] = q /\ \A d \in Callers : d # c => run'[d] = run[d]
    BY <1>2, FeedTypes
  <1>4. /\ t \in 1..closed
        /\ IF run[c].prev = t
             THEN t \in stored
             ELSE t \in Feed!Range(run[c].rest) /\ Unannounced(c, stored \cup {t})
    BY <1>1 DEF FeedInv, InPoll, Feed!Corrects
  <1>5. InPoll(c)'
    <2>1. run'[c].pc = "invalidate" /\ run'[c].got \in 1..closed'
      BY <1>1, <1>2, <1>3, <1>4
    <2>2. IF run'[c].prev = run'[c].got
            THEN run'[c].got \in stored'
            ELSE /\ run'[c].got \in Feed!Range(run'[c].rest)
                 /\ Feed!IsInjective(run'[c].rest)
                 /\ Feed!Range(run'[c].rest) \subseteq stored'
                 /\ Feed!Range(run'[c].rest) \cap Feed!Range(announced') = {}
      BY <1>1, <1>2, <1>3, <1>4 DEF Unannounced
    <2> QED BY <2>1, <2>2 DEF InPoll, Unannounced, Feed!Corrects
  <1>6. NoneLost'
    <2>1. ASSUME NEW u \in (Feed!Missed)' PROVE u \in Feed!Missed \/ Announces(c, u)'
      <3>1. u \in stored \/ u = t
        BY <1>1, <2>1 DEF Feed!Missed
      <3>2. CASE u \in stored
        BY <1>1, <2>1, <3>2 DEF Feed!Missed
      <3>3. CASE u \notin stored
        <4>1. run[c].prev # t /\ u \in Feed!Range(run[c].rest)
          BY <1>4, <3>1, <3>3
        <4>2. /\ run'[c].pc = "invalidate" /\ run'[c].prev # run'[c].got
              /\ u \in Feed!Range(run'[c].rest)
          BY <1>2, <1>3, <4>1
        <4> QED BY <4>2 DEF Announces, Feed!Corrects
      <3> QED BY <3>2, <3>3
    <2>2. ASSUME NEW u, Announces(c, u) PROVE Announces(c, u)'
      <3>1. run[c].prev # t /\ u \in Feed!Range(run[c].rest)
        BY <1>1, <2>2 DEF Announces, Feed!Corrects
      <3>2. /\ run'[c].pc = "invalidate" /\ run'[c].prev # run'[c].got
            /\ u \in Feed!Range(run'[c].rest)
        BY <1>2, <1>3, <3>1
      <3> QED BY <3>2 DEF Announces, Feed!Corrects
    <2>3. FeedRaised' = FeedRaised
      BY <1>1 DEF FeedRaised
    <2> QED BY <1>3, <2>1, <2>2, <2>3, NoneLostMove
  <1>7. /\ stored \subseteq stored' /\ stored' \subseteq 1..closed
        /\ loaded' \subseteq stored' /\ cached' \subseteq stored'
        /\ announced' \in Seq(Feed!Times) /\ Feed!IsInjective(announced')
        /\ Feed!Range(announced') \subseteq stored' /\ announced' = announced
        /\ used' \in [Feed!Faults -> Nat]
    BY <1>1, <1>4, FeedTypes DEF FeedInv
  <1>8. lock' = lock /\ (q.pc \in Feed!Polling <=> run[c].pc \in Feed!Polling)
    BY <1>1, <1>2 DEF Feed!Polling
  <1> HIDE DEF t
  <1> QED BY <1>1, <1>2, <1>5, <1>6, <1>7, <1>8, FeedMove

(* A correction has nothing to announce, and nothing is lost by it. *)
LEMMA InvalidateKeeps ==
  ASSUME FeedInv, NEW c \in Callers, Feed!Invalidate(c) PROVE FeedInv'
  <1> DEFINE r == Feed!Announcements(c)
             q == [run[c] EXCEPT !.pc = "publish", !.rest = r]
  <1>1. /\ run[c].pc = "invalidate" /\ cached' = {}
        /\ UNCHANGED <<closed, stored, loaded, lock, announced, used>>
    BY DEF Feed!Invalidate, Feed!At
  <1>2. r = IF run[c].prev = run[c].got THEN << >> ELSE run[c].rest
    BY DEF Feed!Announcements, Feed!Corrects
  <1>3. /\ Feed!IsInjective(r) /\ Feed!Range(r) \subseteq stored
        /\ Feed!Range(r) \cap Feed!Range(announced) = {}
    <2>1. CASE run[c].prev = run[c].got
      BY <1>2, <2>1 DEF Feed!IsInjective, Feed!Range
    <2>2. CASE run[c].prev # run[c].got
      BY <1>1, <1>2, <2>2 DEF FeedInv, InPoll, Unannounced, Feed!Corrects
    <2> QED BY <2>1, <2>2
  <1>4. r \in Seq(Feed!Times)
    BY <1>2, FeedTypes DEF FeedRecords
  <1>5. run' = [run EXCEPT ![c].pc = "publish", ![c].rest = r]
    BY DEF Feed!Invalidate
  <1> HIDE DEF r
  <1>6. run' = [run EXCEPT ![c] = q] /\ q \in FeedRecords /\ q.pc = "publish" /\ q.rest = r
    BY <1>4, <1>5, FeedTypes DEF FeedRecords, Feed!Polling
  <1> HIDE DEF q
  <1>7. run'[c] = q /\ \A d \in Callers : d # c => run'[d] = run[d]
    BY <1>6, FeedTypes
  <1>8. InPoll(c)'
    <2>1. /\ run'[c].pc = "publish" /\ Feed!IsInjective(run'[c].rest)
          /\ Feed!Range(run'[c].rest) \subseteq stored'
          /\ Feed!Range(run'[c].rest) \cap Feed!Range(announced') = {}
      BY <1>1, <1>3, <1>6, <1>7
    <2> QED BY <2>1 DEF InPoll, Unannounced
  <1>9. NoneLost'
    <2>1. (Feed!Missed)' = Feed!Missed /\ FeedRaised' = FeedRaised
      BY <1>1 DEF Feed!Missed, FeedRaised
    <2>2. ASSUME NEW u, Announces(c, u) PROVE Announces(c, u)'
      <3>1. r = run[c].rest /\ u \in Feed!Range(run[c].rest)
        BY <1>1, <1>2, <2>2 DEF Announces, Feed!Corrects
      <3>2. run'[c].pc = "publish" /\ u \in Feed!Range(run'[c].rest)
        BY <1>6, <1>7, <3>1
      <3> QED BY <3>2 DEF Announces
    <2> QED BY <1>7, <2>1, <2>2, NoneLostMove
  <1>10. /\ stored \subseteq stored' /\ stored' \subseteq 1..closed
         /\ loaded' \subseteq stored' /\ cached' \subseteq stored'
         /\ announced' \in Seq(Feed!Times) /\ Feed!IsInjective(announced')
         /\ Feed!Range(announced') \subseteq stored' /\ announced' = announced
         /\ used' \in [Feed!Faults -> Nat]
    BY <1>1, FeedTypes DEF FeedInv
  <1>11. lock' = lock /\ (q.pc \in Feed!Polling <=> run[c].pc \in Feed!Polling)
    BY <1>1, <1>6 DEF Feed!Polling
  <1> QED BY <1>1, <1>6, <1>8, <1>9, <1>10, <1>11, FeedMove

LEMMA FeedPublishKeeps ==
  ASSUME FeedInv, NEW c \in Callers, Feed!Publish(c) PROVE FeedInv'
  <1> DEFINE s == run[c].rest
             h == Head(s)
  <1>1. run[c].pc = "publish" /\ UNCHANGED <<closed, stored, loaded, cached, used>>
    BY DEF Feed!Publish, Feed!At
  <1>2. /\ s \in Seq(Feed!Times)
        /\ Feed!IsInjective(s) /\ Feed!Range(s) \subseteq stored
        /\ Feed!Range(s) \cap Feed!Range(announced) = {}
    BY <1>1, FeedTypes DEF FeedInv, InPoll, Unannounced, FeedRecords
  <1>3. /\ stored \subseteq stored' /\ stored' \subseteq 1..closed
        /\ loaded' \subseteq stored' /\ cached' \subseteq stored'
        /\ used' \in [Feed!Faults -> Nat] /\ closed' = closed /\ FeedRaised' = FeedRaised
        /\ run[c].pc \in Feed!Polling
    BY <1>1, FeedTypes DEF FeedRaised, Feed!Polling
  <1>4. CASE s = << >>
    <2>1. Feed!Leave(c) /\ Feed!Release(c) /\ UNCHANGED announced
      BY <1>4 DEF Feed!Publish
    <2>2. run' = [run EXCEPT ![c] = Feed!Idle] /\ lock' = NoCaller /\ lock = c
      BY <1>3, <2>1, FeedTypes DEF Feed!Leave, Feed!Release
    <2>3. run'[c] = Feed!Idle /\ \A d \in Callers : d # c => run'[d] = run[d]
      BY <2>2, FeedTypes
    <2>4. InPoll(c)'
      BY <2>3, IdleIsARecord, IdleInPoll
    <2>5. (Feed!Missed)' = Feed!Missed
      BY <1>1, <2>1 DEF Feed!Missed
    <2>6. \A u : ~Announces(c, u)
      BY <1>4 DEF Announces, Feed!Range
    <2>7. NoneLost'
      BY <1>3, <2>3, <2>5, <2>6, NoneLostMove
    <2>8. /\ announced' \in Seq(Feed!Times) /\ Feed!IsInjective(announced')
          /\ Feed!Range(announced') \subseteq stored' /\ announced' = announced
      BY <1>1, <2>1, FeedTypes DEF FeedInv
    <2>9. Feed!Idle.pc \notin Feed!Polling
      BY IdleIsARecord DEF Feed!Polling
    <2> QED BY <1>3, <2>2, <2>4, <2>7, <2>8, <2>9, IdleIsARecord, FeedMove
  <1>5. CASE s # << >>
    <2> DEFINE q == [run[c] EXCEPT !.rest = Tail(s)]
    <2>1. announced' = Append(announced, h) /\ run' = [run EXCEPT ![c].rest = Tail(@)] /\ lock' = lock
      BY <1>5 DEF Feed!Publish
    <2>2. /\ Tail(s) \in Seq(Feed!Times) /\ h \in Feed!Range(s)
          /\ Feed!Range(s) = {h} \cup Feed!Range(Tail(s))
          /\ Feed!IsInjective(Tail(s)) /\ h \notin Feed!Range(Tail(s))
      BY <1>2, <1>5, RangeOfTail
    <2>3. /\ announced \in Seq(Feed!Times) /\ Feed!IsInjective(announced)
          /\ Feed!Range(announced) \subseteq stored
          /\ h \in stored /\ h \notin Feed!Range(announced)
      BY <1>2, <2>2, FeedTypes DEF FeedInv
    <2>4. h \in Feed!Times
      BY <2>3, FeedTypes DEF Feed!Times
    <2>5. q \in FeedRecords /\ q.pc = "publish" /\ q.rest = Tail(s)
      BY <1>1, <2>2, FeedTypes DEF FeedRecords
    <2>6. run' = [run EXCEPT ![c] = q]
      BY <2>1, FeedTypes DEF q
    <2> HIDE DEF q, h, s
    <2>7. /\ announced' \in Seq(Feed!Times) /\ Feed!IsInjective(announced')
          /\ Feed!Range(announced') = Feed!Range(announced) \cup {h}
      BY <2>1, <2>3, <2>4, RangeOfAppend
    <2>8. run'[c] = q /\ \A d \in Callers : d # c => run'[d] = run[d]
      BY <2>6, FeedTypes
    <2>9. InPoll(c)'
      <3>1. /\ run'[c].pc = "publish" /\ Feed!IsInjective(run'[c].rest)
            /\ Feed!Range(run'[c].rest) \subseteq stored'
            /\ Feed!Range(run'[c].rest) \cap Feed!Range(announced') = {}
        BY <1>1, <1>2, <2>2, <2>5, <2>7, <2>8
      <3> QED BY <3>1 DEF InPoll, Unannounced
    <2>10. NoneLost'
      <3>1. (Feed!Missed)' = Feed!Missed \ {h}
        BY <1>1, <2>7 DEF Feed!Missed
      <3>2. ASSUME NEW u \in (Feed!Missed)', Announces(c, u) PROVE Announces(c, u)'
        <4>1. u \in Feed!Range(s) /\ u # h
          BY <3>1, <3>2 DEF Announces, s
        <4>2. run'[c].pc = "publish" /\ u \in Feed!Range(run'[c].rest)
          BY <2>2, <2>5, <2>8, <4>1
        <4> QED BY <4>2 DEF Announces
      <3> QED BY <1>3, <2>8, <3>1, <3>2, NoneLostMove
    <2>11. Feed!Range(announced') \subseteq stored'
      BY <1>1, <2>3, <2>7
    <2>12. lock' = lock /\ (q.pc \in Feed!Polling <=> run[c].pc \in Feed!Polling)
      BY <1>3, <2>1, <2>5 DEF Feed!Polling
    <2> QED BY <1>3, <2>5, <2>6, <2>7, <2>9, <2>10, <2>11, <2>12, FeedMove
  <1> QED BY <1>4, <1>5

(* Requests for a history, until they read or load. *)
LEMMA AskKeeps ==
  ASSUME FeedInv, NEW c \in Callers, NEW p \in {"load", "keep"},
         run[c].pc = "idle", Feed!Goto(c, p),
         UNCHANGED <<closed, stored, loaded, cached, lock, announced, used>>
  PROVE  FeedInv'
  <1> DEFINE q == [run[c] EXCEPT !.pc = p]
  <1>1. q \in FeedRecords /\ q.pc = p
    BY FeedTypes DEF FeedRecords
  <1>2. run' = [run EXCEPT ![c] = q]
    BY FeedTypes DEF Feed!Goto
  <1> HIDE DEF q
  <1>3. InPoll(c)'
    <2>1. run'[c].pc \in {"load", "keep"}
      BY <1>1, <1>2, FeedTypes
    <2> QED BY <2>1, IdleInPoll
  <1>4. /\ q.pc \notin Feed!Polling /\ run[c].pc \notin Feed!Polling /\ run[c].pc \notin Storing
        /\ cached' \subseteq stored /\ used' \in [Feed!Faults -> Nat] /\ FeedRaised' = FeedRaised
    BY <1>1, FeedTypes DEF Feed!Polling, Storing, FeedRaised
  <1> QED BY <1>1, <1>2, <1>3, <1>4, FeedQuiet

LEMMA HistoryKeeps == ASSUME FeedInv, NEW c \in Callers, Feed!History(c) PROVE FeedInv'
  BY AskKeeps DEF Feed!History, Feed!At

LEMMA RefreshKeeps == ASSUME FeedInv, NEW c \in Callers, Feed!Refresh(c) PROVE FeedInv'
  BY AskKeeps DEF Feed!Refresh, Feed!At

LEMMA ClosedAreFinite ==
  ASSUME FeedInv, NEW S, S \subseteq 1..closed
  PROVE  S \subseteq Nat /\ IsFiniteSet(S) /\ S \subseteq Feed!Times
  <1>1. closed \in Nat /\ closed <= MaxTime /\ MaxTime \in Nat
    BY FeedTypes
  <1>2. IsFiniteSet(S)
    <2>1. IsFiniteSet(1..closed)
      BY <1>1, FS_Interval
    <2> QED BY <2>1, FS_Subset
  <1> QED BY <1>1, <1>2 DEF Feed!Times

(* What a reader takes along to the cache is stored. *)
LEMMA CacheStep ==
  ASSUME FeedInv, NEW c \in Callers, NEW S, S \subseteq 1..closed, S \subseteq stored',
         run' = [run EXCEPT ![c].pc = "cache", ![c].rest = Feed!Ascending(S)]
  PROVE  \E q \in FeedRecords :
           q.pc = "cache" /\ run' = [run EXCEPT ![c] = q] /\ InPoll(c)'
  <1> DEFINE r == Feed!Ascending(S)
             q == [run[c] EXCEPT !.pc = "cache", !.rest = r]
  <1>1. r \in Seq(Feed!Times) /\ Feed!Range(r) = S
    BY ClosedAreFinite, AscendingIs
  <1> HIDE DEF r
  <1>2. q \in FeedRecords /\ q.pc = "cache" /\ q.rest = r
    BY <1>1, FeedTypes DEF FeedRecords
  <1>3. run' = [run EXCEPT ![c] = q]
    BY FeedTypes DEF r
  <1> HIDE DEF q
  <1>4. run'[c] = q
    BY <1>3, FeedTypes
  <1>5. InPoll(c)'
    <2>1. run'[c].pc = "cache" /\ Feed!Range(run'[c].rest) \subseteq stored'
      BY <1>1, <1>2, <1>4
    <2> QED BY <2>1 DEF InPoll
  <1> QED BY <1>2, <1>3, <1>5

LEMMA ReadKeeps == ASSUME FeedInv, NEW c \in Callers, Feed!Read(c) PROVE FeedInv'
  <1>1. /\ run[c].pc = "keep" /\ UNCHANGED <<closed, stored, loaded, cached, lock, announced, used>>
        /\ run' = [run EXCEPT ![c].pc = "cache", ![c].rest = Feed!Ascending(stored)]
    BY DEF Feed!Read, Feed!At
  <1>2. PICK q \in FeedRecords : q.pc = "cache" /\ run' = [run EXCEPT ![c] = q] /\ InPoll(c)'
    BY <1>1, CacheStep, FeedTypes
  <1>3. /\ q.pc \notin Feed!Polling /\ run[c].pc \notin Feed!Polling /\ run[c].pc \notin Storing
        /\ cached' \subseteq stored /\ used' \in [Feed!Faults -> Nat] /\ FeedRaised' = FeedRaised
    BY <1>1, <1>2, FeedTypes DEF Feed!Polling, Storing, FeedRaised
  <1> QED BY <1>1, <1>2, <1>3, FeedQuiet

(* What a history request stores first counts as loaded, not as missed. *)
LEMMA LoadKeeps == ASSUME FeedInv, NEW c \in Callers, Feed!Load(c) PROVE FeedInv'
  <1>1. run[c].pc = "load" /\ UNCHANGED <<closed, cached, lock, announced>>
    BY DEF Feed!Load, Feed!At
  <1>2. PICK first \in 1..closed : \E last \in first..closed :
          \E S \in SUBSET (first..last) \ {{}} :
            /\ IF S # first..last THEN Feed!Spend("holes") ELSE UNCHANGED used
            /\ stored' = stored \cup S
            /\ loaded' = loaded \cup (S \ stored)
            /\ run' = [run EXCEPT ![c].pc = "cache", ![c].rest = Feed!Ascending(S)]
    BY DEF Feed!Load
  <1>3. PICK last \in first..closed : \E S \in SUBSET (first..last) \ {{}} :
            /\ IF S # first..last THEN Feed!Spend("holes") ELSE UNCHANGED used
            /\ stored' = stored \cup S
            /\ loaded' = loaded \cup (S \ stored)
            /\ run' = [run EXCEPT ![c].pc = "cache", ![c].rest = Feed!Ascending(S)]
    BY <1>2
  <1>4. PICK S \in SUBSET (first..last) \ {{}} :
            /\ IF S # first..last THEN Feed!Spend("holes") ELSE UNCHANGED used
            /\ stored' = stored \cup S
            /\ loaded' = loaded \cup (S \ stored)
            /\ run' = [run EXCEPT ![c].pc = "cache", ![c].rest = Feed!Ascending(S)]
    BY <1>3
  <1>5. S \subseteq 1..closed /\ S \subseteq stored'
    <2>1. closed \in Nat /\ first..last \subseteq 1..closed
      BY FeedTypes
    <2> QED BY <1>4, <2>1
  <1>6. PICK q \in FeedRecords : q.pc = "cache" /\ run' = [run EXCEPT ![c] = q] /\ InPoll(c)'
    BY <1>4, <1>5, CacheStep
  <1>7. used' \in [Feed!Faults -> Nat] /\ (FeedRaised' = 0 => FeedRaised = 0)
    <2>1. CASE S # first..last
      BY <1>4, <2>1, FeedSpent, FeedTypes DEF Feed!Faults
    <2>2. CASE S = first..last
      BY <1>4, <2>2, FeedTypes DEF FeedRaised
    <2> QED BY <2>1, <2>2
  <1>8. NoneLost'
    <2>1. (Feed!Missed)' \subseteq Feed!Missed
      BY <1>1, <1>4 DEF Feed!Missed
    <2>2. run[c].pc \notin Storing /\ \A d \in Callers : d # c => run'[d] = run[d]
      BY <1>1, <1>6, FeedTypes DEF Storing
    <2> QED BY <1>7, <2>1, <2>2, QuietMove
  <1>9. /\ stored \subseteq stored' /\ stored' \subseteq 1..closed
        /\ loaded' \subseteq stored' /\ cached' \subseteq stored'
        /\ announced' \in Seq(Feed!Times) /\ Feed!IsInjective(announced')
        /\ Feed!Range(announced') \subseteq stored' /\ announced' = announced
    BY <1>1, <1>4, <1>5, FeedTypes DEF FeedInv
  <1>10. lock' = lock /\ (q.pc \in Feed!Polling <=> run[c].pc \in Feed!Polling)
    BY <1>1, <1>6 DEF Feed!Polling
  <1> QED BY <1>1, <1>6, <1>7, <1>8, <1>9, <1>10, FeedMove

LEMMA KeepKeeps == ASSUME FeedInv, NEW c \in Callers, Feed!Keep(c) PROVE FeedInv'
  <1>1. /\ run[c].pc = "cache" /\ UNCHANGED <<closed, stored, loaded, lock, announced, used>>
        /\ cached' = Feed!Range(run[c].rest) /\ run' = [run EXCEPT ![c] = Feed!Idle]
    BY DEF Feed!Keep, Feed!At, Feed!Leave
  <1>2. cached' \subseteq stored
    BY <1>1 DEF FeedInv, InPoll
  <1>3. InPoll(c)'
    BY <1>1, FeedTypes, IdleIsARecord, IdleInPoll
  <1>4. /\ Feed!Idle.pc \notin Feed!Polling /\ run[c].pc \notin Feed!Polling /\ run[c].pc \notin Storing
        /\ used' \in [Feed!Faults -> Nat] /\ FeedRaised' = FeedRaised
    BY <1>1, FeedTypes, IdleIsARecord DEF Feed!Polling, Storing, FeedRaised
  <1> QED BY <1>1, <1>2, <1>3, <1>4, IdleIsARecord, FeedQuiet

(* Steps of no caller: an entry expires, a candle closes, the process dies. *)
LEMMA ExpireKeeps == ASSUME FeedInv, Feed!Expire PROVE FeedInv'
  <1>1. cached' = {} /\ UNCHANGED <<closed, stored, loaded, lock, announced, run, used>>
    BY DEF Feed!Expire
  <1>2. \A d \in Callers : InPoll(d)'
    <2> SUFFICES ASSUME NEW d \in Callers PROVE InPoll(d)'
      OBVIOUS
    <2>1. run'[d] = run[d] /\ closed' \in Nat /\ closed <= closed' /\ stored \subseteq stored'
      BY <1>1, FeedTypes
    <2> QED BY <1>1, <2>1, OthersInPoll
  <1>3. NoneLost'
    BY <1>1 DEF FeedInv, NoneLost, Feed!Missed, Announces, Feed!Corrects, FeedRaised
  <1>4. Feed!TypeOK'
    BY <1>1 DEF FeedInv, Feed!TypeOK
  <1> QED BY <1>1, <1>2, <1>3, <1>4 DEF FeedInv

LEMMA CloseKeeps == ASSUME FeedInv, Feed!Close PROVE FeedInv'
  <1>1. /\ closed < MaxTime /\ closed' = closed + 1
        /\ UNCHANGED <<stored, loaded, cached, lock, announced, run, used>>
    BY DEF Feed!Close
  <1>2. closed' \in 0..MaxTime /\ closed' \in Nat /\ closed <= closed' /\ 1..closed \subseteq 1..closed'
    BY <1>1, FeedTypes
  <1>3. \A d \in Callers : InPoll(d)'
    <2> SUFFICES ASSUME NEW d \in Callers PROVE InPoll(d)'
      OBVIOUS
    <2>1. run'[d] = run[d] /\ stored \subseteq stored'
      BY <1>1
    <2> QED BY <1>1, <1>2, <2>1, OthersInPoll
  <1>4. NoneLost'
    BY <1>1 DEF FeedInv, NoneLost, Feed!Missed, Announces, Feed!Corrects, FeedRaised
  <1>5. Feed!TypeOK'
    <2>1. stored' \subseteq 1..closed'
      BY <1>1, <1>2, FeedTypes
    <2> QED BY <1>1, <1>2, <2>1 DEF FeedInv, Feed!TypeOK
  <1> QED BY <1>1, <1>3, <1>4, <1>5 DEF FeedInv

LEMMA FeedCrashKeeps == ASSUME FeedInv, Feed!Crash PROVE FeedInv'
  <1>1. /\ Feed!Spend("crashes") /\ run' = [c \in Callers |-> Feed!Idle] /\ lock' = NoCaller
        /\ UNCHANGED <<closed, stored, loaded, cached, announced>>
    BY DEF Feed!Crash
  <1>2. used' \in [Feed!Faults -> Nat] /\ FeedRaised' # 0
    BY <1>1, FeedSpent, FeedTypes DEF Feed!Faults
  <1>3. \A d \in Callers : InPoll(d)'
    BY <1>1, IdleIsARecord, IdleInPoll
  <1>4. run' \in [Callers -> FeedRecords]
    BY <1>1, IdleIsARecord
  <1>5. \A d \in Callers : run'[d].pc \in Feed!Polling <=> lock' = d
    BY <1>1, IdleIsARecord DEF Feed!Polling
  <1>6. Feed!TypeOK'
    BY <1>1, <1>2, <1>4, <1>5 DEF FeedInv, Feed!TypeOK, FeedRecords
  <1> QED BY <1>1, <1>2, <1>3, <1>6 DEF FeedInv, NoneLost

LEMMA FeedStarts == Init => FeedInv
  <1> SUFFICES ASSUME Feed!Init PROVE FeedInv
    BY DEF Init
  <1>1. /\ closed = 0 /\ stored = {} /\ loaded = {} /\ cached = {} /\ lock = NoCaller
        /\ announced = << >> /\ run = [c \in Callers |-> Feed!Idle]
        /\ used = [f \in Feed!Faults |-> 0]
    BY DEF Feed!Init
  <1>2. \A c \in Callers : run[c] = Feed!Idle /\ run[c].pc = "idle"
    BY <1>1, IdleIsARecord
  <1>3. \A c \in Callers : InPoll(c)
    BY <1>2 DEF InPoll
  <1>4. run \in [Callers -> FeedRecords]
    BY <1>1, IdleIsARecord
  <1>5. \A c \in Callers : run[c].pc \in Feed!Polling <=> lock = c
    BY <1>1, <1>2 DEF Feed!Polling
  <1>6. Feed!TypeOK
    BY <1>1, <1>4, <1>5 DEF Feed!TypeOK, FeedRecords
  <1>7. Feed!IsInjective(announced) /\ Feed!Range(announced) \subseteq stored
    BY <1>1 DEF Feed!IsInjective, Feed!Range
  <1>8. NoneLost
    BY <1>1 DEF NoneLost, Feed!Missed
  <1> QED BY <1>3, <1>6, <1>7, <1>8 DEF FeedInv

LEMMA FeedKeeps == FeedInv /\ [Next]_vars => FeedInv'
  <1> SUFFICES ASSUME FeedInv, [Next]_vars PROVE FeedInv'
    OBVIOUS
  <1>1. ASSUME NEW c \in Callers, Feed!Poll(c) \/ Feed!History(c) \/ Feed!Refresh(c) \/ Feed!Raise(c)
        PROVE  FeedInv'
    BY <1>1, PollKeeps, HistoryKeeps, RefreshKeeps, RaiseKeeps
  <1>2. ASSUME NEW c \in Callers, Feed!Work(c) PROVE FeedInv'
    BY <1>2, FeedFetchKeeps, NoCandleKeeps, LookKeeps, RecoverKeeps, AppendRealtimeKeeps,
       InvalidateKeeps, FeedPublishKeeps, ReadKeeps, LoadKeeps, KeepKeeps DEF Feed!Work
  <1>3. ASSUME UNCHANGED feedVars PROVE FeedInv'
    <2>1. UNCHANGED <<closed, stored, loaded, cached, lock, announced, run, used>>
      BY <1>3 DEF feedVars
    <2>2. Feed!TypeOK'
      BY <2>1 DEF FeedInv, Feed!TypeOK
    <2>3. \A c \in Callers : InPoll(c)'
      BY <2>1 DEF FeedInv, InPoll, Unannounced, Feed!Corrects
    <2>4. NoneLost'
      BY <2>1 DEF FeedInv, NoneLost, Feed!Missed, Announces, Feed!Corrects, FeedRaised
    <2> QED BY <2>1, <2>2, <2>3, <2>4 DEF FeedInv
  <1>4. Feed!Expire \/ Feed!Close \/ Feed!Crash => FeedInv'
    BY ExpireKeeps, CloseKeeps, FeedCrashKeeps
  <1> QED BY <1>1, <1>2, <1>3, <1>4, FeedSteps DEF Feed!Next

(* However polls, corrections, gaps, histories and restarts overlap, no     *)
(* candle is announced twice or before it is stored, and none that a poll   *)
(* stored is missed unless a poll raised or died (service.py:176).          *)
THEOREM CandlesAreAnnouncedOnce == Spec => []AnnouncedOnce
  <1>1. FeedInv => AnnouncedOnce
    <2> SUFFICES ASSUME FeedInv, lock = NoCaller, used["errors"] + used["crashes"] = 0,
                        NEW u \in Feed!Missed
                 PROVE  FALSE
      BY DEF AnnouncedOnce, Feed!AnnouncedOnce, FeedInv
    <2>1. PICK c \in Callers : Announces(c, u)
      BY DEF FeedInv, NoneLost, FeedRaised
    <2>2. run[c].pc \in Feed!Polling
      BY <2>1 DEF Announces, Feed!Polling
    <2> QED BY <2>2, FeedTypes DEF Feed!FeedAssumption
  <1> QED BY <1>1, FeedStarts, FeedKeeps, PTL DEF Spec

HIDE DEF Feed!FeedAssumption
USE DEF Bus!BusAssumption, Pool!PoolAssumption

LEMMA BusSteps ==
  ASSUME [Next]_vars
  PROVE  Bus!Next \/ UNCHANGED busVars
  BY DEF Next, vars

LEMMA PoolSteps ==
  ASSUME [Next]_vars
  PROVE  Pool!Next \/ UNCHANGED poolVars
  BY DEF Next, vars

-----------------------------------------------------------------------------
(* The event bus.                                                           *)

Places == {"new", "refused", "waiting", "running", "ended"}
Outcomes == {"none", "running", "done", "failed", "cancelled"}

BusTypes ==
  /\ busClosed \in BOOLEAN
  /\ place \in [Publications -> Places]
  /\ task \in [Publications -> [Handlers -> Outcomes]]
  /\ inflight \subseteq Publications \X Handlers
  /\ stop \in [pc : {"none", "waiting", "returned"}, tasks : SUBSET (Publications \X Handlers),
               accepted : SUBSET Publications, queued : SUBSET Publications]

(* A handler runs in a publication that holds a slot, where drain() sees    *)
(* it, or beside a sibling that has failed.                                 *)
Orphaned(p) == place[p] = "ended" /\ Bus!Is(p, "failed")
Held(p) == Bus!Is(p, "running") => place[p] = "running" \/ Orphaned(p)
Visible(p) ==
  place[p] = "running" => \A h \in Handlers : task[p][h] = "running" => <<p, h>> \in inflight

(* What drain() or close() has seen of a publication, and why it may still  *)
(* run when the call returns.                                               *)
Seen(p) ==
  /\ p \in stop.accepted => place[p] \in {"running", "ended"}
  /\ place[p] = "waiting" => p \in stop.queued \/ ~busClosed
Awaited(p) ==
  /\ p \in stop.accepted
  /\ stop.pc = "waiting"
  /\ \A h \in Handlers : task[p][h] = "running" => <<p, h>> \in stop.tasks
Excused(p) ==
  \/ Orphaned(p)
  \/ p \in stop.queued
  \/ ~busClosed /\ p \notin stop.accepted

Sound(p) ==
  /\ Held(p) /\ Visible(p)
  /\ stop.pc # "none" => Seen(p) /\ (Bus!Is(p, "running") => Awaited(p) \/ Excused(p))

BusInv == BusTypes /\ \A p \in Publications : Sound(p)

(* Nothing changes for a publication which a step leaves where it is, with  *)
(* its tasks, unless the shutdown goes on.                                  *)
LEMMA BusFrame ==
  ASSUME BusTypes, NEW p \in Publications, Sound(p),
         place'[p] = place[p], task'[p] = task[p], stop' = stop, busClosed' = busClosed,
         \A h \in Handlers : <<p, h>> \in inflight => <<p, h>> \in inflight'
  PROVE  Sound(p)'
  BY DEF Sound, Held, Visible, Seen, Awaited, Excused, Orphaned, Bus!Is

LEMMA BusStarts == Init => BusInv
  <1> SUFFICES ASSUME Init PROVE BusInv
    OBVIOUS
  <1> USE DEF Init, Bus!Init
  <1>1. BusTypes
    BY DEF BusTypes, Places, Outcomes
  <1>2. ASSUME NEW p \in Publications PROVE Sound(p)
    BY DEF Sound, Held, Visible, Bus!Is
  <1> QED BY <1>1, <1>2 DEF BusInv

LEMMA BusKeeps == BusInv /\ [Next]_vars => BusInv'
  <1> SUFFICES ASSUME BusInv, [Next]_vars PROVE BusInv'
    OBVIOUS
  <1>t. BusTypes /\ \A p \in Publications : Sound(p)
    BY DEF BusInv
  <1>1. ASSUME NEW p \in Publications, Bus!Refuse(p) PROVE BusInv'
    <2> USE <1>1 DEF Bus!Refuse
    <2>1. BusTypes'
      BY <1>t DEF BusTypes, Places
    <2>2. ASSUME NEW q \in Publications PROVE Sound(q)'
      <3>1. CASE q = p
        BY <1>t, <3>1 DEF BusTypes, Sound, Held, Visible, Seen, Awaited, Excused, Orphaned, Bus!Is
      <3>2. CASE q # p
        BY <1>t, <3>2, BusFrame DEF BusTypes
      <3> QED BY <3>1, <3>2
    <2> QED BY <2>1, <2>2 DEF BusInv
  <1>2. ASSUME NEW p \in Publications, Bus!Wait(p) PROVE BusInv'
    <2> USE <1>2 DEF Bus!Wait, Bus!Refuses
    <2>1. BusTypes'
      BY <1>t DEF BusTypes, Places
    <2>2. ASSUME NEW q \in Publications PROVE Sound(q)'
      <3>1. CASE q = p
        BY <1>t, <3>1 DEF BusTypes, Sound, Held, Visible, Seen, Awaited, Excused, Orphaned, Bus!Is
      <3>2. CASE q # p
        BY <1>t, <3>2, BusFrame DEF BusTypes
      <3> QED BY <3>1, <3>2
    <2> QED BY <2>1, <2>2 DEF BusInv
  <1>3. ASSUME NEW p \in Publications, Bus!Enter(p) PROVE BusInv'
    <2>1. /\ place' = [place EXCEPT ![p] = "running"]
          /\ task' = [task EXCEPT ![p] = [h \in Handlers |-> "running"]]
          /\ inflight' = inflight \cup Bus!Tasks(p)
          /\ UNCHANGED <<busClosed, stop>>
          /\ place[p] = "waiting" \/ (place[p] = "new" /\ ~busClosed)
      BY <1>3 DEF Bus!Enter, Bus!Refuses
    <2>2. BusTypes'
      BY <1>t, <2>1 DEF BusTypes, Places, Outcomes, Bus!Tasks
    <2>3. ASSUME NEW q \in Publications PROVE Sound(q)'
      <3>1. CASE q = p
        <4>1. /\ place'[p] = "running" /\ \A h \in Handlers : <<p, h>> \in inflight'
              /\ stop.pc # "none" => p \notin stop.accepted /\ (p \in stop.queued \/ ~busClosed)
          BY <1>t, <2>1 DEF BusTypes, Sound, Seen, Bus!Tasks
        <4> QED BY <2>1, <3>1, <4>1 DEF Sound, Held, Visible, Seen, Awaited, Excused
      <3>2. CASE q # p
        BY <1>t, <2>1, <3>2, BusFrame DEF BusTypes
      <3> QED BY <3>1, <3>2
    <2> QED BY <2>2, <2>3 DEF BusInv
  <1>4. ASSUME NEW p \in Publications, Bus!Leave(p) PROVE BusInv'
    <2>1. /\ place' = [place EXCEPT ![p] = "ended"]
          /\ inflight' = inflight \ Bus!Tasks(p)
          /\ UNCHANGED <<busClosed, queue, task, stop>>
          /\ Bus!Is(p, "failed") \/ ~Bus!Is(p, "running")
      BY <1>4 DEF Bus!Leave
    <2>2. BusTypes'
      BY <1>t, <2>1 DEF BusTypes, Places
    <2>3. ASSUME NEW q \in Publications PROVE Sound(q)'
      <3>1. CASE q = p
        <4>1. place'[p] = "ended" /\ task'[p] = task[p]
          BY <1>t, <2>1 DEF BusTypes
        <4> QED BY <1>t, <2>1, <3>1, <4>1
              DEF Sound, Held, Visible, Seen, Awaited, Excused, Orphaned, Bus!Is
      <3>2. CASE q # p
        BY <1>t, <2>1, <3>2, BusFrame DEF BusTypes, Bus!Tasks
      <3> QED BY <3>1, <3>2
    <2> QED BY <2>2, <2>3 DEF BusInv
  <1>5. ASSUME NEW p \in Publications, Bus!Cancel(p) PROVE BusInv'
    <2>1. /\ task' = [task EXCEPT ![p] = [h \in Handlers |->
                IF task[p][h] = "running" THEN "cancelled" ELSE task[p][h]]]
          /\ place' = [place EXCEPT ![p] = "ended"]
          /\ inflight' = inflight \ Bus!Tasks(p)
          /\ UNCHANGED <<busClosed, queue, stop>>
      BY <1>5 DEF Bus!Cancel
    <2>2. BusTypes'
      BY <1>t, <2>1 DEF BusTypes, Places, Outcomes
    <2>3. ASSUME NEW q \in Publications PROVE Sound(q)'
      <3>1. CASE q = p
        <4>1. place'[p] = "ended" /\ \A h \in Handlers : task'[p][h] # "running"
          BY <1>t, <2>1 DEF BusTypes
        <4> QED BY <1>t, <2>1, <3>1, <4>1
              DEF Sound, Held, Visible, Seen, Awaited, Excused, Orphaned, Bus!Is
      <3>2. CASE q # p
        BY <1>t, <2>1, <3>2, BusFrame DEF BusTypes, Bus!Tasks
      <3> QED BY <3>1, <3>2
    <2> QED BY <2>2, <2>3 DEF BusInv
  <1>6. ASSUME NEW p \in Publications, NEW h \in Handlers, Bus!Handle(p, h) PROVE BusInv'
    <2>1. PICK outcome \in {"done", "failed"} : task' = [task EXCEPT ![p][h] = outcome]
      BY <1>6 DEF Bus!Handle
    <2>2. task[p][h] = "running" /\ UNCHANGED <<busClosed, place, queue, inflight, stop>>
      BY <1>6 DEF Bus!Handle
    <2>3. BusTypes'
      BY <1>t, <2>1, <2>2 DEF BusTypes, Outcomes
    <2>4. ASSUME NEW q \in Publications PROVE Sound(q)'
      <3>1. CASE q = p
        <4>1. \A g \in Handlers :
                /\ task'[p][g] = "running" => task[p][g] = "running"
                /\ task[p][g] = "failed" => task'[p][g] = "failed"
          BY <1>t, <2>1, <2>2 DEF BusTypes
        <4> QED BY <1>t, <2>2, <3>1, <4>1
              DEF Sound, Held, Visible, Seen, Awaited, Excused, Orphaned, Bus!Is
      <3>2. CASE q # p
        BY <1>t, <2>1, <2>2, <3>2, BusFrame DEF BusTypes
      <3> QED BY <3>1, <3>2
    <2> QED BY <2>3, <2>4 DEF BusInv
  <1>7. ASSUME Bus!Stop PROVE BusInv'
    <2> USE <1>7 DEF Bus!Stop
    <2>1. BusTypes'
      BY <1>t DEF BusTypes, Bus!In
    <2>2. stop'.pc = "waiting" /\ stop'.tasks = inflight
      /\ stop'.accepted = Bus!In("running") /\ stop'.queued = Bus!In("waiting")
      OBVIOUS
    <2>3. ASSUME NEW p \in Publications PROVE Sound(p)'
      <3>1. Held(p) /\ Visible(p) /\ task' = task /\ place' = place /\ inflight' = inflight
        BY <1>t DEF Sound
      <3>2. Held(p)' /\ Visible(p)' /\ Seen(p)'
        BY <2>2, <3>1 DEF Held, Visible, Seen, Orphaned, Bus!Is, Bus!In
      <3>3. Bus!Is(p, "running")' => Awaited(p)' \/ Excused(p)'
        BY <2>2, <3>1 DEF Held, Visible, Awaited, Excused, Orphaned, Bus!Is, Bus!In
      <3> QED BY <3>2, <3>3 DEF Sound
    <2> QED BY <2>1, <2>3 DEF BusInv
  <1>8. ASSUME Bus!Stopped PROVE BusInv'
    <2> USE <1>8 DEF Bus!Stopped
    <2>1. BusTypes'
      BY <1>t DEF BusTypes
    <2>2. /\ stop.pc = "waiting"
          /\ stop'.tasks = stop.tasks /\ stop'.accepted = stop.accepted /\ stop'.queued = stop.queued
      BY <1>t DEF BusTypes
    <2>3. ASSUME NEW p \in Publications, NEW h \in Handlers, task[p][h] = "running"
          PROVE  <<p, h>> \notin stop.tasks
      BY <2>3
    <2>4. ASSUME NEW p \in Publications PROVE Sound(p)'
      <3>1. Held(p)' /\ Visible(p)' /\ Seen(p)'
        BY <1>t, <2>2 DEF Sound, Held, Visible, Seen, Orphaned, Bus!Is
      <3>2. Bus!Is(p, "running") => Excused(p)
        BY <1>t, <2>2, <2>3 DEF Sound, Awaited, Bus!Is
      <3>3. Bus!Is(p, "running")' => Excused(p)'
        BY <2>2, <3>2 DEF Excused, Orphaned, Bus!Is
      <3> QED BY <3>1, <3>3 DEF Sound
    <2> QED BY <2>1, <2>4 DEF BusInv
  <1>9. ASSUME UNCHANGED busVars PROVE BusInv'
    BY <1>t, <1>9, BusFrame DEF BusInv, BusTypes, busVars
  <1> QED BY <1>1, <1>2, <1>3, <1>4, <1>5, <1>6, <1>7, <1>8, <1>9, BusSteps DEF Bus!Next

(* When drain() or close() has returned, what still runs is the sibling of  *)
(* a handler that failed, or was queued for capacity or published after     *)
(* drain() (bus.py:25, :29, :61, :79).                                      *)
THEOREM WhatStillRuns == Spec => []StopWaits
  <1>1. BusInv => StopWaits
    <2> SUFFICES ASSUME BusInv, stop.pc = "returned", NEW p \in Publications, Bus!Is(p, "running")
                 PROVE  \/ Bus!Is(p, "failed") /\ place[p] = "ended"
                        \/ p \in stop.queued
                        \/ ~busClosed /\ p \notin stop.accepted
      BY DEF StopWaits, Bus!StopWaits
    <2> QED BY DEF BusInv, Sound, Awaited, Excused, Orphaned
  <1> QED BY <1>1, BusStarts, BusKeeps, PTL DEF Spec
-----------------------------------------------------------------------------
(* The slots and the queue of the bus.  The waiters are queued once each,   *)
(* and what is in flight belongs to those that hold a slot.                 *)

BusQueued ==
  /\ queue \in Seq(Bus!In("waiting"))
  /\ \A i, j \in 1..Len(queue) : queue[i] = queue[j] => i = j
  /\ IsFiniteSet(Bus!In("waiting")) /\ Len(queue) = Cardinality(Bus!In("waiting"))
BusSlots ==
  /\ inflight = Bus!In("running") \X Handlers
  /\ IsFiniteSet(Bus!In("running")) /\ Cardinality(Bus!In("running")) <= Capacity

LEMMA BusCount == \A S : Bus!Cardinality(S) = Cardinality(S)
  BY DEF Bus!Cardinality, Cardinality, Bus!IsFiniteSet, IsFiniteSet

LEMMA TasksOfAll ==
  ASSUME NEW S
  PROVE  UNION { Bus!Tasks(p) : p \in S } = S \X Handlers
  BY DEF Bus!Tasks

(* A publication goes from one place to another.                            *)
LEMMA InMoves ==
  ASSUME BusTypes, NEW p \in Publications, NEW to, place' = [place EXCEPT ![p] = to], NEW w
  PROVE  Bus!In(w)' = IF w = to THEN Bus!In(w) \cup {p} ELSE Bus!In(w) \ {p}
  BY DEF BusTypes, Bus!In

LEMMA InRests ==
  ASSUME BusTypes, NEW p \in Publications, NEW to, place' = [place EXCEPT ![p] = to], NEW w,
         w # place[p], w # to
  PROVE  Bus!In(w)' = Bus!In(w)
  BY DEF BusTypes, Bus!In

LEMMA QueueRests ==
  ASSUME BusQueued, UNCHANGED queue, Bus!In("waiting")' = Bus!In("waiting")
  PROVE  BusQueued'
  BY DEF BusQueued

LEMMA SlotsRest ==
  ASSUME BusSlots, UNCHANGED inflight, Bus!In("running")' = Bus!In("running")
  PROVE  BusSlots'
  BY DEF BusSlots

LEMMA WaitIsQueued ==
  ASSUME BusTypes, BusQueued, NEW p \in Publications, Bus!Wait(p)
  PROVE  BusQueued'
  <1> DEFINE W == Bus!In("waiting")
  <1>1. /\ place[p] = "new" /\ place' = [place EXCEPT ![p] = "waiting"]
        /\ queue' = Append(queue, p)
    BY DEF Bus!Wait
  <1>2. p \notin W
    BY <1>1 DEF Bus!In
  <1>3. Bus!In("waiting")' = W \cup {p}
    BY <1>1, InMoves
  <1>4. /\ queue \in Seq(W) /\ IsFiniteSet(W) /\ Len(queue) = Cardinality(W)
        /\ \A i, j \in 1..Len(queue) : queue[i] = queue[j] => i = j
    BY DEF BusQueued
  <1> HIDE DEF W
  <1>5. queue \in Seq(W \cup {p}) /\ Len(queue) \in Nat
    BY <1>4
  <1>6. /\ queue' \in Seq(W \cup {p}) /\ Len(queue') = Len(queue) + 1
        /\ \A i \in 1..Len(queue) : queue'[i] = queue[i] /\ queue[i] \in W
        /\ queue'[Len(queue) + 1] = p
    BY <1>1, <1>4, <1>5, AppendProperties, ElementOfSeq
  <1>7. ASSUME NEW i \in 1..Len(queue'), NEW j \in 1..Len(queue'), queue'[i] = queue'[j]
        PROVE  i = j
    <2>1. \A k \in 1..Len(queue') : k \in 1..Len(queue) \/ k = Len(queue) + 1
      BY <1>5, <1>6
    <2> QED BY <1>2, <1>4, <1>6, <1>7, <2>1
  <1>8. IsFiniteSet(W \cup {p}) /\ Cardinality(W \cup {p}) = Cardinality(W) + 1
    BY <1>2, <1>4, FS_AddElement
  <1> QED BY <1>3, <1>4, <1>6, <1>7, <1>8 DEF BusQueued

LEMMA EnterIsQueued ==
  ASSUME BusTypes, BusQueued, NEW p \in Publications, Bus!Enter(p)
  PROVE  BusQueued'
  <1> DEFINE W == Bus!In("waiting")
  <1>1. /\ place' = [place EXCEPT ![p] = "running"]
        /\ \/ place[p] = "new" /\ UNCHANGED queue
           \/ place[p] = "waiting" /\ p = Head(queue) /\ queue' = Tail(queue)
    BY DEF Bus!Enter
  <1>2. CASE place[p] = "new" /\ UNCHANGED queue
    BY <1>1, <1>2, InRests, QueueRests
  <1>3. CASE place[p] = "waiting" /\ p = Head(queue) /\ queue' = Tail(queue)
    <2>1. p \in W
      BY <1>3 DEF Bus!In
    <2>2. Bus!In("waiting")' = W \ {p}
      BY <1>1, InMoves
    <2>3. /\ queue \in Seq(W) /\ IsFiniteSet(W) /\ Len(queue) = Cardinality(W)
          /\ \A i, j \in 1..Len(queue) : queue[i] = queue[j] => i = j
      BY DEF BusQueued
    <2> HIDE DEF W
    <2>4. IsFiniteSet(W \ {p}) /\ Cardinality(W \ {p}) = Cardinality(W) - 1
      BY <2>1, <2>3, FS_RemoveElement
    <2>5. queue # << >>
      <3>1. Cardinality(W) # 0
        BY <2>1, <2>3, FS_EmptySet
      <3> QED BY <2>3, <3>1, EmptySeq
    <2>6. /\ Tail(queue) \in Seq(W) /\ Len(Tail(queue)) = Len(queue) - 1 /\ Len(queue) \in Nat
          /\ \A i \in 1..Len(Tail(queue)) : Tail(queue)[i] = queue[i + 1]
      BY <2>3, <2>5, HeadTailProperties
    <2>7. p = queue[1] /\ 1 \in 1..Len(queue)
      BY <1>3, <2>3, <2>5, <2>6, EmptySeq
    <2>8. \A i \in 1..Len(Tail(queue)) : i + 1 \in 1..Len(queue) /\ i + 1 # 1
      BY <2>6
    <2>9. ASSUME NEW i \in 1..Len(Tail(queue)) PROVE Tail(queue)[i] \in W \ {p}
      <3>1. queue[i + 1] \in W
        BY <2>3, <2>8, ElementOfSeq
      <3> QED BY <2>3, <2>6, <2>7, <2>8, <3>1
    <2>10. Tail(queue) \in Seq(W \ {p})
      <3> DEFINE t == Tail(queue)
                 V == W \ {p}
      <3>1. Len(t) \in Nat /\ t = [i \in 1..Len(t) |-> t[i]]
        BY <2>6, LenProperties
      <3>2. \A i \in 1..Len(t) : t[i] \in V
        BY <2>9
      <3> HIDE DEF t, V
      <3>3. t \in [1..Len(t) -> V]
        BY <3>1, <3>2
      <3>4. t \in Seq(V)
        BY <3>1, <3>3, SeqDef
      <3> QED BY <3>4 DEF t, V
    <2>11. ASSUME NEW i \in 1..Len(Tail(queue)), NEW j \in 1..Len(Tail(queue)),
                  Tail(queue)[i] = Tail(queue)[j]
           PROVE  i = j
      <3>1. i + 1 = j + 1
        BY <2>3, <2>6, <2>8, <2>11
      <3> QED BY <3>1
    <2>12. Len(queue') = Cardinality(W \ {p})
      BY <1>3, <2>3, <2>4, <2>6
    <2> QED BY <1>3, <2>2, <2>4, <2>10, <2>11, <2>12 DEF BusQueued
  <1> QED BY <1>1, <1>2, <1>3

LEMMA EnterHasASlot ==
  ASSUME BusTypes, BusSlots, NEW p \in Publications, Bus!Enter(p)
  PROVE  BusSlots'
  <1> DEFINE R == Bus!In("running")
  <1>1. /\ place[p] \in {"new", "waiting"} /\ place' = [place EXCEPT ![p] = "running"]
        /\ inflight' = inflight \cup Bus!Tasks(p) /\ Cardinality(R) # Capacity
    BY BusCount DEF Bus!Enter, Bus!Full
  <1>2. Bus!In("running")' = R \cup {p} /\ p \notin R
    BY <1>1, InMoves DEF Bus!In
  <1>3. inflight = R \X Handlers /\ IsFiniteSet(R) /\ Cardinality(R) <= Capacity
    BY DEF BusSlots
  <1> HIDE DEF R
  <1>4. inflight' = (R \cup {p}) \X Handlers
    BY <1>1, <1>3 DEF Bus!Tasks
  <1>5. IsFiniteSet(R \cup {p}) /\ Cardinality(R \cup {p}) = Cardinality(R) + 1
        /\ Cardinality(R) \in Nat
    BY <1>2, <1>3, FS_AddElement, FS_CardinalityType
  <1>6. Capacity \in Nat
    OBVIOUS
  <1>7. Cardinality(R \cup {p}) <= Capacity
    <2>1. Cardinality(R) # Capacity /\ Cardinality(R) <= Capacity
      BY <1>1, <1>3
    <2> QED BY <1>5, <1>6, <2>1
  <1> QED BY <1>2, <1>4, <1>5, <1>7 DEF BusSlots

LEMMA LeaveFreesASlot ==
  ASSUME BusTypes, BusSlots, NEW p \in Publications, place[p] = "running",
         place' = [place EXCEPT ![p] = "ended"], inflight' = inflight \ Bus!Tasks(p)
  PROVE  BusSlots'
  <1> DEFINE R == Bus!In("running")
  <1>1. Bus!In("running")' = R \ {p} /\ p \in R
    <2>1. Bus!In("running")' = IF "running" = "ended" THEN R \cup {p} ELSE R \ {p}
      BY InMoves
    <2>2. p \in R
      BY DEF Bus!In
    <2> QED BY <2>1, <2>2
  <1>2. inflight = R \X Handlers /\ IsFiniteSet(R) /\ Cardinality(R) <= Capacity
    BY DEF BusSlots
  <1> HIDE DEF R
  <1>3. inflight' = (R \ {p}) \X Handlers
    BY <1>2 DEF Bus!Tasks
  <1>4. IsFiniteSet(R \ {p}) /\ Cardinality(R \ {p}) = Cardinality(R) - 1
        /\ Cardinality(R) \in Nat
    BY <1>1, <1>2, FS_RemoveElement, FS_CardinalityType
  <1>5. Cardinality(R \ {p}) <= Capacity
    BY <1>2, <1>4
  <1> QED BY <1>1, <1>3, <1>4, <1>5 DEF BusSlots

LEMMA BusIsTyped == Spec => []Bus!TypeOK
  <1>1. Init => BusQueued /\ BusSlots
    <2> SUFFICES ASSUME Init PROVE BusQueued /\ BusSlots
      OBVIOUS
    <2>1. place = [p \in Publications |-> "new"] /\ queue = << >> /\ inflight = {}
      BY DEF Init, Bus!Init
    <2>2. Bus!In("waiting") = {} /\ Bus!In("running") = {}
      BY <2>1 DEF Bus!In
    <2>3. IsFiniteSet({}) /\ Cardinality({}) = 0
      BY FS_EmptySet
    <2>4. queue \in Seq({}) /\ Len(queue) = 0 /\ 1..Len(queue) = {}
      BY <2>1, EmptySeq
    <2>5. BusQueued
      <3>1. \A i, j \in 1..Len(queue) : queue[i] = queue[j] => i = j
        BY <2>4
      <3> QED BY <2>2, <2>3, <2>4, <3>1 DEF BusQueued
    <2>6. inflight = Bus!In("running") \X Handlers
      BY <2>1, <2>2
    <2>7. IsFiniteSet(Bus!In("running")) /\ Cardinality(Bus!In("running")) <= Capacity
      <3>1. 0 <= Capacity
        OBVIOUS
      <3> QED BY <2>2, <2>3, <3>1
    <2> QED BY <2>5, <2>6, <2>7 DEF BusSlots
  <1>2. BusInv /\ BusQueued /\ BusSlots /\ [Next]_vars => BusQueued' /\ BusSlots'
    <2> SUFFICES ASSUME BusTypes, BusQueued, BusSlots, [Next]_vars PROVE BusQueued' /\ BusSlots'
      BY DEF BusInv
    <2>1. ASSUME NEW p \in Publications, Bus!Refuse(p) PROVE BusQueued' /\ BusSlots'
      <3>1. /\ place[p] = "new" /\ place' = [place EXCEPT ![p] = "refused"]
            /\ UNCHANGED <<queue, inflight>>
        BY <2>1 DEF Bus!Refuse
      <3> QED BY <3>1, InRests, QueueRests, SlotsRest
    <2>2. ASSUME NEW p \in Publications, Bus!Wait(p) PROVE BusQueued' /\ BusSlots'
      <3>1. /\ place[p] = "new" /\ place' = [place EXCEPT ![p] = "waiting"]
            /\ UNCHANGED inflight
        BY <2>2 DEF Bus!Wait
      <3>2. Bus!In("running")' = Bus!In("running")
        BY <3>1, InRests
      <3> QED BY <2>2, <3>1, <3>2, WaitIsQueued, SlotsRest
    <2>3. ASSUME NEW p \in Publications, Bus!Leave(p) \/ Bus!Cancel(p)
          PROVE  BusQueued' /\ BusSlots'
      <3>1. /\ place[p] = "running" /\ place' = [place EXCEPT ![p] = "ended"]
            /\ inflight' = inflight \ Bus!Tasks(p) /\ UNCHANGED queue
        BY <2>3 DEF Bus!Leave, Bus!Cancel
      <3>2. Bus!In("waiting")' = Bus!In("waiting")
        BY <3>1, InRests
      <3> QED BY <3>1, <3>2, QueueRests, LeaveFreesASlot
    <2>4. ASSUME UNCHANGED <<place, queue, inflight>> PROVE BusQueued' /\ BusSlots'
      <3>1. Bus!In("waiting")' = Bus!In("waiting") /\ Bus!In("running")' = Bus!In("running")
        BY <2>4 DEF Bus!In
      <3> QED BY <2>4, <3>1, QueueRests, SlotsRest
    <2>5. ASSUME NEW p \in Publications, NEW h \in Handlers, Bus!Handle(p, h)
          PROVE  BusQueued' /\ BusSlots'
      BY <2>4, <2>5 DEF Bus!Handle
    <2>6. ASSUME Bus!Stop \/ Bus!Stopped \/ UNCHANGED busVars PROVE BusQueued' /\ BusSlots'
      BY <2>4, <2>6 DEF Bus!Stop, Bus!Stopped, busVars
    <2> QED BY <2>1, <2>2, <2>3, <2>5, <2>6, BusSteps, EnterIsQueued, EnterHasASlot DEF Bus!Next
  <1>3. BusInv /\ BusQueued /\ BusSlots => Bus!TypeOK
    <2> SUFFICES ASSUME BusTypes, BusQueued, BusSlots PROVE Bus!TypeOK
      BY DEF BusInv
    <2>1. inflight = UNION { Bus!Tasks(p) : p \in Bus!In("running") }
      BY TasksOfAll DEF BusSlots
    <2>2. /\ Len(queue) = Bus!Cardinality(Bus!In("waiting"))
          /\ Bus!Cardinality(Bus!In("running")) <= Capacity
      BY BusCount DEF BusQueued, BusSlots
    <2> QED BY <2>1, <2>2 DEF Bus!TypeOK, BusTypes, BusQueued, Places, Outcomes
  <1> QED BY <1>1, <1>2, <1>3, BusStarts, BusKeeps, PTL DEF Spec

-----------------------------------------------------------------------------
(* The provider pool.                                                       *)

Names == Pool!Names
Calling == {"call", "compact", "correct"}
Positions ==
  [pc : {"ended", "route"} \cup Calling, left : Seq(Names), at : Names \cup {NoAccount},
   try : 0..MaximumRetries + 1, passed : SUBSET Names, calls : Nat, compacts : Nat]

(* The attempt that is under way has made one call if it is at its compact  *)
(* retry or correction; each attempt before it two at most.                 *)
Counted(q) ==
  /\ q.at # NoAccount <=> q.pc \in Calling
  /\ q.at = NoAccount => q.calls = 0 /\ q.compacts = 0
  /\ q.at # NoAccount =>
       /\ q.try >= 1
       /\ q.calls <= 2 * (q.try - 1) + IF q.pc = "call" THEN 0 ELSE 1
       /\ q.compacts <= q.try - 1
Exchanges == { q \in Positions : Counted(q) }

Cooldowns == [Names -> {"none", "running", "over"}]

PoolInv ==
  /\ cursor \in 0..Len(Accounts) - 1
  /\ cooldown \in Cooldowns
  /\ recent \in [Names -> 0..Threshold - 1]
  /\ request \in [Requests -> Exchanges]

-----------------------------------------------------------------------------
(* The operators of the pool.                                               *)

LEMMA RoutingIsAPosition == Pool!Routing \in Positions
  <1>1. 0 \in 0..MaximumRetries + 1 /\ << >> \in Seq(Names)
    OBVIOUS
  <1> QED BY <1>1 DEF Pool!Routing, Positions

LEMMA RoutingIsSound ==
  ASSUME NEW left \in Seq(Names), NEW passed \in SUBSET Names
  PROVE  [Pool!Routing EXCEPT !.left = left, !.passed = passed] \in Exchanges
  <1> DEFINE new == [Pool!Routing EXCEPT !.left = left, !.passed = passed]
  <1>1. new \in Positions
    BY RoutingIsAPosition DEF Positions
  <1>2. new.at = NoAccount /\ new.pc = "route" /\ new.calls = 0 /\ new.compacts = 0
    BY DEF Pool!Routing
  <1> QED BY <1>1, <1>2 DEF Exchanges, Counted, Calling

LEMMA EndedIsSound == Pool!Ended \in Exchanges
  <1>1. Pool!Ended \in Positions
    BY RoutingIsAPosition DEF Pool!Ended, Positions
  <1>2. /\ Pool!Ended.at = NoAccount /\ Pool!Ended.pc = "ended"
        /\ Pool!Ended.calls = 0 /\ Pool!Ended.compacts = 0
    BY RoutingIsAPosition DEF Pool!Ended, Pool!Routing, Positions
  <1> QED BY <1>1, <1>2 DEF Exchanges, Counted, Calling

LEMMA RotationsAreAccounts ==
  ASSUME NEW k \in 0..Len(Accounts) - 1
  PROVE  Pool!Rotated(k) \in Seq(Names)
  <1>1. Accounts \in Seq(Names)
    BY DEF Names
  <1>2. Len(Accounts) \in Nat
    BY <1>1, LenProperties
  <1>3. SubSeq(Accounts, k + 1, Len(Accounts)) \in Seq(Names) /\ SubSeq(Accounts, 1, k) \in Seq(Names)
    BY <1>1, <1>2
  <1> QED BY <1>3 DEF Pool!Rotated

LEMMA ForgottenIsSound ==
  ASSUME PoolInv, NEW a
  PROVE  /\ Pool!Forgotten(a) \in [Requests -> Exchanges]
         /\ \A r \in Requests : /\ Pool!Forgotten(a)[r].at = request[r].at
                                /\ Pool!Forgotten(a)[r].left = request[r].left
  <1>1. ASSUME NEW r \in Requests
        PROVE  /\ Pool!Forgotten(a)[r] \in Exchanges
               /\ Pool!Forgotten(a)[r].at = request[r].at
               /\ Pool!Forgotten(a)[r].left = request[r].left
    <2>1. request[r] \in Exchanges
      BY DEF PoolInv
    <2>2. Pool!Forgotten(a)[r] = [request[r] EXCEPT !.passed = request[r].passed \ {a}]
      BY DEF Pool!Forgotten
    <2> QED BY <2>1, <2>2 DEF Exchanges, Positions, Counted
  <1>2. Pool!Forgotten(a) = [r \in Requests |-> Pool!Forgotten(a)[r]]
    BY DEF Pool!Forgotten
  <1> QED BY <1>1, <1>2

-----------------------------------------------------------------------------
(* What the steps do: the request that moves keeps its accounts, and the    *)
(* others stay where they are.                                              *)

Others(r) == \A s \in Requests \ {r} : request'[s].at = request[s].at
Moves(r) == request' \in [Requests -> Exchanges] /\ Others(r)

LEMMA PoolMove ==
  ASSUME PoolInv, NEW r \in Requests, NEW new \in Exchanges,
         request' = [request EXCEPT ![r] = new]
  PROVE  Moves(r) /\ request'[r] = new
  BY DEF PoolInv, Moves, Others

LEMMA PoolFinish ==
  ASSUME PoolInv, NEW r \in Requests, Pool!Finish(r)
  PROVE  Moves(r) /\ request'[r].at = NoAccount
  <1>1. request' = [Pool!Forgotten(request[r].at) EXCEPT ![r] = Pool!Ended]
    BY DEF Pool!Finish
  <1>2. Pool!Ended.at = NoAccount
    BY DEF Pool!Ended, Pool!Routing
  <1> QED BY <1>1, <1>2, ForgottenIsSound, EndedIsSound DEF Moves, Others

LEMMA PoolNextAccount ==
  ASSUME PoolInv, NEW r \in Requests, Pool!NextAccount(r)
  PROVE  Moves(r) /\ request'[r].at = NoAccount
  <1> DEFINE f == Pool!Forgotten(request[r].at)
             new == [Pool!Routing EXCEPT !.left = f[r].left, !.passed = f[r].passed]
  <1>1. request' = [f EXCEPT ![r] = new]
    BY DEF Pool!NextAccount
  <1>2. f \in [Requests -> Exchanges] /\ \A s \in Requests : f[s].at = request[s].at
    BY ForgottenIsSound
  <1>3. f[r].left \in Seq(Names) /\ f[r].passed \in SUBSET Names
    <2>1. f[r] \in Positions
      BY <1>2 DEF Exchanges
    <2> QED BY <2>1 DEF Positions
  <1>4. new \in Exchanges
    BY <1>3, RoutingIsSound
  <1>5. new.at = NoAccount
    BY DEF Pool!Routing
  <1> HIDE DEF f, new
  <1> QED BY <1>1, <1>2, <1>4, <1>5 DEF Moves, Others

(* One more call of an attempt, or the first step to the next attempt.      *)
LEMMA OneMoreCall ==
  ASSUME NEW old \in Positions, Counted(old), old.at # NoAccount,
         NEW new \in Positions, new.at # NoAccount, new.pc \in Calling,
         NEW more \in {0, 1}, NEW compact \in {0, 1}, compact <= more,
         more = 0 => old.pc = "call" /\ new.pc # "call",
         more = 1 => new.pc = "call",
         new.calls = old.calls + 1, new.try = old.try + more,
         new.compacts = old.compacts + compact
  PROVE  Counted(new)
  <1>1. old.try \in Nat /\ old.calls \in Nat /\ old.compacts \in Nat
    BY DEF Positions
  <1>2. /\ old.try >= 1 /\ old.compacts <= old.try - 1
        /\ old.calls <= 2 * (old.try - 1) + IF old.pc = "call" THEN 0 ELSE 1
    BY DEF Counted
  <1>3. new.try >= 1 /\ new.compacts <= new.try - 1
    BY <1>1, <1>2
  <1>4. CASE more = 0
    <2>1. old.calls <= 2 * (old.try - 1)
      BY <1>1, <1>2, <1>4
    <2>2. new.calls <= 2 * (new.try - 1) + 1
      BY <1>1, <1>4, <2>1
    <2> QED BY <1>3, <1>4, <2>2 DEF Counted
  <1>5. CASE more = 1
    <2>1. old.calls <= 2 * (old.try - 1) + 1
      BY <1>1, <1>2
    <2>2. new.calls <= 2 * (new.try - 1)
      BY <1>1, <1>5, <2>1
    <2>3. new.calls <= 2 * (new.try - 1) + 0
      BY <1>1, <1>5, <2>2
    <2> QED BY <1>3, <1>5, <2>3 DEF Counted
  <1> QED BY <1>4, <1>5

(* A call that leads to another one of the exchange.                        *)
LEMMA PoolGoesOn ==
  ASSUME PoolInv, NEW r \in Requests, request[r].at # NoAccount, NEW pc \in Calling,
         NEW more \in {0, 1}, NEW compact \in {0, 1},
         more = 0 => request[r].pc = "call" /\ pc # "call",
         compact = 1 => more = 1,
         more = 1 => pc = "call",
         request' \in [Requests -> Positions],
         \A s \in Requests \ {r} : request'[s] = request[s],
         request'[r].at = request[r].at, request'[r].pc = pc,
         request'[r].calls = request[r].calls + 1,
         request'[r].try = request[r].try + more,
         request'[r].compacts = request[r].compacts + compact
  PROVE  Moves(r)
  <1>1. request[r] \in Positions /\ Counted(request[r])
    BY DEF PoolInv, Exchanges
  <1> DEFINE old == request[r]  new == request'[r]
  <1>2. /\ new.at # NoAccount /\ new.pc = pc /\ new.calls = old.calls + 1
        /\ new.try = old.try + more /\ new.compacts = old.compacts + compact
    OBVIOUS
  <1>3. new \in Positions /\ \A s \in Requests \ {r} : request'[s] = request[s]
    OBVIOUS
  <1>4. compact <= more
    OBVIOUS
  <1>5. request' \in [Requests -> Positions] /\ new = request'[r]
    OBVIOUS
  <1>6. Counted(new)
    <2>1. /\ old \in Positions /\ Counted(old) /\ old.at # NoAccount
          /\ (more = 0 => old.pc = "call" /\ new.pc # "call") /\ (more = 1 => new.pc = "call")
      BY <1>1, <1>2
    <2> HIDE DEF old, new
    <2> QED BY <1>2, <1>3, <1>4, <2>1, OneMoreCall
  <1> HIDE DEF old, new
  <1>7. \A s \in Requests : request'[s] \in Exchanges
    <2>1. new \in Exchanges
      BY <1>3, <1>6 DEF Exchanges
    <2> QED BY <1>3, <1>5, <2>1 DEF PoolInv
  <1> QED BY <1>3, <1>5, <1>7 DEF Moves, Others

LEMMA CalledOnce ==
  ASSUME PoolInv, NEW r \in Requests
  PROVE  /\ Pool!Called(r) \in [Requests -> Positions]
         /\ \A s \in Requests \ {r} : Pool!Called(r)[s] = request[s]
         /\ Pool!Called(r)[r].calls = request[r].calls + 1
         /\ Pool!Called(r)[r].at = request[r].at
         /\ Pool!Called(r)[r].pc = request[r].pc
         /\ Pool!Called(r)[r].try = request[r].try
         /\ Pool!Called(r)[r].compacts = request[r].compacts
  <1>1. request \in [Requests -> Positions]
    BY DEF PoolInv, Exchanges
  <1> DEFINE new == [request[r] EXCEPT !.calls = @ + 1]
  <1>2. Pool!Called(r) = [request EXCEPT ![r] = new]
    BY DEF Pool!Called
  <1>3. new \in Positions
    <2>1. request[r] \in Positions /\ request[r].calls + 1 \in Nat
      BY <1>1 DEF Positions
    <2> QED BY <2>1 DEF Positions
  <1>4. /\ new.calls = request[r].calls + 1 /\ new.at = request[r].at /\ new.pc = request[r].pc
        /\ new.try = request[r].try /\ new.compacts = request[r].compacts
    BY <1>1 DEF Positions
  <1> HIDE DEF new
  <1> QED BY <1>1, <1>2, <1>3, <1>4

(* CooldownKept for one step.                                               *)
Kept ==
  \A a \in Names : cooldown[a] = "running" =>
    /\ \A r \in Requests : Pool!On(r, a)' => Pool!On(r, a)
    /\ cooldown'[a] = "none" => \E r \in Requests : Pool!On(r, a) /\ ~Pool!On(r, a)'

Fine == PoolInv' /\ Kept

(* A request leaves an account, whose cooldown may change with it.          *)
LEMMA AnswerIsFine ==
  ASSUME PoolInv, NEW r \in Requests, request[r].at \in Names,
         Pool!Healthy(request[r].at) \/ Pool!Refused(request[r].at) \/ Pool!Failed(request[r].at),
         Pool!NextAccount(r) \/ Pool!Finish(r), UNCHANGED cursor
  PROVE  Fine
  <1> DEFINE a == request[r].at
  <1>1. Moves(r) /\ request'[r].at = NoAccount
    BY PoolNextAccount, PoolFinish
  <1>2. PICK v \in {"none", "running", "over"} : cooldown' = [cooldown EXCEPT ![a] = v]
    <2>1. CASE Pool!Healthy(a)
      BY <2>1 DEF Pool!Healthy
    <2>2. CASE Pool!Refused(a)
      BY <2>2 DEF Pool!Refused
    <2>3. CASE Pool!Failed(a)
      BY <2>3 DEF Pool!Failed
    <2> QED BY <2>1, <2>2, <2>3
  <1>3. recent' \in [Names -> 0..Threshold - 1]
    <2>1. recent \in [Names -> 0..Threshold - 1] /\ a \in Names
      BY DEF PoolInv
    <2>2. Pool!Counted(a) \in [Names -> 0..Threshold - 1]
      BY <2>1 DEF Pool!Counted
    <2> QED BY <2>1, <2>2 DEF Pool!Healthy, Pool!Refused, Pool!Failed
  <1> HIDE DEF a
  <1>4. cooldown' \in Cooldowns /\ \A b \in Names \ {a} : cooldown'[b] = cooldown[b]
    BY <1>2 DEF PoolInv, Cooldowns
  <1>5. PoolInv'
    BY <1>1, <1>3, <1>4 DEF PoolInv, Moves
  <1>6. Kept
    <2> SUFFICES ASSUME NEW b \in Names, cooldown[b] = "running"
                 PROVE  /\ \A s \in Requests : Pool!On(s, b)' => Pool!On(s, b)
                        /\ cooldown'[b] = "none" => \E s \in Requests : Pool!On(s, b) /\ ~Pool!On(s, b)'
      BY DEF Kept
    <2>1. ASSUME NEW s \in Requests, Pool!On(s, b)' PROVE Pool!On(s, b)
      BY <1>1, <2>1 DEF Moves, Others, Pool!On, Names
    <2>2. ASSUME cooldown'[b] = "none" PROVE Pool!On(r, b) /\ ~Pool!On(r, b)'
      BY <1>1, <1>4, <2>2 DEF a, Pool!On, Names
    <2> QED BY <2>1, <2>2
  <1> QED BY <1>5, <1>6 DEF Fine

(* No request comes to an account, and no cooldown is cleared that runs.    *)
LEMMA OtherStepsAreFine ==
  ASSUME PoolInv, cursor' \in 0..Len(Accounts) - 1, cooldown' \in Cooldowns,
         recent' \in [Names -> 0..Threshold - 1], request' \in [Requests -> Exchanges],
         \A a \in Names : cooldown'[a] # cooldown[a] => cooldown[a] # "running" \/ cooldown'[a] = "over",
         \A r \in Requests : \/ request'[r].at \in {request[r].at, NoAccount}
                             \/ cooldown[request'[r].at] # "running"
  PROVE  Fine
  BY DEF Fine, PoolInv, Kept, Pool!On, Names

LEMMA ExchangeIsFine ==
  ASSUME PoolInv, NEW r \in Requests, Moves(r), request'[r].at = request[r].at,
         UNCHANGED <<cursor, cooldown, recent>>
  PROVE  Fine
  BY OtherStepsAreFine DEF PoolInv, Moves, Others

LEMMA CallerIsThere ==
  ASSUME PoolInv, NEW r \in Requests, request[r].pc \in Calling
  PROVE  request[r].at \in Names
  BY DEF PoolInv, Exchanges, Positions, Counted

LEMMA AgainIsFine ==
  ASSUME PoolInv, NEW r \in Requests, request[r].pc \in Calling, Pool!Again(r), UNCHANGED cursor
  PROVE  Fine
  <1> DEFINE c == Pool!Called(r)
  <1>1. /\ Pool!Retryable(r) /\ UNCHANGED <<cooldown, recent>>
        /\ request' = [c EXCEPT ![r].pc = "call", ![r].try = @ + 1]
    BY DEF Pool!Again
  <1>2. /\ c \in [Requests -> Positions] /\ \A s \in Requests \ {r} : c[s] = request[s]
        /\ c[r].calls = request[r].calls + 1 /\ c[r].at = request[r].at
        /\ c[r].try = request[r].try /\ c[r].compacts = request[r].compacts
    BY CalledOnce
  <1> HIDE DEF c
  <1>3. request[r].at # NoAccount
    BY CallerIsThere DEF Names
  <1>4. c[r].try + 1 \in 0..MaximumRetries + 1
    BY <1>1, <1>2 DEF Positions, Pool!Retryable
  <1>5. request' \in [Requests -> Positions] /\ \A s \in Requests \ {r} : request'[s] = request[s]
    <2> DEFINE q == [c[r] EXCEPT !.pc = "call", !.try = @ + 1]
    <2>1. request' = [c EXCEPT ![r] = q]
      BY <1>1, <1>2
    <2>2. c[r] \in Positions
      BY <1>2
    <2>3. q \in Positions
      BY <2>2, <1>4 DEF Positions, Calling
    <2> HIDE DEF q
    <2> QED BY <1>2, <2>1, <2>3
  <1>6. /\ request'[r].at = request[r].at /\ request'[r].pc = "call"
        /\ request'[r].calls = request[r].calls + 1 /\ request'[r].try = request[r].try + 1
        /\ request'[r].compacts = request[r].compacts
    BY <1>1, <1>2 DEF Positions
  <1>7. request[r].compacts = request[r].compacts + 0
    BY DEF PoolInv, Exchanges, Positions
  <1>8. Moves(r)
    BY <1>3, <1>5, <1>6, <1>7, PoolGoesOn DEF Calling
  <1> QED BY <1>1, <1>6, <1>8, ExchangeIsFine

(* The first call of an attempt leads to its compact retry or correction.   *)
LEMMA SecondCallIsFine ==
  ASSUME PoolInv, NEW r \in Requests, request[r].pc = "call", NEW pc \in {"compact", "correct"},
         request' = [Pool!Called(r) EXCEPT ![r].pc = pc], UNCHANGED <<cursor, cooldown, recent>>
  PROVE  Fine
  <1> DEFINE c == Pool!Called(r)
  <1>1. request' = [c EXCEPT ![r].pc = pc]
    OBVIOUS
  <1>2. /\ c \in [Requests -> Positions] /\ \A s \in Requests \ {r} : c[s] = request[s]
        /\ c[r].calls = request[r].calls + 1 /\ c[r].at = request[r].at
        /\ c[r].try = request[r].try /\ c[r].compacts = request[r].compacts
    BY CalledOnce
  <1> HIDE DEF c
  <1>3. request[r].at # NoAccount
    BY CallerIsThere DEF Names, Calling
  <1> DEFINE q == [c[r] EXCEPT !.pc = pc]
  <1>q. /\ q \in Positions /\ q.pc = pc /\ q.at = c[r].at /\ q.calls = c[r].calls
        /\ q.try = c[r].try /\ q.compacts = c[r].compacts
    <2>1. c[r] \in Positions
      BY <1>2
    <2> QED BY <2>1 DEF Positions, Calling
  <1>u. request' = [c EXCEPT ![r] = q]
    BY <1>1, <1>2
  <1> HIDE DEF q
  <1>4. /\ request' \in [Requests -> Positions] /\ request'[r] = q
        /\ \A s \in Requests \ {r} : request'[s] = request[s]
    <2>1. /\ request' \in [Requests -> Positions] /\ request'[r] = q
          /\ \A s \in Requests \ {r} : request'[s] = c[s]
      <3>1. c \in [Requests -> Positions] /\ q \in Positions
        BY <1>2, <1>q
      <3> QED BY <1>u, <3>1
    <2>2. \A s \in Requests \ {r} : c[s] = request[s]
      BY <1>2
    <2> QED BY <2>1, <2>2
  <1>5. /\ request'[r].at = request[r].at /\ request'[r].pc = pc
        /\ request'[r].calls = request[r].calls + 1 /\ request'[r].try = request[r].try
        /\ request'[r].compacts = request[r].compacts
    BY <1>2, <1>4, <1>q
  <1>6. request[r].compacts = request[r].compacts + 0 /\ request[r].try = request[r].try + 0
    BY DEF PoolInv, Exchanges, Positions
  <1>7. Moves(r)
    <2> DEFINE more == 0  compact == 0
    <2>1. /\ pc \in Calling /\ pc # "call" /\ more \in {0, 1} /\ compact \in {0, 1}
          /\ compact # 1 /\ more # 1
      BY DEF Calling
    <2>2. /\ request'[r].try = request[r].try + more
          /\ request'[r].compacts = request[r].compacts + compact
      BY <1>5, <1>6
    <2> HIDE DEF more, compact
    <2> QED BY <1>3, <1>4, <1>5, <2>1, <2>2, PoolGoesOn
  <1> QED BY <1>5, <1>7, ExchangeIsFine

(* A compact retry that fails makes the exchange start again.               *)
LEMMA CompactAgainIsFine ==
  ASSUME PoolInv, NEW r \in Requests, request[r].pc = "compact", Pool!Retryable(r),
         request' = [Pool!Called(r) EXCEPT ![r].pc = "call", ![r].try = @ + 1,
                                           ![r].compacts = @ + 1],
         UNCHANGED <<cursor, cooldown, recent>>
  PROVE  Fine
  <1> DEFINE c == Pool!Called(r)
  <1>1. request' = [c EXCEPT ![r].pc = "call", ![r].try = @ + 1, ![r].compacts = @ + 1]
    OBVIOUS
  <1>2. /\ c \in [Requests -> Positions] /\ \A s \in Requests \ {r} : c[s] = request[s]
        /\ c[r].calls = request[r].calls + 1 /\ c[r].at = request[r].at
        /\ c[r].try = request[r].try /\ c[r].compacts = request[r].compacts
    BY CalledOnce
  <1> HIDE DEF c
  <1>3. request[r].at # NoAccount
    BY CallerIsThere DEF Names, Calling
  <1>4. c[r].try + 1 \in 0..MaximumRetries + 1 /\ c[r].compacts + 1 \in Nat
    <2>1. c[r] \in Positions /\ request[r].try <= MaximumRetries
      BY <1>2 DEF Pool!Retryable
    <2> QED BY <1>2, <2>1 DEF Positions
  <1> DEFINE q == [c[r] EXCEPT !.pc = "call", !.try = @ + 1, !.compacts = @ + 1]
  <1>q. /\ q \in Positions /\ q.pc = "call" /\ q.at = c[r].at /\ q.calls = c[r].calls
        /\ q.try = c[r].try + 1 /\ q.compacts = c[r].compacts + 1
    <2>1. c[r] \in Positions
      BY <1>2
    <2> QED BY <2>1, <1>4 DEF Positions, Calling
  <1>u. request' = [c EXCEPT ![r] = q]
    BY <1>1, <1>2
  <1> HIDE DEF q
  <1>5. /\ request' \in [Requests -> Positions] /\ request'[r] = q
        /\ \A s \in Requests \ {r} : request'[s] = request[s]
    <2>1. /\ request' \in [Requests -> Positions] /\ request'[r] = q
          /\ \A s \in Requests \ {r} : request'[s] = c[s]
      <3>1. c \in [Requests -> Positions] /\ q \in Positions
        BY <1>2, <1>q
      <3> QED BY <1>u, <3>1
    <2>2. \A s \in Requests \ {r} : c[s] = request[s]
      BY <1>2
    <2> QED BY <2>1, <2>2
  <1>6. /\ request'[r].at = request[r].at /\ request'[r].pc = "call"
        /\ request'[r].calls = request[r].calls + 1 /\ request'[r].try = request[r].try + 1
        /\ request'[r].compacts = request[r].compacts + 1
    BY <1>2, <1>5, <1>q
  <1>7. Moves(r)
    <2> DEFINE more == 1  compact == 1  pc == "call"
    <2>1. /\ pc \in Calling /\ more \in {0, 1} /\ compact \in {0, 1}
          /\ more # 0 /\ (compact = 1 => more = 1) /\ (more = 1 => pc = "call")
      BY DEF Calling
    <2>2. /\ request'[r].at = request[r].at /\ request'[r].pc = pc
          /\ request'[r].calls = request[r].calls + 1
          /\ request'[r].try = request[r].try + more
          /\ request'[r].compacts = request[r].compacts + compact
      BY <1>6
    <2> HIDE DEF more, compact, pc
    <2> QED BY <1>3, <1>5, <2>1, <2>2, PoolGoesOn
  <1> QED BY <1>6, <1>7, ExchangeIsFine

LEMMA StartIsFine ==
  ASSUME PoolInv, NEW r \in Requests, Pool!Start(r)
  PROVE  Fine
  <1> DEFINE passed == { a \in Names : cooldown[a] = "over" }
             new == [Pool!Routing EXCEPT !.left = Pool!Rotated(cursor), !.passed = passed]
  <1>1. /\ request' = [request EXCEPT ![r] = new] /\ cursor' = (cursor + 1) % Len(Accounts)
        /\ UNCHANGED <<cooldown, recent>>
    BY DEF Pool!Start, Names
  <1>2. new \in Exchanges
    BY RotationsAreAccounts, RoutingIsSound DEF PoolInv
  <1>3. new.at = NoAccount
    BY DEF Pool!Routing
  <1>4. cursor' \in 0..Len(Accounts) - 1
    <2>1. Len(Accounts) \in Nat /\ Len(Accounts) > 0
      BY LenProperties, EmptySeq
    <2> QED BY <1>1, <2>1 DEF PoolInv
  <1> HIDE DEF new
  <1>5. Moves(r) /\ request'[r] = new
    BY <1>1, <1>2, PoolMove
  <1> QED BY <1>1, <1>3, <1>4, <1>5, OtherStepsAreFine DEF PoolInv, Moves, Others

LEMMA RouteIsFine ==
  ASSUME PoolInv, NEW r \in Requests, Pool!Route(r)
  PROVE  Fine
  <1> DEFINE a == Head(request[r].left)
             next == [request[r] EXCEPT !.left = Tail(request[r].left),
                                        !.passed = request[r].passed \ {a}]
             here == [next EXCEPT !.pc = "call", !.at = a, !.try = 1]
  <1>1. /\ request[r].pc = "route" /\ request[r].left # << >> /\ UNCHANGED <<cursor, recent>>
        /\ \/ /\ Pool!Eligible(r, a) /\ request' = [request EXCEPT ![r] = here]
              /\ cooldown' = [cooldown EXCEPT ![a] = "none"]
           \/ request' = [request EXCEPT ![r] = next] /\ UNCHANGED cooldown
    BY DEF Pool!Route, Pool!At
  <1>2. request[r] \in Positions /\ Counted(request[r])
    BY DEF PoolInv, Exchanges
  <1>3. a \in Names /\ Tail(request[r].left) \in Seq(Names)
    BY <1>1, <1>2, HeadTailProperties DEF Positions
  <1>4. request[r].at = NoAccount /\ request[r].calls = 0 /\ request[r].compacts = 0
    BY <1>1, <1>2 DEF Positions, Counted, Calling
  <1>5. /\ next \in Positions /\ next.pc = "route" /\ next.at = NoAccount
        /\ next.calls = 0 /\ next.compacts = 0
    BY <1>1, <1>2, <1>3, <1>4 DEF Positions
  <1>6. next \in Exchanges
    BY <1>5 DEF Exchanges, Counted, Calling
  <1>7. CASE request' = [request EXCEPT ![r] = next] /\ UNCHANGED cooldown
    <2>1. Moves(r) /\ request'[r] = next
      BY <1>6, <1>7, PoolMove
    <2> HIDE DEF next
    <2> QED BY <1>1, <1>5, <1>7, <2>1, OtherStepsAreFine DEF PoolInv, Moves, Others
  <1>8. CASE /\ Pool!Eligible(r, a) /\ request' = [request EXCEPT ![r] = here]
             /\ cooldown' = [cooldown EXCEPT ![a] = "none"]
    <2>1. cooldown[a] # "running"
      BY <1>8 DEF Pool!Eligible
    <2>2. 1 \in 0..MaximumRetries + 1
      OBVIOUS
    <2>3. here \in Positions /\ here.at = a /\ here.pc = "call" /\ here.try = 1
          /\ here.calls = 0 /\ here.compacts = 0
      BY <1>3, <1>5, <2>2 DEF Positions, Calling
    <2>4. here \in Exchanges
      <3>1. a # NoAccount
        BY <1>3 DEF Names
      <3> HIDE DEF here
      <3> QED BY <2>3, <3>1 DEF Exchanges, Counted, Calling
    <2> HIDE DEF next, here
    <2>5. Moves(r) /\ request'[r] = here
      BY <1>8, <2>4, PoolMove
    <2>6. cooldown' \in Cooldowns /\ \A b \in Names : cooldown'[b] # cooldown[b] => b = a
      BY <1>3, <1>8 DEF PoolInv, Cooldowns
    <2> QED BY <1>1, <2>1, <2>3, <2>5, <2>6, OtherStepsAreFine DEF PoolInv, Moves, Others
  <1> QED BY <1>1, <1>7, <1>8

LEMMA CallIsFine ==
  ASSUME PoolInv, NEW r \in Requests, Pool!Call(r)
  PROVE  Fine
  <1> DEFINE a == request[r].at
  <1>1. request[r].pc = "call" /\ UNCHANGED cursor
    BY DEF Pool!Call, Pool!At
  <1>2. request[r].pc \in Calling /\ a \in Names
    BY <1>1, CallerIsThere DEF Calling
  <1>3. \/ Pool!Healthy(a) /\ Pool!Finish(r)
        \/ Pool!Refused(a) /\ Pool!NextAccount(r)
        \/ Pool!Refused(a) /\ Pool!Finish(r)
        \/ Pool!Again(r)
        \/ Pool!Failed(a) /\ Pool!NextAccount(r)
        \/ Pool!Failed(a) /\ Pool!Finish(r)
        \/ \E pc \in {"compact", "correct"} :
             /\ request' = [Pool!Called(r) EXCEPT ![r].pc = pc]
             /\ UNCHANGED <<cooldown, recent>>
    BY DEF Pool!Call
  <1> QED BY <1>1, <1>2, <1>3, AnswerIsFine, AgainIsFine, SecondCallIsFine

LEMMA CompactRetryIsFine ==
  ASSUME PoolInv, NEW r \in Requests, Pool!CompactRetry(r)
  PROVE  Fine
  <1> DEFINE a == request[r].at
  <1>1. request[r].pc = "compact" /\ UNCHANGED cursor
    BY DEF Pool!CompactRetry, Pool!At
  <1>2. a \in Names
    BY <1>1, CallerIsThere DEF Calling
  <1>3. \/ Pool!Healthy(a) /\ Pool!Finish(r)
        \/ Pool!Refused(a) /\ Pool!NextAccount(r)
        \/ Pool!Failed(a) /\ Pool!NextAccount(r)
        \/ /\ Pool!Retryable(r)
           /\ request' = [Pool!Called(r) EXCEPT ![r].pc = "call", ![r].try = @ + 1,
                                                ![r].compacts = @ + 1]
           /\ UNCHANGED <<cooldown, recent>>
    BY DEF Pool!CompactRetry
  <1> QED BY <1>1, <1>2, <1>3, AnswerIsFine, CompactAgainIsFine

LEMMA CorrectIsFine ==
  ASSUME PoolInv, NEW r \in Requests, Pool!Correct(r)
  PROVE  Fine
  <1> DEFINE a == request[r].at
  <1>1. request[r].pc = "correct" /\ UNCHANGED cursor
    BY DEF Pool!Correct, Pool!At
  <1>2. request[r].pc \in Calling /\ a \in Names
    BY <1>1, CallerIsThere DEF Calling
  <1>3. \/ Pool!Healthy(a) /\ Pool!Finish(r)
        \/ Pool!Refused(a) /\ Pool!Finish(r)
        \/ Pool!Failed(a) /\ Pool!Finish(r)
        \/ Pool!Again(r)
    BY DEF Pool!Correct
  <1> QED BY <1>1, <1>2, <1>3, AnswerIsFine, AgainIsFine

(* The steps that leave the requests where they are.                        *)
LEMMA AccountStepsAreFine ==
  ASSUME PoolInv,
         \/ \E a \in Names : Pool!Elapse(a) \/ Pool!Forget(a)
         \/ Pool!Metadata
         \/ UNCHANGED poolVars
  PROVE  Fine
  <1>1. ASSUME NEW a \in Names, Pool!Elapse(a) PROVE Fine
    BY <1>1, OtherStepsAreFine DEF Pool!Elapse, PoolInv, Cooldowns
  <1>2. ASSUME NEW a \in Names, Pool!Forget(a) PROVE Fine
    <2>1. recent' \in [Names -> 0..Threshold - 1]
      BY <1>2 DEF Pool!Forget, PoolInv
    <2> QED BY <1>2, <2>1, OtherStepsAreFine DEF Pool!Forget, PoolInv, Cooldowns
  <1>3. ASSUME Pool!Metadata PROVE Fine
    <2>1. cooldown' \in Cooldowns
          /\ \A a \in Names : cooldown'[a] # cooldown[a] => cooldown[a] = "over"
      BY <1>3 DEF Pool!Metadata, PoolInv, Cooldowns, Names
    <2> QED BY <1>3, <2>1, OtherStepsAreFine DEF Pool!Metadata, PoolInv
  <1>4. ASSUME UNCHANGED poolVars PROVE Fine
    BY <1>4, OtherStepsAreFine DEF poolVars, PoolInv
  <1> QED BY <1>1, <1>2, <1>3, <1>4

LEMMA PoolStarts == Init => PoolInv
  <1> SUFFICES ASSUME Init PROVE PoolInv
    OBVIOUS
  <1>1. Len(Accounts) \in Nat /\ Len(Accounts) > 0
    BY LenProperties, EmptySeq
  <1>2. /\ cursor = 0 /\ cooldown = [a \in Names |-> "none"] /\ recent = [a \in Names |-> 0]
        /\ request = [r \in Requests |-> Pool!Ended]
    BY DEF Init, Pool!Init, Names
  <1> QED BY <1>1, <1>2, EndedIsSound DEF PoolInv, Cooldowns

LEMMA PoolStepsAreFine == PoolInv /\ [Next]_vars => Fine
  <1> SUFFICES ASSUME PoolInv, [Next]_vars PROVE Fine
    OBVIOUS
  <1>1. ASSUME NEW r \in Requests, Pool!Exhaust(r) PROVE Fine
    <2>1. request' = [request EXCEPT ![r] = Pool!Ended] /\ UNCHANGED <<cursor, cooldown, recent>>
      BY <1>1 DEF Pool!Exhaust
    <2>2. Moves(r) /\ request'[r] = Pool!Ended
      BY <2>1, EndedIsSound, PoolMove
    <2>3. Pool!Ended.at = NoAccount
      BY DEF Pool!Ended, Pool!Routing
    <2> QED BY <2>1, <2>2, <2>3, OtherStepsAreFine DEF PoolInv, Moves, Others
  <1> QED BY <1>1, PoolSteps, StartIsFine, RouteIsFine, CallIsFine, CompactRetryIsFine,
             CorrectIsFine, AccountStepsAreFine DEF Pool!Next, Pool!Work, Names

-----------------------------------------------------------------------------
(* The HTTP calls of an analysis at one account are at most two for each    *)
(* attempt, and its compact retries one (provider.py:2087).                 *)
THEOREM CallsAreBounded == Spec => []CallsBounded
  <1>1. PoolInv => CallsBounded
    <2> SUFFICES ASSUME PoolInv, NEW r \in Requests, request[r].at # NoAccount
                 PROVE  /\ request[r].calls + 1 <= 2 * (MaximumRetries + 1)
                        /\ Pool!Compacts(r) <= MaximumRetries + 1
      BY DEF CallsBounded, Pool!CallsBounded
    <2>1. request[r] \in Positions /\ Counted(request[r])
      BY DEF PoolInv, Exchanges
    <2>2. /\ request[r].try \in 0..MaximumRetries + 1 /\ request[r].try >= 1
          /\ request[r].calls \in Nat /\ request[r].compacts \in Nat
          /\ request[r].calls <= 2 * (request[r].try - 1) + IF request[r].pc = "call" THEN 0 ELSE 1
          /\ request[r].compacts <= request[r].try - 1
      BY <2>1 DEF Counted, Positions
    <2>3. request[r].calls <= 2 * (request[r].try - 1) + 1 /\ request[r].try <= MaximumRetries + 1
      BY <2>2
    <2>4. request[r].calls + 1 <= 2 * (MaximumRetries + 1)
      BY <2>2, <2>3
    <2>5. Pool!Compacts(r) <= MaximumRetries + 1
      BY <2>2, <2>3 DEF Pool!Compacts, Pool!At
    <2> QED BY <2>4, <2>5
  <1>2. PoolInv /\ [Next]_vars => PoolInv'
    BY PoolStepsAreFine DEF Fine
  <1> QED BY <1>1, <1>2, PoolStarts, PTL DEF Spec

(* A running cooldown keeps every other request away from the account, and  *)
(* only time or the answer to a request that was there when it began ends   *)
(* it (provider.py:2116, :2158, :2279).                                     *)
THEOREM CooldownsAreKept == Spec => CooldownKept
  <1>1. PoolInv /\ [Next]_vars => Kept
    BY PoolStepsAreFine DEF Fine
  <1>2. PoolInv /\ [Next]_vars => PoolInv'
    BY PoolStepsAreFine DEF Fine
  <1>3. Kept => [\A a \in Pool!Names : cooldown[a] = "running" =>
                   /\ \A r \in Requests : Pool!On(r, a)' => Pool!On(r, a)
                   /\ cooldown'[a] = "none" =>
                        \E r \in Requests : Pool!On(r, a) /\ ~Pool!On(r, a)']_(Pool!vars)
    BY DEF Kept, Names
  <1> QED BY <1>1, <1>2, <1>3, PoolStarts, PTL DEF Spec, CooldownKept, Pool!CooldownKept

-----------------------------------------------------------------------------
(* All five components keep their types: among what that says, the queue of *)
(* the bus holds every waiter once and its capacity is never exceeded, an   *)
(* eligible decision has a direction, and every stored economic event has a *)
(* revision and an observation.                                             *)
THEOREM TypeCorrect == Spec => []TypeOK
  <1>1. FeedInv => Feed!TypeOK
    BY DEF FeedInv
  <1>2. PoolInv => Pool!TypeOK
    BY DEF PoolInv, Pool!TypeOK, Exchanges, Positions, Counted, Cooldowns, Names, Calling
  <1>3. Spec => []FeedInv
    BY FeedStarts, FeedKeeps, PTL DEF Spec
  <1>4. Spec => []PoolInv
    <2>1. PoolInv /\ [Next]_vars => PoolInv'
      BY PoolStepsAreFine DEF Fine
    <2> QED BY <2>1, PoolStarts, PTL DEF Spec
  <1>5. Feed!TypeOK /\ Pool!TypeOK /\ Bus!TypeOK /\ Gate!TypeOK /\ Cal!TypeOK => TypeOK
    BY DEF TypeOK
  <1> QED BY <1>1, <1>2, <1>3, <1>4, <1>5, BusIsTyped, GateIsTyped, CalIsTyped, PTL
=============================================================================
