------------------------- MODULE EmailOutboxProofs -------------------------
(***************************************************************************)
(* Proofs about EmailOutbox, for any number of e-mails, workers, attempts  *)
(* and faults.                                                             *)
(***************************************************************************)
EXTENDS EmailOutbox, FiniteSetTheorems, FunctionTheorems, SequenceTheorems,
        WellFoundedInduction, TLAPS

USE EventsAssumption, WorkersAssumption, BoundsAssumption

(* TypeOK without its count of rows, which Rows implies. *)
Parcels == [event : Events, attempt : Nat \ {0}]
Types ==
  /\ enqueued \subseteq Events
  /\ created \in Seq(Events)
  /\ status \in [Events -> Statuses]
  /\ attempts \in [Events -> Nat]
  /\ due \in [Events -> BOOLEAN] /\ stale \in [Events -> BOOLEAN]
  /\ batch \in [Workers -> Seq(Parcels)]
  /\ pc \in [Workers -> {"poll", "send", "sent", "failed"}]
  /\ sent \in [Events -> Nat] /\ tries \in [Events -> Nat]
  /\ used \in [Faults -> Nat]

(* An e-mail has one row at most. *)
Rows ==
  /\ \A i, j \in 1..Len(created) : created[i] = created[j] => i = j
  /\ \A e \in Events : status[e] # "none" <=> \E i \in 1..Len(created) : created[i] = e

(* What a worker holds: each row once, and none before it is asked for. *)
First(w) == batch[w][1].event
In(e, w) == \E i \in 1..Len(batch[w]) : batch[w][i].event = e
Batches ==
  \A w \in Workers :
    /\ pc[w] = "poll" <=> batch[w] = << >>
    /\ \A i, j \in 1..Len(batch[w]) : batch[w][i].event = batch[w][j].event => i = j
    /\ \A e \in Events : In(e, w) => status[e] # "none"

(* An e-mail that is about to be marked SENT was accepted. *)
Accepted == \A w \in Workers : pc[w] = "sent" => sent[First(w)] > 0

(* An e-mail may be sent again by every worker that has not seen it         *)
(* accepted, and once more if its row may be claimed.                       *)
Sending(w, e) == In(e, w) /\ (pc[w] = "sent" => First(w) # e)
Senders(e) == { w \in Workers : Sending(w, e) }
Free(e) ==
  \/ status[e] \in {"none", "PENDING", "FAILED"}
  \/ status[e] = "PROCESSING" /\ (stale[e] \/ \A w \in Workers : ~In(e, w))
Cost(e) == sent[e] + Cardinality(Senders(e)) + (IF Free(e) THEN 1 ELSE 0)
Budget == \A e \in Events : Cost(e) <= 1 + FaultsSoFar

GivenUp == \A e \in Events : status[e] = "PERMANENTLY_FAILED" => attempts[e] >= MaxAttempts

(* Without faults: whoever holds a row is alone, and its claim is the last. *)
Alone(e) ==
  /\ \A w, v \in Workers : In(e, w) /\ In(e, v) => w = v
  /\ \A w \in Workers : In(e, w) =>
       /\ status[e] = "PROCESSING" /\ attempts[e] <= MaxAttempts
       /\ \A i \in 1..Len(batch[w]) : batch[w][i].event = e => batch[w][i].attempt = attempts[e]
       /\ tries[e] <= attempts[e] /\ (First(w) # e \/ pc[w] = "send" => tries[e] < attempts[e])
       /\ First(w) # e \/ pc[w] # "sent" => sent[e] = 0
  /\ status[e] = "PROCESSING" => ~stale[e] /\ \E w \in Workers : In(e, w)
  /\ status[e] \in {"none", "PENDING", "FAILED"} =>
       tries[e] <= attempts[e] /\ attempts[e] < MaxAttempts /\ sent[e] = 0
  /\ status[e] = "none" => attempts[e] = 0
  /\ status[e] \in Final => tries[e] <= MaxAttempts
  /\ status[e] = "PERMANENTLY_FAILED" => sent[e] = 0
Undisturbed == FaultsSoFar = 0 => \A e \in Events : Alone(e)

IInv == Types /\ Rows /\ Batches /\ Accepted /\ Budget /\ GivenUp /\ Undisturbed

-----------------------------------------------------------------------------
(* The count of rows.                                                       *)

LEMMA OneRow == Types /\ Rows => TypeOK
<1> SUFFICES ASSUME Types, Rows PROVE TypeOK
  OBVIOUS
<1>1. ASSUME NEW e \in Events
      PROVE  Cardinality({ i \in 1..Len(created) : created[i] = e })
               = IF status[e] = "none" THEN 0 ELSE 1
  <2> DEFINE S == { i \in 1..Len(created) : created[i] = e }
  <2>1. CASE status[e] = "none"
    <3>1. S = {}
      BY <2>1 DEF Rows
    <3> QED  BY <2>1, <3>1, FS_EmptySet
  <2>2. CASE status[e] # "none"
    <3>1. PICK i \in 1..Len(created) : created[i] = e
      BY <2>2 DEF Rows
    <3>2. S = {i}
      BY <3>1 DEF Rows
    <3> QED  BY <2>2, <3>2, FS_Singleton
  <2> QED  BY <2>1, <2>2
<1> QED  BY <1>1 DEF Types, TypeOK, Parcels

-----------------------------------------------------------------------------
(* What the steps do to a batch.                                            *)

Taken == { created[i] : i \in Oldest }

(* A nonempty set of numbers has a least one. *)
LEMMA NatLeast ==
  ASSUME NEW S \in SUBSET Nat, S # {}
  PROVE  \E n \in S : \A m \in S : n <= m
<1>1. PICK n \in S : \A m \in S : ~ (<<m, n>> \in OpToRel(<, Nat))
  BY NatLessThanWellFounded, WFMin
<1>2. \A m \in S : ~ (m < n)
  BY <1>1 DEF OpToRel
<1> QED  BY <1>2

LEMMA ReadyFinite ==
  ASSUME Types
  PROVE  /\ IsFiniteSet(Oldest) /\ Cardinality(Oldest) \in Nat
         /\ Oldest \subseteq 1..Len(created) /\ Oldest \subseteq Nat
<1>1. Len(created) \in Nat /\ IsFiniteSet(1..Len(created))
  BY FS_Interval DEF Types
<1>2. Oldest \subseteq 1..Len(created)
  BY DEF Oldest, Ready
<1>3. Oldest \subseteq Nat
  BY <1>1, <1>2
<1> QED  BY <1>1, <1>2, <1>3, FS_Subset, FS_CardinalityType

(* A claim takes some claimable rows, each of them once, and counts it.     *)
LEMMA ClaimStep ==
  ASSUME Types, Rows, NEW w \in Workers, Claim(w)
  PROVE  /\ Taken \subseteq { e \in Events : Claimable(e) }
         /\ batch' \in [Workers -> Seq(Parcels)]
         /\ \A v \in Workers \ {w} : batch'[v] = batch[v]
         /\ batch'[w] # << >>
         /\ \A i \in 1..Len(batch'[w]) :
              /\ batch'[w][i].event \in Taken
              /\ batch'[w][i].attempt = attempts[batch'[w][i].event] + 1
         /\ \A i, j \in 1..Len(batch'[w]) : batch'[w][i].event = batch'[w][j].event => i = j
         /\ \A e \in Taken : In(e, w)'
<1> DEFINE n == Cardinality(Oldest)
<1>1. /\ n \in Nat /\ IsFiniteSet(Oldest)
      /\ Oldest \subseteq 1..Len(created) /\ \A i \in Oldest : i \in Int
  BY ReadyFinite
<1> HIDE DEF n
<1>2. Taken \subseteq { e \in Events : Claimable(e) }
  <2>1. \A i \in Oldest : created[i] \in Events
    BY <1>1, ElementOfSeq DEF Types
  <2> QED  BY <2>1 DEF Taken, Oldest, Ready
<1>3. PICK place \in [1..n -> Oldest] :
        /\ \A i, j \in 1..n : i < j => place[i] < place[j]
        /\ batch' = [batch EXCEPT ![w] =
             [i \in 1..n |-> [event |-> created[place[i]],
                             attempt |-> attempts[created[place[i]]] + 1]]]
  BY DEF Claim, n
<1> DEFINE mine == [i \in 1..n |-> [event |-> created[place[i]],
                                   attempt |-> attempts[created[place[i]]] + 1]]
<1>4. \A i \in 1..n : /\ created[place[i]] \in Taken
                      /\ created[place[i]] \in Events
                      /\ attempts[created[place[i]]] \in Nat
  BY <1>2 DEF Taken, Types
<1>5. mine \in Seq(Parcels)
  <2>1. mine \in [1..n -> Parcels]
    BY <1>4 DEF Parcels
  <2> HIDE DEF mine
  <2> QED  BY <1>1, <2>1, SeqDef
<1>6. Len(mine) = n
  BY <1>1, <1>5, LenProperties
<1>7. \A i, j \in 1..n : place[i] = place[j] => i = j
  <2> SUFFICES ASSUME NEW i \in 1..n, NEW j \in 1..n, place[i] = place[j] PROVE i = j
    OBVIOUS
  <2>1. i \in Int /\ j \in Int
    OBVIOUS
  <2>2. place[i] \in Oldest /\ place[j] \in Oldest
    BY <1>3
  <2>3. place[i] \in Int /\ place[j] \in Int
    BY <1>1, <2>2
  <2> QED  BY <1>3, <2>1, <2>3
<1>8. \A i \in Oldest : \E k \in 1..n : place[k] = i
  <2>1. place \in Injection(1..n, Oldest)
    BY <1>7, Fun_IsInj
  <2>2. Cardinality(1..n) = n
    BY <1>1, FS_Interval
  <2>3. place \in Surjection(1..n, Oldest)
    BY <1>1, <2>1, <2>2, FS_Injection DEF n
  <2> QED  BY <2>3 DEF Surjection
<1>9. n # 0
  <2>1. Ready # {} /\ Ready \subseteq 1..Len(created) /\ Len(created) \in Nat
    BY DEF Claim, Ready, Types
  <2>2. PICK first \in Ready : \A j \in Ready : first <= j
    <3>1. Ready \subseteq Nat /\ Ready # {}
      BY <2>1
    <3> QED  BY <3>1, NatLeast
  <2>3. { j \in Ready : j <= first } = {first}
    <3>1. \A j \in Ready : j \in Nat /\ first \in Nat
      BY <2>1
    <3> QED  BY <3>1, <2>2
  <2>4. first \in Oldest
    <3>1. Cardinality({ j \in Ready : j <= first }) = 1
      BY <2>3, FS_Singleton
    <3> QED  BY <3>1 DEF Oldest
  <2> QED  BY <1>1, <2>4, FS_EmptySet DEF n
<1> QED
  <2>1. batch'[w] = mine /\ batch' \in [Workers -> Seq(Parcels)]
    BY <1>3, <1>5 DEF Types
  <2>2. \A v \in Workers \ {w} : batch'[v] = batch[v]
    BY <1>3 DEF Types
  <2>3. mine # << >>
    BY <1>1, <1>6, <1>9, EmptySeq
  <2>4. \A i, j \in 1..n : mine[i].event = mine[j].event => i = j
    <3> SUFFICES ASSUME NEW i \in 1..n, NEW j \in 1..n, mine[i].event = mine[j].event
                 PROVE  i = j
      OBVIOUS
    <3>1. place[i] \in 1..Len(created) /\ place[j] \in 1..Len(created)
      BY <1>1, <1>3
    <3>2. created[place[i]] = created[place[j]]
      OBVIOUS
    <3> QED  BY <1>7, <3>1, <3>2 DEF Rows
  <2>5. \A e \in Taken : \E i \in 1..n : mine[i].event = e
    BY <1>8 DEF Taken
  <2> HIDE DEF mine
  <2>6. \A e \in Taken : In(e, w)'
    BY <1>6, <2>1, <2>5 DEF In
  <2>7. \A i \in 1..n : mine[i].event \in Taken /\ mine[i].attempt = attempts[mine[i].event] + 1
    BY <1>4 DEF mine
  <2> QED  BY <1>2, <1>6, <2>1, <2>2, <2>3, <2>4, <2>6, <2>7

(* The next parcel of a batch. *)
LEMMA NextStep ==
  ASSUME Types, NEW w \in Workers, batch[w] # << >>, NextEvent(w)
  PROVE  /\ batch[w][1] \in Parcels /\ Len(batch[w]) \in Nat \ {0}
         /\ batch' \in [Workers -> Seq(Parcels)]
         /\ \A v \in Workers \ {w} : batch'[v] = batch[v] /\ pc'[v] = pc[v]
         /\ Len(batch'[w]) = Len(batch[w]) - 1
         /\ \A i \in 1..Len(batch'[w]) : batch'[w][i] = batch[w][i + 1]
         /\ pc'[w] \in {"poll", "send"} /\ (pc'[w] = "poll" <=> batch'[w] = << >>)
         /\ pc' \in [Workers -> {"poll", "send", "sent", "failed"}]
<1>1. batch[w] \in Seq(Parcels)
  BY DEF Types
<1>2. /\ batch[w][1] \in Parcels /\ Len(batch[w]) \in Nat \ {0}
      /\ Tail(batch[w]) \in Seq(Parcels) /\ Len(Tail(batch[w])) = Len(batch[w]) - 1
      /\ \A i \in 1..Len(Tail(batch[w])) : Tail(batch[w])[i] = batch[w][i + 1]
  <2>1. Len(batch[w]) \in Nat \ {0}
    BY <1>1, EmptySeq
  <2>2. batch[w][1] \in Parcels
    BY <1>1, <2>1, ElementOfSeq
  <2> QED  BY <1>1, <2>1, <2>2, HeadTailProperties
<1>3. batch'[w] = Tail(batch[w]) /\ batch' \in [Workers -> Seq(Parcels)]
  BY <1>2 DEF Types, NextEvent
<1>4. /\ \A v \in Workers \ {w} : batch'[v] = batch[v] /\ pc'[v] = pc[v]
      /\ pc' \in [Workers -> {"poll", "send", "sent", "failed"}]
      /\ pc'[w] = IF Len(batch[w]) = 1 THEN "poll" ELSE "send"
  BY DEF Types, NextEvent
<1>5. batch'[w] = << >> <=> Len(batch[w]) = 1
  <2>1. Tail(batch[w]) = << >> <=> Len(Tail(batch[w])) = 0
    BY <1>2, EmptySeq
  <2> QED  BY <1>2, <1>3, <2>1
<1> QED  BY <1>2, <1>3, <1>4, <1>5

LEMMA FaultsNat == Types => FaultsSoFar \in Nat
  BY DEF Types, FaultsSoFar, Faults

(* A fault is counted. *)
LEMMA SpendStep ==
  ASSUME Types, NEW fault \in Faults, Spend(fault)
  PROVE  used' \in [Faults -> Nat] /\ FaultsSoFar' = FaultsSoFar + 1 /\ FaultsSoFar \in Nat
<1>1. /\ used["crashes"] \in Nat /\ used["stalls"] \in Nat
      /\ used["lostReplies"] \in Nat /\ used["dbErrors"] \in Nat
  BY DEF Types, Faults
<1>2. used' = [used EXCEPT ![fault] = used[fault] + 1] /\ used' \in [Faults -> Nat]
  BY DEF Types, Spend
<1>3. \A f \in Faults : used'[f] = IF f = fault THEN used[f] + 1 ELSE used[f]
  BY <1>2 DEF Types
<1>4. CASE fault = "crashes"
  BY <1>1, <1>2, <1>3, <1>4 DEF Faults, FaultsSoFar
<1>5. CASE fault = "stalls"
  BY <1>1, <1>2, <1>3, <1>5 DEF Faults, FaultsSoFar
<1>6. CASE fault = "lostReplies"
  BY <1>1, <1>2, <1>3, <1>6 DEF Faults, FaultsSoFar
<1>7. CASE fault = "dbErrors"
  BY <1>1, <1>2, <1>3, <1>7 DEF Faults, FaultsSoFar
<1> QED  BY <1>4, <1>5, <1>6, <1>7 DEF Faults

(* The parcel a worker is busy with. *)
LEMMA Current ==
  ASSUME Types, Batches, NEW w \in Workers, pc[w] # "poll"
  PROVE  /\ batch[w] # << >> /\ Head(batch[w]) = batch[w][1]
         /\ batch[w][1] \in Parcels
         /\ batch[w][1].event \in Events /\ batch[w][1].attempt \in Nat \ {0}
         /\ Len(batch[w]) \in Nat /\ 1 \in 1..Len(batch[w])
<1>1. batch[w] \in Seq(Parcels) /\ batch[w] # << >>
  BY DEF Types, Batches
<1>2. Len(batch[w]) \in Nat \ {0}
  BY <1>1, EmptySeq
<1>3. batch[w][1] \in Parcels
  BY <1>1, <1>2, ElementOfSeq
<1>4. Head(batch[w]) = batch[w][1]
  BY <1>1, <1>2
<1> QED  BY <1>1, <1>2, <1>3, <1>4 DEF Parcels

(* Marking changes the row of the first parcel, if that is PROCESSING. *)
LEMMA MarkedRow ==
  ASSUME Types, Batches, NEW w \in Workers, MarkSent(w) \/ MarkFailed(w)
  PROVE  /\ created' = created /\ First(w) \in Events
         /\ \A e \in Events : e # First(w) \/ status[e] # "PROCESSING" =>
              status'[e] = status[e] /\ attempts'[e] = attempts[e] /\ stale'[e] = stale[e]
         /\ status[First(w)] = "PROCESSING" =>
              status'[First(w)] \in {"SENT", "PERMANENTLY_FAILED", "FAILED"}
<1> DEFINE e == First(w)
<1>1. e \in Events /\ Head(batch[w]).event = e
  BY Current DEF MarkSent, MarkFailed, First
<1> HIDE DEF e
<1>2. /\ status \in [Events -> Statuses] /\ attempts \in [Events -> Nat]
      /\ stale \in [Events -> BOOLEAN]
  BY DEF Types
<1>3. CASE ~Markable(e)
  <2>1. UNCHANGED <<created, attempts, stale>> /\ \A f \in Events : status'[f] = status[f]
    BY <1>1, <1>2, <1>3 DEF MarkSent, MarkFailed, rows
  <2> QED  BY <1>1, <1>3, <2>1 DEF Markable, e
<1>4. CASE MarkSent(w) /\ Markable(e)
  <2>1. UNCHANGED <<created, attempts, stale>> /\ status' = [status EXCEPT ![e] = "SENT"]
    BY <1>1, <1>4 DEF MarkSent
  <2> QED  BY <1>1, <1>2, <1>4, <2>1 DEF Markable, e
<1>5. CASE MarkFailed(w) /\ Markable(e)
  <2> DEFINE failed == IF Terminal(Head(batch[w]).attempt) THEN "PERMANENTLY_FAILED" ELSE "FAILED"
  <2>1. failed \in {"PERMANENTLY_FAILED", "FAILED"}
    OBVIOUS
  <2>2. /\ created' = created /\ status' = [status EXCEPT ![e] = failed]
        /\ \A f \in Events \ {e} : attempts'[f] = attempts[f] /\ stale'[f] = stale[f]
    BY <1>1, <1>2, <1>5 DEF MarkFailed
  <2> HIDE DEF failed
  <2> QED  BY <1>1, <1>2, <1>5, <2>1, <2>2 DEF Markable, e
<1> QED  BY <1>3, <1>4, <1>5

(* One more row, for an e-mail that has none. *)
LEMMA EnqueueStep ==
  ASSUME Types, Rows, NEW e \in Events, Enqueue(e)
  PROVE  /\ created' \in Seq(Events) /\ status' \in [Events -> Statuses]
         /\ attempts' \in [Events -> Nat] /\ due' \in [Events -> BOOLEAN] /\ stale' = stale
         /\ \A f \in Events \ {e} : status'[f] = status[f] /\ attempts'[f] = attempts[f]
         /\ status[e] # "none" => status' = status /\ attempts' = attempts
         /\ status[e] = "none" => status'[e] = "PENDING" /\ attempts'[e] = 0
         /\ Rows'
<1>1. CASE status[e] = "none"
  <2>1. /\ created' = Append(created, e)
        /\ status' = [status EXCEPT ![e] = "PENDING"]
        /\ attempts' = [attempts EXCEPT ![e] = 0] /\ due' = [due EXCEPT ![e] = TRUE]
        /\ stale' = stale
    BY <1>1 DEF Enqueue, Missing
  <2>2. /\ created' \in Seq(Events) /\ Len(created) \in Nat /\ Len(created') = Len(created) + 1
        /\ \A i \in 1..Len(created) : created'[i] = created[i]
        /\ created'[Len(created) + 1] = e
    BY <2>1, AppendProperties, LenProperties DEF Types
  <2>3. Rows'
    <3>1. \A i \in 1..Len(created) : created[i] # e
      BY <1>1 DEF Rows
    <3>2. \A i \in 1..Len(created') : i = Len(created) + 1 \/ i \in 1..Len(created)
      BY <2>2
    <3>3. \A i, j \in 1..Len(created') : created'[i] = created'[j] => i = j
      BY <2>2, <3>1, <3>2 DEF Rows
    <3>4. ASSUME NEW f \in Events
          PROVE  status'[f] # "none" <=> \E i \in 1..Len(created') : created'[i] = f
      <4>1. CASE f = e
        <5>1. Len(created) + 1 \in 1..Len(created')
          BY <2>2
        <5> QED  BY <2>1, <2>2, <4>1, <5>1 DEF Types
      <4>2. CASE f # e
        <5>1. status'[f] = status[f]
          BY <2>1, <4>2 DEF Types
        <5>2. (\E i \in 1..Len(created') : created'[i] = f)
                <=> (\E i \in 1..Len(created) : created[i] = f)
          BY <2>2, <3>2, <4>2
        <5> QED  BY <5>1, <5>2 DEF Rows
      <4> QED  BY <4>1, <4>2
    <3> QED  BY <3>3, <3>4 DEF Rows
  <2> QED  BY <1>1, <2>1, <2>2, <2>3 DEF Types, Statuses
<1>2. CASE status[e] # "none"
  <2>1. UNCHANGED rows
    BY <1>2 DEF Enqueue, Missing
  <2> QED  BY <1>2, <2>1 DEF rows, Types, Rows
<1> QED  BY <1>1, <1>2

(* One more try, which the server may accept; a reply that gets lost is a fault. *)
LEMMA SendStep ==
  ASSUME Types, Batches, NEW w \in Workers, Send(w)
  PROVE  \E e \in Events :
           /\ e = batch[w][1].event /\ pc[w] = "send"
           /\ sent' \in [Events -> Nat] /\ tries' \in [Events -> Nat]
           /\ used' \in [Faults -> Nat] /\ FaultsSoFar \in Nat
           /\ pc' \in [Workers -> {"poll", "send", "sent", "failed"}]
           /\ \A v \in Workers \ {w} : pc'[v] = pc[v]
           /\ tries'[e] = tries[e] + 1
           /\ \A f \in Events \ {e} : tries'[f] = tries[f] /\ sent'[f] = sent[f]
           /\ \/ pc'[w] = "sent" /\ sent'[e] = sent[e] + 1 /\ FaultsSoFar' = FaultsSoFar
              \/ pc'[w] = "failed" /\ sent'[e] = sent[e] /\ FaultsSoFar' = FaultsSoFar
              \/ pc'[w] = "failed" /\ sent'[e] = sent[e] + 1 /\ FaultsSoFar' = FaultsSoFar + 1
           /\ UNCHANGED <<enqueued, created, status, attempts, due, stale, batch>>
<1>1. PICK e \in Events : e = batch[w][1].event /\ e = Head(batch[w]).event /\ pc[w] = "send"
  BY Current DEF Send
<1>2. tries' = [tries EXCEPT ![e] = tries[e] + 1]
  BY <1>1 DEF Send
<1>3. \/ /\ pc' = [pc EXCEPT ![w] = "sent"] /\ sent' = [sent EXCEPT ![e] = sent[e] + 1]
         /\ used' = used
      \/ pc' = [pc EXCEPT ![w] = "failed"] /\ sent' = sent /\ used' = used
      \/ /\ pc' = [pc EXCEPT ![w] = "failed"] /\ sent' = [sent EXCEPT ![e] = sent[e] + 1]
         /\ Spend("lostReplies")
  BY <1>1 DEF Send
<1>4. FaultsSoFar \in Nat /\ (used' = used => FaultsSoFar' = FaultsSoFar)
  <2>1. used' = used => FaultsSoFar' = FaultsSoFar
    BY DEF FaultsSoFar
  <2> QED  BY <2>1, FaultsNat
<1>5. Spend("lostReplies") => used' \in [Faults -> Nat] /\ FaultsSoFar' = FaultsSoFar + 1
  BY SpendStep DEF Faults
<1>6. used' \in [Faults -> Nat] /\ pc' \in [Workers -> {"poll", "send", "sent", "failed"}]
  BY <1>3, <1>5 DEF Types
<1>7. /\ tries' \in [Events -> Nat] /\ tries'[e] = tries[e] + 1
      /\ \A f \in Events \ {e} : tries'[f] = tries[f]
  BY <1>2 DEF Types
<1>8. sent' \in [Events -> Nat] /\ \A f \in Events \ {e} : sent'[f] = sent[f]
  <2>1. sent \in [Events -> Nat] /\ sent[e] + 1 \in Nat
    BY DEF Types
  <2>2. sent' = sent \/ sent' = [sent EXCEPT ![e] = sent[e] + 1]
    BY <1>3
  <2> QED  BY <2>1, <2>2
<1>9. \A v \in Workers \ {w} : pc'[v] = pc[v]
  BY <1>3 DEF Types
<1>10. \/ pc'[w] = "sent" /\ sent'[e] = sent[e] + 1 /\ FaultsSoFar' = FaultsSoFar
       \/ pc'[w] = "failed" /\ sent'[e] = sent[e] /\ FaultsSoFar' = FaultsSoFar
       \/ pc'[w] = "failed" /\ sent'[e] = sent[e] + 1 /\ FaultsSoFar' = FaultsSoFar + 1
  BY <1>3, <1>4, <1>5 DEF Types
<1>11. UNCHANGED <<enqueued, created, status, attempts, due, stale, batch>>
  BY DEF Send, rows
<1> QED  BY <1>1, <1>4, <1>6, <1>7, <1>8, <1>9, <1>10, <1>11

(* Marking: the first parcel leaves the batch, whatever its row said.       *)
LEMMA MarkStep ==
  ASSUME Types, Batches, NEW w \in Workers, pc[w] # "poll", NextEvent(w)
  PROVE  /\ In(First(w), w) /\ \A f : f = First(w) => ~In(f, w)'
         /\ \A f : f # First(w) => (In(f, w)' <=> In(f, w))
         /\ \A f, v : v \in Workers \ {w} => (In(f, v)' <=> In(f, v))
         /\ \A v \in Workers \ {w} : batch'[v] = batch[v] /\ pc'[v] = pc[v]
         /\ pc'[w] \in {"poll", "send"} /\ (pc'[w] = "poll" <=> batch'[w] = << >>)
         /\ Len(batch[w]) \in Nat /\ Len(batch'[w]) = Len(batch[w]) - 1
         /\ \A i \in 1..Len(batch'[w]) :
              i + 1 \in 1..Len(batch[w]) /\ batch'[w][i] = batch[w][i + 1]
<1>1. /\ batch[w] # << >> /\ Len(batch[w]) \in Nat /\ 1 \in 1..Len(batch[w])
  BY Current
<1>2. /\ Len(batch'[w]) = Len(batch[w]) - 1
      /\ \A i \in 1..Len(batch'[w]) : batch'[w][i] = batch[w][i + 1]
      /\ \A v \in Workers \ {w} : batch'[v] = batch[v] /\ pc'[v] = pc[v]
      /\ pc'[w] \in {"poll", "send"} /\ (pc'[w] = "poll" <=> batch'[w] = << >>)
  BY <1>1, NextStep
<1>3. \A i \in 1..Len(batch'[w]) : i + 1 \in 1..Len(batch[w]) /\ i + 1 # 1
  BY <1>1, <1>2
<1>4. \A i \in 1..Len(batch[w]) : i = 1 \/ (i - 1 \in 1..Len(batch'[w]) /\ (i - 1) + 1 = i)
  BY <1>1, <1>2
<1>5. In(First(w), w)
  BY <1>1 DEF In, First
<1>6. \A f : f = First(w) => ~In(f, w)'
  BY <1>1, <1>2, <1>3 DEF In, First, Batches
<1>7. ASSUME NEW f, f # First(w) PROVE In(f, w)' <=> In(f, w)
  <2>1. ASSUME In(f, w)' PROVE In(f, w)
    BY <1>2, <1>3, <2>1 DEF In
  <2>2. ASSUME In(f, w) PROVE In(f, w)'
    <3>1. PICK i \in 1..Len(batch[w]) : batch[w][i].event = f
      BY <2>2 DEF In
    <3>2. i # 1
      BY <1>7, <3>1 DEF First
    <3> QED  BY <1>2, <1>4, <3>1, <3>2 DEF In
  <2> QED  BY <2>1, <2>2
<1>8. \A f, v : v \in Workers \ {w} => (In(f, v)' <=> In(f, v))
  BY <1>2 DEF In
<1> QED  BY <1>1, <1>2, <1>3, <1>5, <1>6, <1>7, <1>8

-----------------------------------------------------------------------------
(* Each part of the invariant in turn.                                      *)

LEMMA TypesStep == Types /\ Rows /\ Batches /\ [Next]_vars => Types'
<1> SUFFICES ASSUME Types, Rows, Batches, [Next]_vars PROVE Types'
  OBVIOUS
<1>1. ASSUME NEW e \in Events, Evaluate(e) PROVE Types'
  BY <1>1, EnqueueStep DEF Evaluate, Types
<1>2. ASSUME NEW e \in Events, RetryDue(e) PROVE Types'
  BY <1>2 DEF RetryDue, Types
<1>3. ASSUME NEW e \in Events, GetStale(e) PROVE Types'
  <2>1. used' \in [Faults -> Nat]
    BY <1>3, SpendStep DEF GetStale, Types, Faults
  <2> QED  BY <1>3, <2>1 DEF GetStale, Types
<1>4. ASSUME NEW w \in Workers, NEW e \in Events, Reconcile(w, e) PROVE Types'
  BY <1>4, EnqueueStep DEF Reconcile, Types
<1>5. ASSUME NEW w \in Workers, Claim(w) PROVE Types'
  <2>1. batch' \in [Workers -> Seq(Parcels)]
    BY <1>5, ClaimStep
  <2> QED  BY <1>5, <2>1 DEF Claim, Types, Statuses
<1>6. ASSUME NEW w \in Workers, Send(w) PROVE Types'
  <2>1. /\ sent' \in [Events -> Nat] /\ tries' \in [Events -> Nat] /\ used' \in [Faults -> Nat]
        /\ pc' \in [Workers -> {"poll", "send", "sent", "failed"}]
    BY <1>6, SendStep
  <2> QED  BY <1>6, <2>1 DEF Send, Types, rows
<1>7. ASSUME NEW w \in Workers, MarkSent(w) PROVE Types'
  <2>1. batch[w] # << >>
    BY <1>7, Current DEF MarkSent
  <2>2. /\ batch' \in [Workers -> Seq(Parcels)]
        /\ pc' \in [Workers -> {"poll", "send", "sent", "failed"}]
    BY <1>7, <2>1, NextStep DEF MarkSent
  <2> QED  BY <1>7, <2>2 DEF MarkSent, Types, Statuses
<1>8. ASSUME NEW w \in Workers, MarkFailed(w) PROVE Types'
  <2>1. batch[w] # << >> /\ Head(batch[w]).attempt \in Nat
    BY <1>8, Current DEF MarkFailed
  <2>2. /\ batch' \in [Workers -> Seq(Parcels)]
        /\ pc' \in [Workers -> {"poll", "send", "sent", "failed"}]
    BY <1>8, <2>1, NextStep DEF MarkFailed
  <2> QED  BY <1>8, <2>1, <2>2 DEF MarkFailed, Types, Statuses, rows
<1>9. ASSUME NEW w \in Workers, DbError(w) PROVE Types'
  <2>1. used' \in [Faults -> Nat]
    BY <1>9, SpendStep DEF DbError, Faults
  <2>2. << >> \in Seq(Parcels)
    BY EmptySeq
  <2>3. batch' \in [Workers -> Seq(Parcels)]
    BY <1>9, <2>2 DEF DbError, Types
  <2>4. pc' \in [Workers -> {"poll", "send", "sent", "failed"}]
    BY <1>9 DEF DbError, Types
  <2> QED  BY <1>9, <2>1, <2>3, <2>4 DEF DbError, Types, rows
<1>10. ASSUME NEW w \in Workers, Crash(w) PROVE Types'
  <2>1. used' \in [Faults -> Nat]
    BY <1>10, SpendStep DEF Crash, Faults
  <2>2. << >> \in Seq(Parcels)
    BY EmptySeq
  <2>3. batch' \in [Workers -> Seq(Parcels)]
    BY <1>10, <2>2 DEF Crash, Types
  <2>4. pc' \in [Workers -> {"poll", "send", "sent", "failed"}]
    BY <1>10 DEF Crash, Types
  <2> QED  BY <1>10, <2>1, <2>3, <2>4 DEF Crash, Types, rows
<1>11. CASE UNCHANGED vars
  BY <1>11 DEF vars, Types
<1> QED  BY <1>1, <1>2, <1>3, <1>4, <1>5, <1>6, <1>7, <1>8, <1>9, <1>10, <1>11 DEF Next, Work

LEMMA RowsStep == Types /\ Rows /\ Batches /\ [Next]_vars => Rows'
<1> SUFFICES ASSUME Types, Rows, Batches, [Next]_vars PROVE Rows'
  OBVIOUS
<1>1. ASSUME NEW e \in Events, Evaluate(e) PROVE Rows'
  BY <1>1, EnqueueStep DEF Evaluate
<1>2. ASSUME NEW w \in Workers, NEW e \in Events, Reconcile(w, e) PROVE Rows'
  BY <1>2, EnqueueStep DEF Reconcile
<1>3. ASSUME created' = created, \A e \in Events : status'[e] = "none" <=> status[e] = "none"
      PROVE  Rows'
  BY <1>3 DEF Rows
<1>4. ASSUME NEW w \in Workers, Claim(w) PROVE Rows'
  <2>1. Taken \subseteq { e \in Events : Claimable(e) }
    BY <1>4, ClaimStep
  <2>2. \A e \in Taken : status[e] # "none"
    BY <2>1 DEF Claimable, Reclaimable
  <2>3. \A e \in Events : status'[e] = IF e \in Taken THEN "PROCESSING" ELSE status[e]
    BY <1>4 DEF Claim, Taken
  <2>4. created' = created
    BY <1>4 DEF Claim
  <2> QED  BY <1>3, <2>2, <2>3, <2>4
<1>5. ASSUME NEW w \in Workers, MarkSent(w) PROVE Rows'
  BY <1>3, <1>5, MarkedRow
<1>6. ASSUME NEW w \in Workers, MarkFailed(w) PROVE Rows'
  BY <1>3, <1>6, MarkedRow
<1>7. CASE UNCHANGED <<created, status>>
  BY <1>7 DEF Rows
<1>8. ASSUME NEW e \in Events, RetryDue(e) \/ GetStale(e) PROVE UNCHANGED <<created, status>>
  BY <1>8 DEF RetryDue, GetStale
<1>9. ASSUME NEW w \in Workers, Send(w) \/ DbError(w) \/ Crash(w)
      PROVE  UNCHANGED <<created, status>>
  BY <1>9 DEF Send, DbError, Crash, rows
<1>10. CASE UNCHANGED vars
  BY <1>7, <1>10 DEF vars
<1> QED  BY <1>1, <1>2, <1>4, <1>5, <1>6, <1>7, <1>8, <1>9, <1>10 DEF Next, Work

LEMMA BatchesStep == Types /\ Rows /\ Batches /\ [Next]_vars => Batches'
<1> SUFFICES ASSUME Types, Rows, Batches, [Next]_vars PROVE Batches'
  OBVIOUS
<1>1. ASSUME UNCHANGED <<batch, pc>>, \A e \in Events : status[e] # "none" => status'[e] # "none"
      PROVE  Batches'
  BY <1>1 DEF Batches, In
<1>2. ASSUME NEW e \in Events, Evaluate(e) PROVE Batches'
  BY <1>1, <1>2, EnqueueStep DEF Evaluate
<1>3. ASSUME NEW w \in Workers, NEW e \in Events, Reconcile(w, e) PROVE Batches'
  BY <1>1, <1>3, EnqueueStep DEF Reconcile
<1>4. ASSUME NEW e \in Events, RetryDue(e) \/ GetStale(e) PROVE Batches'
  BY <1>1, <1>4 DEF RetryDue, GetStale
<1>5. ASSUME NEW w \in Workers, Claim(w) PROVE Batches'
  <2>1. /\ Taken \subseteq Events
        /\ \A v \in Workers \ {w} : batch'[v] = batch[v] /\ pc'[v] = pc[v]
        /\ batch'[w] # << >> /\ pc'[w] = "send"
        /\ \A i \in 1..Len(batch'[w]) : batch'[w][i].event \in Taken
        /\ \A i, j \in 1..Len(batch'[w]) : batch'[w][i].event = batch'[w][j].event => i = j
    BY <1>5, ClaimStep DEF Claim, Types
  <2>2. \A e \in Events : status'[e] = IF e \in Taken THEN "PROCESSING" ELSE status[e]
    BY <1>5 DEF Claim, Taken
  <2> QED  BY <2>1, <2>2 DEF Batches, In
<1>6. ASSUME NEW w \in Workers, Send(w) PROVE Batches'
  <2>1. /\ pc[w] = "send" /\ pc'[w] # "poll" /\ batch' = batch /\ status' = status
        /\ \A v \in Workers \ {w} : pc'[v] = pc[v]
    BY <1>6, SendStep
  <2> QED  BY <2>1 DEF Batches, In
<1>7. ASSUME NEW w \in Workers, MarkSent(w) \/ MarkFailed(w) PROVE Batches'
  <2>1. pc[w] # "poll" /\ NextEvent(w)
    BY <1>7 DEF MarkSent, MarkFailed
  <2>2. \A e \in Events : status[e] # "none" => status'[e] # "none"
    <3> SUFFICES ASSUME NEW e \in Events, status[e] # "none" PROVE status'[e] # "none"
      OBVIOUS
    <3> QED  BY <1>7, MarkedRow
  <2>3. \A i, j \in 1..Len(batch'[w]) : batch'[w][i].event = batch'[w][j].event => i = j
    <3> SUFFICES ASSUME NEW i \in 1..Len(batch'[w]), NEW j \in 1..Len(batch'[w]),
                        batch'[w][i].event = batch'[w][j].event
                 PROVE  i = j
      OBVIOUS
    <3>1. /\ i + 1 \in 1..Len(batch[w]) /\ batch'[w][i] = batch[w][i + 1]
          /\ j + 1 \in 1..Len(batch[w]) /\ batch'[w][j] = batch[w][j + 1]
      BY <2>1, MarkStep
    <3>2. i + 1 = j + 1
      BY <3>1 DEF Batches
    <3> QED  BY <3>2
  <2>4. \A e, v : v \in Workers => (In(e, v)' => In(e, v))
    BY <2>1, MarkStep
  <2>5. /\ \A v \in Workers \ {w} : batch'[v] = batch[v] /\ pc'[v] = pc[v]
        /\ pc'[w] = "poll" <=> batch'[w] = << >>
    BY <2>1, MarkStep
  <2> QED  BY <2>2, <2>3, <2>4, <2>5 DEF Batches
<1>8. ASSUME NEW w \in Workers, DbError(w) \/ Crash(w) PROVE Batches'
  <2>1. status' = status /\ pc[w] # "poll"
    BY <1>8 DEF DbError, Crash, rows
  <2>2. \A v \in Workers \ {w} : batch'[v] = batch[v] /\ pc'[v] = pc[v]
    BY <1>8 DEF DbError, Crash, Types
  <2>3. (pc'[w] = "failed" /\ batch'[w] = batch[w]) \/ (pc'[w] = "poll" /\ batch'[w] = << >>)
    BY <1>8 DEF DbError, Crash, Types
  <2>4. Len(<< >>) = 0
    BY EmptySeq
  <2> QED  BY <2>1, <2>2, <2>3, <2>4 DEF Batches, In
<1>9. CASE UNCHANGED vars
  BY <1>1, <1>9 DEF vars
<1> QED  BY <1>2, <1>3, <1>4, <1>5, <1>6, <1>7, <1>8, <1>9 DEF Next, Work

LEMMA AcceptedStep == Types /\ Batches /\ Accepted /\ [Next]_vars => Accepted'
<1> SUFFICES ASSUME Types, Batches, Accepted, [Next]_vars, NEW v \in Workers, pc'[v] = "sent"
             PROVE  sent'[First(v)'] > 0
  BY DEF Accepted
<1>1. ASSUME batch'[v] = batch[v], pc'[v] = pc[v],
             \A e \in Events : sent[e] > 0 => sent'[e] > 0
      PROVE  sent'[First(v)'] > 0
  <2>1. First(v)' = First(v) /\ sent[First(v)] > 0
    BY <1>1 DEF First, Accepted
  <2>2. First(v) \in Events
    BY <1>1, Current DEF First
  <2> QED  BY <1>1, <2>1, <2>2
<1>2. ASSUME NEW e \in Events, Evaluate(e) \/ RetryDue(e) \/ GetStale(e)
      PROVE  sent'[First(v)'] > 0
  BY <1>1, <1>2 DEF Evaluate, RetryDue, GetStale
<1>3. ASSUME NEW w \in Workers, NEW e \in Events, Reconcile(w, e) PROVE sent'[First(v)'] > 0
  BY <1>1, <1>3 DEF Reconcile
<1>4. ASSUME NEW w \in Workers, Claim(w) PROVE sent'[First(v)'] > 0
  BY <1>1, <1>4 DEF Claim, Types
<1>5. ASSUME NEW w \in Workers, Send(w) PROVE sent'[First(v)'] > 0
  <2>1. PICK e \in Events :
          /\ e = batch[w][1].event /\ sent' \in [Events -> Nat] /\ batch' = batch
          /\ \A u \in Workers \ {w} : pc'[u] = pc[u]
          /\ \A f \in Events \ {e} : sent'[f] = sent[f]
          /\ sent'[e] = sent[e] + 1 \/ (sent'[e] = sent[e] /\ pc'[w] # "sent")
    BY <1>5, SendStep
  <2>2. ASSUME NEW f \in Events PROVE sent[f] \in Nat /\ (sent[f] > 0 => sent'[f] > 0)
    <3>1. sent[f] \in Nat /\ sent[e] \in Nat
      BY DEF Types
    <3>2. sent'[f] = sent[f] \/ sent'[f] = sent[f] + 1
      BY <2>1
    <3> QED  BY <3>1, <3>2
  <2>3. CASE v = w
    BY <2>1, <2>2, <2>3 DEF First
  <2>4. CASE v # w
    BY <1>1, <2>1, <2>2, <2>4
  <2> QED  BY <2>3, <2>4
<1>6. ASSUME NEW w \in Workers, MarkSent(w) \/ MarkFailed(w) PROVE sent'[First(v)'] > 0
  <2>1. pc[w] # "poll" /\ NextEvent(w) /\ sent' = sent
    BY <1>6 DEF MarkSent, MarkFailed
  <2> QED  BY <1>1, <2>1, MarkStep
<1>7. ASSUME NEW w \in Workers, DbError(w) \/ Crash(w) PROVE sent'[First(v)'] > 0
  BY <1>1, <1>7 DEF DbError, Crash, Types
<1>8. CASE UNCHANGED vars
  BY <1>1, <1>8 DEF vars
<1> QED  BY <1>2, <1>3, <1>4, <1>5, <1>6, <1>7, <1>8 DEF Next, Work

LEMMA GivenUpStep == Types /\ Rows /\ Batches /\ GivenUp /\ [Next]_vars => GivenUp'
<1> SUFFICES ASSUME Types, Rows, Batches, GivenUp, [Next]_vars PROVE GivenUp'
  OBVIOUS
<1>1. CASE UNCHANGED <<status, attempts>>
  BY <1>1 DEF GivenUp
<1>2. ASSUME NEW e \in Events, Evaluate(e) PROVE GivenUp'
  BY <1>2, EnqueueStep DEF Evaluate, GivenUp
<1>3. ASSUME NEW w \in Workers, NEW e \in Events, Reconcile(w, e) PROVE GivenUp'
  BY <1>3, EnqueueStep DEF Reconcile, GivenUp
<1>4. ASSUME NEW e \in Events, RetryDue(e) \/ GetStale(e) PROVE GivenUp'
  BY <1>1, <1>4 DEF RetryDue, GetStale
<1>5. ASSUME NEW w \in Workers, Claim(w) PROVE GivenUp'
  BY <1>5 DEF Claim, GivenUp
<1>6. ASSUME NEW w \in Workers, MarkSent(w) PROVE GivenUp'
  BY <1>6 DEF MarkSent, GivenUp, Types
<1>7. ASSUME NEW w \in Workers, MarkFailed(w) PROVE GivenUp'
  BY <1>7 DEF MarkFailed, Terminal, GivenUp, Types, rows
<1>8. ASSUME NEW w \in Workers, Send(w) \/ DbError(w) \/ Crash(w) PROVE GivenUp'
  BY <1>1, <1>8 DEF Send, DbError, Crash, rows
<1>9. CASE UNCHANGED vars
  BY <1>1, <1>9 DEF vars
<1> QED  BY <1>2, <1>3, <1>4, <1>5, <1>6, <1>7, <1>8, <1>9 DEF Next, Work

(* Counting workers. *)
LEMMA Counts ==
  ASSUME NEW S \in SUBSET Workers, NEW T \in SUBSET Workers, NEW w
  PROVE  /\ Cardinality(S) \in Nat /\ Cardinality(T) \in Nat
         /\ T \subseteq S => Cardinality(T) <= Cardinality(S)
         /\ T \subseteq S \cup {w} => Cardinality(T) <= Cardinality(S) + 1
         /\ w \in S /\ T \subseteq S \ {w} => Cardinality(T) <= Cardinality(S) - 1
<1>1. IsFiniteSet(S) /\ IsFiniteSet(T)
  BY FS_Subset
<1>2. Cardinality(S) \in Nat /\ Cardinality(T) \in Nat
  BY <1>1, FS_CardinalityType
<1>3. ASSUME T \subseteq S \cup {w} PROVE Cardinality(T) <= Cardinality(S) + 1
  <2>1. /\ IsFiniteSet(S \cup {w})
        /\ Cardinality(S \cup {w}) = IF w \in S THEN Cardinality(S) ELSE Cardinality(S) + 1
    BY <1>1, FS_AddElement
  <2>2. Cardinality(T) <= Cardinality(S \cup {w})
    BY <1>3, <2>1, FS_Subset
  <2>3. Cardinality(S \cup {w}) <= Cardinality(S) + 1
    BY <1>2, <2>1
  <2> QED  BY <1>2, <2>1, <2>2, <2>3
<1>4. ASSUME w \in S, T \subseteq S \ {w} PROVE Cardinality(T) <= Cardinality(S) - 1
  <2>1. IsFiniteSet(S \ {w}) /\ Cardinality(S \ {w}) = Cardinality(S) - 1
    BY <1>1, <1>4, FS_RemoveElement
  <2>2. Cardinality(T) <= Cardinality(S \ {w})
    BY <1>4, <2>1, FS_Subset
  <2> QED  BY <2>1, <2>2
<1>5. T \subseteq S => Cardinality(T) <= Cardinality(S)
  BY <1>1, FS_Subset
<1> QED  BY <1>2, <1>3, <1>4, <1>5

(* Every way a step can touch an e-mail's cost: what it adds is paid for by  *)
(* a sender that is gone, by a row that can no longer be claimed, or by a    *)
(* fault.                                                                    *)
Accepts(e) == sent'[e] - sent[e]
NewFaults == FaultsSoFar' - FaultsSoFar
Gone(e) == \E w \in Senders(e) : Senders(e)' \subseteq Senders(e) \ {w}
OneMore(e) == \E w : Senders(e)' \subseteq Senders(e) \cup {w}
Kept(e) == Senders(e)' \subseteq Senders(e)
NotFreed(e) == Free(e)' => Free(e)

LEMMA CostStep ==
  ASSUME Types, Types', NEW e \in Events, Accepts(e) \in {0, 1}, NewFaults \in {0, 1},
         \/ Accepts(e) <= NewFaults /\ Kept(e) /\ NotFreed(e)
         \/ Accepts(e) = 0 /\ OneMore(e) /\ Free(e) /\ ~Free(e)'
         \/ Gone(e) /\ NotFreed(e)
         \/ Accepts(e) = 0 /\ Gone(e)
         \/ Accepts(e) = 0 /\ NewFaults = 1 /\ OneMore(e) /\ NotFreed(e)
         \/ Accepts(e) = 0 /\ NewFaults = 1 /\ Kept(e)
  PROVE  Cost(e) <= 1 + FaultsSoFar => Cost(e)' <= 1 + FaultsSoFar'
<1> DEFINE c == Cardinality(Senders(e))  d == Cardinality(Senders(e)')
           a == IF Free(e) THEN 1 ELSE 0  b == IF Free(e)' THEN 1 ELSE 0
           m == Accepts(e)  n == NewFaults  F == FaultsSoFar  G == FaultsSoFar'
           s == sent[e]  t == sent'[e]
<1>1. s \in Nat /\ t \in Nat /\ F \in Nat /\ G \in Nat
  <2>1. s \in Nat /\ t \in Nat
    BY DEF Types
  <2>2. FaultsSoFar' \in Nat
    <3>1. used' \in [Faults -> Nat]
      BY DEF Types
    <3> HIDE DEF s, t, c, d, a, b, m, n, F, G
    <3> QED  BY <3>1 DEF FaultsSoFar, Faults
  <2> QED  BY <2>1, <2>2, FaultsNat
<1>2. /\ a \in Nat /\ b \in Nat /\ a <= 1 /\ b <= 1
      /\ NotFreed(e) => b <= a
      /\ Free(e) /\ ~Free(e)' => a = 1 /\ b = 0
  BY DEF NotFreed
<1>3. Senders(e) \in SUBSET Workers /\ Senders(e)' \in SUBSET Workers
  BY DEF Senders
<1>4. /\ c \in Nat /\ d \in Nat
      /\ Kept(e) => d <= c
      /\ OneMore(e) => d <= c + 1
      /\ Gone(e) => d <= c - 1
  BY <1>3, Counts DEF Kept, OneMore, Gone
<1>5. Cost(e) = s + c + a /\ Cost(e)' = t + d + b
  BY DEF Cost
<1>6. t = s + m /\ G = F + n /\ m \in {0, 1} /\ n \in {0, 1}
  BY <1>1 DEF Accepts, NewFaults
<1>7. \/ m <= n /\ d <= c /\ b <= a
      \/ m = 0 /\ d <= c + 1 /\ a = 1 /\ b = 0
      \/ d <= c - 1 /\ b <= a
      \/ m = 0 /\ d <= c - 1
      \/ m = 0 /\ n = 1 /\ d <= c + 1 /\ b <= a
      \/ m = 0 /\ n = 1 /\ d <= c
  <2> HIDE DEF c, d, a, b
  <2> QED  BY <1>2, <1>4
<1> HIDE DEF c, d, a, b, m, n, F, G, s, t
<1>8. s + c + a <= 1 + F => t + d + b <= 1 + G
  BY <1>1, <1>2, <1>4, <1>6, <1>7
<1> QED  BY <1>5, <1>8 DEF F, G

LEMMA BudgetStep == Types /\ Rows /\ Batches /\ Budget /\ [Next]_vars => Budget'
<1> SUFFICES ASSUME Types, Rows, Batches, Budget, [Next]_vars, NEW e \in Events
             PROVE  Cost(e)' <= 1 + FaultsSoFar'
  BY DEF Budget
<1>1. /\ Types' /\ Cost(e) <= 1 + FaultsSoFar /\ FaultsSoFar \in Nat
      /\ sent[e] \in Nat /\ FaultsSoFar - FaultsSoFar = 0
  <2>1. Types' /\ Cost(e) <= 1 + FaultsSoFar
    BY TypesStep DEF Budget
  <2>2. FaultsSoFar \in Nat
    BY FaultsNat
  <2>3. sent[e] \in Nat
    BY DEF Types
  <2> QED  BY <2>1, <2>2, <2>3
<1>2. /\ used' = used => NewFaults = 0
      /\ FaultsSoFar' = FaultsSoFar + 1 => NewFaults = 1
      /\ sent'[e] = sent[e] => Accepts(e) = 0
      /\ sent'[e] = sent[e] + 1 => Accepts(e) = 1
  BY <1>1 DEF NewFaults, Accepts, FaultsSoFar
<1>3. ASSUME UNCHANGED <<batch, pc, sent>>
      PROVE  Accepts(e) = 0 /\ Kept(e) /\ \A f, v : In(f, v)' <=> In(f, v)
  BY <1>2, <1>3 DEF Kept, Senders, Sending, In, First
<1>4. ASSUME UNCHANGED <<batch, pc, sent, used>>, NotFreed(e)
      PROVE  Cost(e)' <= 1 + FaultsSoFar'
  BY <1>1, <1>2, <1>3, <1>4, CostStep
<1>5. ASSUME NEW f \in Events, Enqueue(f), UNCHANGED <<batch, pc, sent, used>>
      PROVE  Cost(e)' <= 1 + FaultsSoFar'
  <2>1. /\ e # f \/ status[f] # "none" => status'[e] = status[e]
        /\ status[f] = "none" => status'[f] = "PENDING"
        /\ stale' = stale
    BY <1>5, EnqueueStep
  <2>2. \A g, v : In(g, v)' <=> In(g, v)
    BY <1>3, <1>5
  <2>3. NotFreed(e)
    BY <2>1, <2>2 DEF NotFreed, Free
  <2> QED  BY <1>4, <1>5, <2>3
<1>6. ASSUME NEW f \in Events, RetryDue(f) PROVE Cost(e)' <= 1 + FaultsSoFar'
  <2>1. NotFreed(e)
    BY <1>6 DEF RetryDue, NotFreed, Free, In
  <2> QED  BY <1>4, <1>6, <2>1 DEF RetryDue
<1>7. ASSUME NEW f \in Events, GetStale(f) PROVE Cost(e)' <= 1 + FaultsSoFar'
  <2>1. UNCHANGED <<batch, pc, sent, status>> /\ stale' = [stale EXCEPT ![f] = TRUE]
        /\ status[f] = "PROCESSING"
    BY <1>7 DEF GetStale
  <2>2. CASE Held(f)
    <3>1. FaultsSoFar' = FaultsSoFar + 1
      BY <1>7, <2>2, SpendStep DEF GetStale, Faults
    <3> QED  BY <1>1, <1>2, <1>3, <2>1, <3>1, CostStep
  <2>3. CASE ~Held(f)
    <3>1. used' = used
      BY <1>7, <2>3 DEF GetStale
    <3>2. \A v \in Workers : ~In(f, v)
      BY <2>3 DEF Held, In
    <3>3. NotFreed(e)
      BY <2>1, <3>2 DEF NotFreed, Free, In, Types
    <3> QED  BY <1>4, <2>1, <3>1, <3>3
  <2> QED  BY <2>2, <2>3
<1>8. ASSUME NEW w \in Workers, Claim(w) PROVE Cost(e)' <= 1 + FaultsSoFar'
  <2>1. /\ batch[w] = << >> /\ pc'[w] = "send" /\ UNCHANGED <<sent, used>>
        /\ \A v \in Workers \ {w} : batch'[v] = batch[v] /\ pc'[v] = pc[v]
        /\ \A f \in Events : /\ status'[f] = IF f \in Taken THEN "PROCESSING" ELSE status[f]
                            /\ stale'[f] = (stale[f] /\ f \notin Taken)
    <3>1. batch[w] = << >> /\ UNCHANGED <<sent, used>>
      BY <1>8 DEF Claim, Batches
    <3>2. pc'[w] = "send" /\ \A v \in Workers \ {w} : pc'[v] = pc[v]
      BY <1>8 DEF Claim, Types
    <3>3. \A v \in Workers \ {w} : batch'[v] = batch[v]
      BY <1>8, ClaimStep
    <3>4. \A f \in Events : /\ status'[f] = IF f \in Taken THEN "PROCESSING" ELSE status[f]
                            /\ stale'[f] = (stale[f] /\ f \notin Taken)
      BY <1>8 DEF Claim, Taken
    <3> QED  BY <3>1, <3>2, <3>3, <3>4
  <2>2. /\ \A f : ~In(f, w)
        /\ \A f, v : v \in Workers \ {w} => (In(f, v)' <=> In(f, v)) /\ (Sending(v, f)' <=> Sending(v, f))
    BY <2>1, EmptySeq DEF In, Sending, First
  <2>3. OneMore(e)
    BY <2>2 DEF OneMore, Senders
  <2>4. CASE e \in Taken
    <3>1. Claimable(e) /\ In(e, w)'
      BY <1>8, <2>4, ClaimStep
    <3>2. Free(e)
      BY <3>1 DEF Free, Claimable, Reclaimable
    <3>3. ~Free(e)'
      BY <2>1, <2>4, <3>1 DEF Free
    <3> QED  BY <1>1, <1>2, <2>1, <2>3, <3>2, <3>3, CostStep
  <2>5. CASE e \notin Taken
    <3>1. ~In(e, w)'
      BY <1>8, <2>5, ClaimStep DEF In
    <3>2. Kept(e)
      BY <2>2, <3>1 DEF Kept, Senders, Sending
    <3>3. \A v \in Workers : In(e, v)' <=> In(e, v)
      BY <2>2, <3>1
    <3>4. NotFreed(e)
      BY <2>1, <2>5, <3>3 DEF NotFreed, Free
    <3> QED  BY <1>1, <1>2, <2>1, <3>2, <3>4, CostStep
  <2> QED  BY <2>4, <2>5
<1>9. ASSUME NEW w \in Workers, Send(w) PROVE Cost(e)' <= 1 + FaultsSoFar'
  <2>1. PICK f \in Events :
          /\ f = First(w) /\ pc[w] = "send" /\ UNCHANGED <<status, stale, batch>>
          /\ \A v \in Workers \ {w} : pc'[v] = pc[v]
          /\ \A g \in Events \ {f} : sent'[g] = sent[g]
          /\ \/ pc'[w] = "sent" /\ sent'[f] = sent[f] + 1 /\ FaultsSoFar' = FaultsSoFar
             \/ pc'[w] = "failed" /\ sent'[f] = sent[f] /\ FaultsSoFar' = FaultsSoFar
             \/ pc'[w] = "failed" /\ sent'[f] = sent[f] + 1 /\ FaultsSoFar' = FaultsSoFar + 1
    BY <1>9, SendStep DEF First
  <2>2. \A g, v : (In(g, v)' <=> In(g, v)) /\ First(v)' = First(v)
    BY <2>1 DEF In, First
  <2>3. NotFreed(e)
    BY <2>1, <2>2 DEF NotFreed, Free
  <2>4. In(f, w)
    BY <2>1, Current DEF In, First
  <2>5. \A v \in Workers : Sending(v, e)' => Sending(v, e)
    BY <2>1, <2>2 DEF Sending
  <2>6. NewFaults \in {0, 1} /\ (FaultsSoFar' = FaultsSoFar => NewFaults = 0)
    BY <1>1, <1>2, <2>1 DEF NewFaults
  <2>7. CASE e = f /\ pc'[w] = "sent"
    <3>1. Sending(w, e) /\ ~Sending(w, e)'
      BY <2>1, <2>2, <2>4, <2>7 DEF Sending
    <3>2. Gone(e)
      BY <2>5, <3>1 DEF Gone, Senders
    <3> QED  BY <1>1, <1>2, <2>1, <2>3, <2>6, <2>7, <3>2, CostStep
  <2>8. CASE e # f \/ pc'[w] # "sent"
    <3>1. Kept(e)
      BY <2>5 DEF Kept, Senders
    <3>2. Accepts(e) \in {0, 1} /\ Accepts(e) <= NewFaults
      BY <1>1, <1>2, <2>1, <2>6, <2>8
    <3> QED  BY <1>1, <2>3, <2>6, <3>1, <3>2, CostStep
  <2> QED  BY <2>7, <2>8
<1>10. ASSUME NEW w \in Workers, MarkSent(w) \/ MarkFailed(w) PROVE Cost(e)' <= 1 + FaultsSoFar'
  <2>1. /\ pc[w] \in {"sent", "failed"} /\ NextEvent(w) /\ UNCHANGED <<sent, used>>
        /\ (pc[w] = "sent" <=> MarkSent(w)) /\ Head(batch[w]) = batch[w][1]
    BY <1>10, Current DEF MarkSent, MarkFailed
  <2>2. /\ In(First(w), w) /\ \A f : f = First(w) => ~In(f, w)'
        /\ \A f : f # First(w) => (In(f, w)' <=> In(f, w))
        /\ \A f, v : v \in Workers \ {w} => (In(f, v)' <=> In(f, v)) /\ (Sending(v, f)' <=> Sending(v, f))
        /\ pc'[w] # "sent"
    BY <2>1, MarkStep DEF Sending, First
  <2>3. \A v \in Workers : Sending(v, e)' => Sending(v, e)
    BY <2>2 DEF Sending
  <2>4. Kept(e)
    BY <2>3 DEF Kept, Senders
  <2>5. CASE e = First(w) /\ pc[w] = "sent"
    <3>1. status'[e] = IF status[e] = "PROCESSING" THEN "SENT" ELSE status[e]
      BY <2>1, <2>5 DEF MarkSent, Markable, Types, First
    <3>2. NotFreed(e)
      BY <3>1 DEF NotFreed, Free
    <3> QED  BY <1>1, <1>2, <2>1, <2>4, <3>2, CostStep
  <2>6. CASE e = First(w) /\ pc[w] # "sent"
    <3>1. Sending(w, e) /\ ~Sending(w, e)'
      BY <2>2, <2>6 DEF Sending
    <3>2. Gone(e)
      BY <2>3, <3>1 DEF Gone, Senders
    <3> QED  BY <1>1, <1>2, <2>1, <3>2, CostStep
  <2>7. CASE e # First(w)
    <3>1. status'[e] = status[e] /\ stale'[e] = stale[e]
      BY <1>10, <2>7, MarkedRow
    <3>2. \A v \in Workers : In(e, v)' <=> In(e, v)
      BY <2>2, <2>7
    <3>3. NotFreed(e)
      BY <3>1, <3>2 DEF NotFreed, Free
    <3> QED  BY <1>1, <1>2, <2>1, <2>4, <3>3, CostStep
  <2> QED  BY <2>5, <2>6, <2>7
<1>11. ASSUME NEW w \in Workers, DbError(w) \/ Crash(w) PROVE Cost(e)' <= 1 + FaultsSoFar'
  <2>1. NewFaults = 1 /\ Accepts(e) = 0
    BY <1>2, <1>11, SpendStep DEF DbError, Crash, Faults
  <2>2. /\ UNCHANGED <<status, stale>>
        /\ \A v \in Workers \ {w} : batch'[v] = batch[v] /\ pc'[v] = pc[v]
        /\ (batch' = batch) \/ (batch'[w] = << >>)
    BY <1>11 DEF DbError, Crash, Types, rows
  <2>3. \A v \in Workers \ {w} : Sending(v, e)' <=> Sending(v, e)
    BY <2>2 DEF Sending, In, First
  <2>4. CASE batch' = batch
    <3>1. OneMore(e)
      BY <2>3 DEF OneMore, Senders
    <3>2. NotFreed(e)
      BY <2>2, <2>4 DEF NotFreed, Free, In
    <3> QED  BY <1>1, <2>1, <3>1, <3>2, CostStep
  <2>5. CASE batch'[w] = << >>
    <3>1. ~Sending(w, e)'
      BY <2>5, EmptySeq DEF Sending, In
    <3>2. Kept(e)
      BY <2>3, <3>1 DEF Kept, Senders
    <3> QED  BY <1>1, <2>1, <3>2, CostStep
  <2> QED  BY <2>2, <2>4, <2>5
<1>12. CASE UNCHANGED vars
  <2>1. NotFreed(e)
    BY <1>12 DEF vars, NotFreed, Free, In
  <2> QED  BY <1>4, <1>12, <2>1 DEF vars
<1>13. ASSUME NEW f \in Events, Evaluate(f) PROVE Cost(e)' <= 1 + FaultsSoFar'
  BY <1>5, <1>13 DEF Evaluate
<1>14. ASSUME NEW w \in Workers, NEW f \in Events, Reconcile(w, f) PROVE Cost(e)' <= 1 + FaultsSoFar'
  BY <1>5, <1>14 DEF Reconcile
<1> QED  BY <1>6, <1>7, <1>8, <1>9, <1>10, <1>11, <1>12, <1>13, <1>14 DEF Next, Work

LEMMA UndisturbedStep == Types /\ Rows /\ Batches /\ Undisturbed /\ [Next]_vars => Undisturbed'
<1> SUFFICES ASSUME Types, Rows, Batches, Undisturbed, [Next]_vars, FaultsSoFar' = 0, NEW e \in Events
             PROVE  Alone(e)'
  BY DEF Undisturbed
<1>1. FaultsSoFar \in Nat /\ (used' = used => FaultsSoFar = 0 /\ \A f \in Events : Alone(f))
  BY FaultsNat DEF FaultsSoFar, Undisturbed
<1>2. ASSUME NEW fault \in Faults, Spend(fault) PROVE FALSE
  BY <1>2, SpendStep
<1>3. /\ attempts[e] \in Nat /\ tries[e] \in Nat /\ sent[e] \in Nat
      /\ status[e] \in Statuses /\ MaxAttempts \in Nat \ {0}
  BY DEF Types
<1>4. ASSUME Alone(e), UNCHANGED <<batch, pc, tries, sent>>,
             status'[e] = status[e], attempts'[e] = attempts[e], stale'[e] = stale[e]
      PROVE  Alone(e)'
  BY <1>4 DEF Alone, In, First
<1>5. ASSUME NEW f \in Events, Enqueue(f), UNCHANGED <<batch, pc, tries, sent, used>>
      PROVE  Alone(e)'
  <2>1. CASE status[f] = "none" /\ e = f
    <3>1. status'[e] = "PENDING" /\ attempts'[e] = 0
      BY <1>5, <2>1, EnqueueStep
    <3>2. \A w \in Workers : ~In(e, w)'
      BY <1>5, <2>1 DEF Batches, In
    <3>3. tries[e] = 0 /\ sent[e] = 0
      BY <1>1, <1>3, <1>5, <2>1 DEF Alone
    <3> QED  BY <1>3, <1>5, <3>1, <3>2, <3>3 DEF Alone, Final
  <2>2. CASE status[f] # "none" \/ e # f
    <3>1. status'[e] = status[e] /\ attempts'[e] = attempts[e] /\ stale'[e] = stale[e]
      BY <1>5, <2>2, EnqueueStep
    <3> QED  BY <1>1, <1>4, <1>5, <3>1
  <2> QED  BY <2>1, <2>2
<1>6. ASSUME NEW f \in Events, Evaluate(f) PROVE Alone(e)'
  BY <1>5, <1>6 DEF Evaluate
<1>7. ASSUME NEW w \in Workers, NEW f \in Events, Reconcile(w, f) PROVE Alone(e)'
  BY <1>5, <1>7 DEF Reconcile
<1>8. ASSUME NEW f \in Events, RetryDue(f) PROVE Alone(e)'
  BY <1>1, <1>4, <1>8 DEF RetryDue
<1>9. ASSUME NEW f \in Events, GetStale(f) PROVE Alone(e)'
  <2>1. ~Held(f) /\ used' = used /\ status[f] = "PROCESSING"
    BY <1>2, <1>9 DEF GetStale, Faults
  <2>2. \E w \in Workers : In(f, w)
    BY <1>1, <2>1 DEF Alone
  <2> QED  BY <2>1, <2>2 DEF Held, In
<1>10. ASSUME NEW w \in Workers, Claim(w) PROVE Alone(e)'
  <2>1. /\ batch[w] = << >> /\ pc'[w] = "send" /\ UNCHANGED <<tries, sent, used>>
        /\ \A v \in Workers \ {w} : batch'[v] = batch[v] /\ pc'[v] = pc[v]
        /\ status'[e] = IF e \in Taken THEN "PROCESSING" ELSE status[e]
        /\ attempts'[e] = IF e \in Taken THEN attempts[e] + 1 ELSE attempts[e]
        /\ stale'[e] = (stale[e] /\ e \notin Taken)
    <3>1. batch[w] = << >> /\ UNCHANGED <<tries, sent, used>>
      BY <1>10 DEF Claim, Batches
    <3>2. /\ pc'[w] = "send" /\ \A v \in Workers \ {w} : pc'[v] = pc[v]
      BY <1>10 DEF Claim, Types
    <3>3. \A v \in Workers \ {w} : batch'[v] = batch[v]
      BY <1>10, ClaimStep
    <3>4. /\ status'[e] = IF e \in Taken THEN "PROCESSING" ELSE status[e]
          /\ attempts'[e] = IF e \in Taken THEN attempts[e] + 1 ELSE attempts[e]
          /\ stale'[e] = (stale[e] /\ e \notin Taken)
      BY <1>10 DEF Claim, Taken
    <3> QED  BY <3>1, <3>2, <3>3, <3>4
  <2>2. /\ ~In(e, w) /\ Alone(e)
        /\ \A v \in Workers \ {w} : (In(e, v)' <=> In(e, v)) /\ First(v)' = First(v)
    BY <1>1, <2>1, EmptySeq DEF In, First
  <2>3. CASE e \in Taken
    <3>1. /\ Claimable(e) /\ In(e, w)'
          /\ \A i \in 1..Len(batch'[w]) : batch'[w][i].event = e => batch'[w][i].attempt = attempts[e] + 1
      BY <1>10, <2>3, ClaimStep
    <3>2. status[e] \in {"PENDING", "FAILED"}
      BY <2>2, <3>1 DEF Alone, Claimable, Reclaimable
    <3>3. \A v \in Workers : ~In(e, v)
      BY <2>2, <3>2 DEF Alone
    <3>4. tries[e] <= attempts[e] /\ attempts[e] < MaxAttempts /\ sent[e] = 0
      BY <2>2, <3>2 DEF Alone
    <3>5. \A v \in Workers : In(e, v)' => v = w
      BY <2>2, <3>3
    <3>6. /\ status'[e] = "PROCESSING" /\ ~stale'[e] /\ attempts'[e] = attempts[e] + 1
          /\ tries'[e] = tries[e] /\ sent'[e] = sent[e]
      BY <2>1, <2>3
    <3>7. /\ attempts'[e] <= MaxAttempts /\ tries'[e] < attempts'[e] /\ tries'[e] <= attempts'[e]
          /\ sent'[e] = 0
      BY <1>3, <3>4, <3>6
    <3> QED  BY <3>1, <3>5, <3>6, <3>7 DEF Alone, Final
  <2>4. CASE e \notin Taken
    <3>1. ~In(e, w)'
      BY <1>10, <2>4, ClaimStep DEF In
    <3>2. \A v \in Workers : (In(e, v)' <=> In(e, v)) /\ (In(e, v)' => v # w)
      BY <2>2, <3>1
    <3>3. /\ status'[e] = status[e] /\ stale'[e] = stale[e] /\ attempts'[e] = attempts[e]
          /\ tries' = tries /\ sent' = sent
      BY <2>1, <2>4 DEF Types
    <3>4. \A v \in Workers : In(e, v)' => /\ In(e, v) /\ First(v)' = First(v)
                                         /\ batch'[v] = batch[v] /\ pc'[v] = pc[v]
      BY <2>1, <2>2, <3>2
    <3> QED  BY <2>2, <3>2, <3>3, <3>4 DEF Alone
  <2> QED  BY <2>3, <2>4
<1>11. ASSUME NEW w \in Workers, Send(w) PROVE Alone(e)'
  <2>1. PICK f \in Events :
          /\ f = First(w) /\ pc[w] = "send" /\ UNCHANGED <<status, attempts, stale, batch>>
          /\ \A v \in Workers \ {w} : pc'[v] = pc[v]
          /\ tries'[f] = tries[f] + 1
          /\ \A g \in Events \ {f} : tries'[g] = tries[g] /\ sent'[g] = sent[g]
          /\ \/ pc'[w] = "sent" /\ FaultsSoFar' = FaultsSoFar
             \/ pc'[w] = "failed" /\ sent'[f] = sent[f] /\ FaultsSoFar' = FaultsSoFar
             \/ FaultsSoFar' = FaultsSoFar + 1
    BY <1>11, SendStep DEF First
  <2>2. Alone(e) /\ (pc'[w] = "sent" \/ (pc'[w] = "failed" /\ sent'[f] = sent[f]))
    BY <1>1, <2>1 DEF Undisturbed
  <2>3. \A v : (In(e, v)' <=> In(e, v)) /\ First(v)' = First(v) /\ batch'[v] = batch[v]
    BY <2>1 DEF In, First
  <2>4. In(f, w)
    BY <2>1, Current DEF In, First
  <2>5. CASE e = f
    <3>1. /\ \A v \in Workers : In(e, v) => v = w
          /\ status[e] = "PROCESSING" /\ attempts[e] <= MaxAttempts
          /\ tries[e] < attempts[e] /\ sent[e] = 0
      BY <2>1, <2>2, <2>4, <2>5 DEF Alone
    <3>2. tries'[e] <= attempts'[e]
      BY <1>3, <2>1, <2>5, <3>1
    <3> QED  BY <2>1, <2>2, <2>3, <2>5, <3>1, <3>2 DEF Alone, Final
  <2>6. CASE e # f
    BY <2>1, <2>2, <2>3, <2>6 DEF Alone
  <2> QED  BY <2>5, <2>6
<1>12. ASSUME NEW w \in Workers, MarkSent(w) \/ MarkFailed(w) PROVE Alone(e)'
  <2>1. /\ pc[w] # "poll" /\ NextEvent(w) /\ UNCHANGED <<sent, tries, used>>
        /\ (pc[w] = "sent" <=> MarkSent(w)) /\ Head(batch[w]) = batch[w][1]
        /\ First(w) \in Events /\ First(w) = batch[w][1].event
        /\ 1 \in 1..Len(batch[w])
    BY <1>12, Current DEF MarkSent, MarkFailed, First
  <2>2. /\ In(First(w), w) /\ \A f : f = First(w) => ~In(f, w)'
        /\ \A f : f # First(w) => (In(f, w)' <=> In(f, w))
        /\ \A v \in Workers \ {w} :
             /\ (In(e, v)' <=> In(e, v)) /\ batch'[v] = batch[v] /\ pc'[v] = pc[v]
             /\ First(v)' = First(v)
        /\ pc'[w] # "sent"
        /\ \A i \in 1..Len(batch'[w]) :
             i + 1 \in 1..Len(batch[w]) /\ batch'[w][i] = batch[w][i + 1]
    BY <2>1, MarkStep DEF First
  <2>3. Alone(e) /\ Alone(First(w))
    BY <1>1, <2>1
  <2>4. status[First(w)] = "PROCESSING" /\ batch[w][1].attempt = attempts[First(w)]
    BY <2>1, <2>2, <2>3 DEF Alone
  <2>5. CASE e = First(w)
    <3>1. \A v \in Workers : ~In(e, v)'
      BY <2>2, <2>3, <2>5 DEF Alone
    <3>2. tries'[e] = tries[e] /\ tries[e] <= attempts[e] /\ attempts[e] <= MaxAttempts
          /\ tries[e] <= MaxAttempts
      <4>1. In(e, w) /\ tries'[e] = tries[e]
        BY <2>1, <2>2, <2>5
      <4>2. tries[e] <= attempts[e] /\ attempts[e] <= MaxAttempts
        BY <2>3, <4>1 DEF Alone
      <4> QED  BY <1>3, <4>1, <4>2
    <3>3. CASE pc[w] = "sent"
      <4>1. status'[e] = "SENT"
        BY <2>1, <2>4, <2>5, <3>3 DEF MarkSent, Markable, Types
      <4> QED  BY <3>1, <3>2, <4>1 DEF Alone, Final
    <3>4. CASE pc[w] # "sent"
      <4>1. /\ status'[e] = IF attempts[e] >= MaxAttempts THEN "PERMANENTLY_FAILED" ELSE "FAILED"
            /\ attempts'[e] = attempts[e]
        BY <1>12, <2>1, <2>4, <2>5, <3>4 DEF MarkFailed, Markable, Terminal, Types
      <4>2. sent'[e] = 0
        BY <2>1, <2>2, <2>3, <2>5, <3>4 DEF Alone
      <4>3. status'[e] = "FAILED" => attempts'[e] < MaxAttempts
        BY <1>3, <4>1
      <4>4. status'[e] \in {"PERMANENTLY_FAILED", "FAILED"}
        BY <4>1
      <4> QED  BY <3>1, <3>2, <4>1, <4>2, <4>3, <4>4 DEF Alone, Final
    <3> QED  BY <3>3, <3>4
  <2>6. CASE e # First(w)
    <3>1. status'[e] = status[e] /\ stale'[e] = stale[e] /\ attempts'[e] = attempts[e]
      BY <1>12, <2>6, MarkedRow
    <3>2. \A v \in Workers : In(e, v)' <=> In(e, v)
      BY <2>2, <2>6
    <3>3. In(e, w)' =>
            /\ \A i \in 1..Len(batch'[w]) : batch'[w][i].event = e => batch'[w][i].attempt = attempts[e]
            /\ tries[e] <= attempts[e] /\ tries[e] < attempts[e] /\ sent[e] = 0
      BY <2>2, <2>3, <2>6, <3>2 DEF Alone
    <3>4. \A v \in Workers : In(e, v)' =>
            /\ status[e] = "PROCESSING" /\ attempts[e] <= MaxAttempts
            /\ \A i \in 1..Len(batch'[v]) : batch'[v][i].event = e => batch'[v][i].attempt = attempts[e]
            /\ tries[e] <= attempts[e]
            /\ First(v)' # e \/ pc'[v] = "send" => tries[e] < attempts[e]
            /\ First(v)' # e \/ pc'[v] # "sent" => sent[e] = 0
      <4> SUFFICES ASSUME NEW v \in Workers, In(e, v)
                   PROVE  /\ status[e] = "PROCESSING" /\ attempts[e] <= MaxAttempts
                          /\ \A i \in 1..Len(batch'[v]) :
                               batch'[v][i].event = e => batch'[v][i].attempt = attempts[e]
                          /\ tries[e] <= attempts[e]
                          /\ First(v)' # e \/ pc'[v] = "send" => tries[e] < attempts[e]
                          /\ First(v)' # e \/ pc'[v] # "sent" => sent[e] = 0
        BY <3>2
      <4>1. status[e] = "PROCESSING" /\ attempts[e] <= MaxAttempts
        BY <2>3 DEF Alone
      <4>2. CASE v = w
        BY <3>2, <3>3, <4>1, <4>2
      <4>3. CASE v # w
        BY <2>2, <2>3, <4>1, <4>3 DEF Alone
      <4> QED  BY <4>2, <4>3
    <3>5. \A v, u \in Workers : In(e, v)' /\ In(e, u)' => v = u
      BY <2>3, <3>2 DEF Alone
    <3>6. tries' = tries /\ sent' = sent
      BY <2>1
    <3> QED  BY <2>3, <3>1, <3>2, <3>4, <3>5, <3>6 DEF Alone
  <2> QED  BY <2>5, <2>6
<1>13. ASSUME NEW w \in Workers, DbError(w) \/ Crash(w) PROVE FALSE
  BY <1>2, <1>13 DEF DbError, Crash, Faults
<1>14. CASE UNCHANGED vars
  BY <1>1, <1>4, <1>14 DEF vars
<1> QED  BY <1>6, <1>7, <1>8, <1>9, <1>10, <1>11, <1>12, <1>13, <1>14 DEF Next, Work

-----------------------------------------------------------------------------
(* The theorems.                                                            *)

LEMMA InitIInv == Init => IInv
<1> SUFFICES ASSUME Init PROVE IInv
  OBVIOUS
<1>1. Types
  BY EmptySeq DEF Init, Types, Statuses, Faults
<1>2. \A w \in Workers : batch[w] = << >> /\ pc[w] = "poll" /\ \A e : ~In(e, w)
  BY EmptySeq DEF Init, In
<1>3. Rows /\ Batches /\ Accepted /\ GivenUp
  BY <1>2, EmptySeq DEF Init, Rows, Batches, Accepted, GivenUp
<1>4. FaultsSoFar = 0
  BY DEF Init, FaultsSoFar, Faults
<1>5. \A e \in Events : Senders(e) = {} /\ sent[e] = 0
  BY <1>2 DEF Senders, Sending, Init
<1>6. Budget
  BY <1>4, <1>5, FS_EmptySet DEF Budget, Cost
<1>7. Undisturbed
  BY <1>2 DEF Undisturbed, Alone, Init, Final
<1> QED  BY <1>1, <1>3, <1>6, <1>7 DEF IInv

LEMMA NextIInv == IInv /\ [Next]_vars => IInv'
  BY TypesStep, RowsStep, BatchesStep, AcceptedStep, BudgetStep, GivenUpStep, UndisturbedStep
  DEF IInv

LEMMA Inductive == Spec => []IInv
  BY InitIInv, NextIInv, PTL DEF Spec

(* Types; and every selection has at most one outbox row, although the      *)
(* pipeline and every worker may insert it (signal_notifications/service.py).  *)
THEOREM TypeCorrect == Spec => []TypeOK
<1>1. IInv => TypeOK
  BY OneRow DEF IInv
<1> QED  BY <1>1, Inductive, PTL

(* Every copy of an e-mail beyond the first takes a fault of its own: a     *)
(* crash, a slow batch, a lost reply or a lost database.                    *)
THEOREM DuplicatesAreFaults == Spec => []DuplicatesCostFaults
<1>1. IInv => DuplicatesCostFaults
  <2> SUFFICES ASSUME IInv, NEW e \in Events PROVE sent[e] <= 1 + FaultsSoFar
    BY DEF DuplicatesCostFaults
  <2>1. Cardinality(Senders(e)) \in Nat
    <3>1. Senders(e) \in SUBSET Workers
      BY DEF Senders
    <3> QED  BY <3>1, FS_Subset, FS_CardinalityType
  <2>2. Cost(e) <= 1 + FaultsSoFar /\ sent[e] \in Nat /\ FaultsSoFar \in Nat
    BY FaultsNat DEF IInv, Budget, Types
  <2> QED  BY <2>1, <2>2 DEF Cost
<1> QED  BY <1>1, Inductive, PTL

(* An e-mail is given up on only after max_attempts claims; undisturbed, it *)
(* is tried no more often, and one that failed was accepted by no server.   *)
THEOREM StatusTellsTheTruth == Spec => []StatusIsTrue
<1>1. IInv => StatusIsTrue
  <2> SUFFICES ASSUME IInv, NEW e \in Events
               PROVE  /\ status[e] = "PERMANENTLY_FAILED" => attempts[e] >= MaxAttempts
                      /\ FaultsSoFar = 0 => tries[e] <= MaxAttempts
                      /\ status[e] \in {"FAILED", "PERMANENTLY_FAILED"} /\ FaultsSoFar = 0 => sent[e] = 0
    BY DEF StatusIsTrue
  <2>1. status[e] = "PERMANENTLY_FAILED" => attempts[e] >= MaxAttempts
    BY DEF IInv, GivenUp
  <2>2. /\ tries[e] \in Nat /\ attempts[e] \in Nat /\ MaxAttempts \in Nat
        /\ status[e] \in Statuses
    BY DEF IInv, Types
  <2>3. ASSUME FaultsSoFar = 0 PROVE Alone(e)
    BY <2>3 DEF IInv, Undisturbed
  <2>4. ASSUME FaultsSoFar = 0
        PROVE  /\ status[e] \in {"FAILED", "PERMANENTLY_FAILED"} => sent[e] = 0
               /\ tries[e] <= MaxAttempts
    <3>1. CASE status[e] = "PROCESSING"
      <4>1. tries[e] <= attempts[e] /\ attempts[e] <= MaxAttempts
        BY <2>3, <2>4, <3>1 DEF Alone
      <4> QED  BY <2>2, <3>1, <4>1
    <3>2. CASE status[e] \in {"none", "PENDING", "FAILED"}
      <4>1. tries[e] <= attempts[e] /\ attempts[e] < MaxAttempts /\ sent[e] = 0
        BY <2>3, <2>4, <3>2 DEF Alone
      <4> QED  BY <2>2, <4>1
    <3>3. CASE status[e] \in Final
      BY <2>3, <2>4, <3>3 DEF Alone, Final
    <3> QED  BY <2>2, <3>1, <3>2, <3>3 DEF Statuses, Final
  <2> QED  BY <2>1, <2>4
<1> QED  BY <1>1, Inductive, PTL

(* The rows deliver: they implement the outbox of Delivery.                 *)
LEMMA Meanings ==
  /\ Meaning("none") = "absent" /\ Meaning("SENT") = "settled"
  /\ Meaning("PERMANENTLY_FAILED") = "abandoned"
  /\ \A s \in {"PENDING", "PROCESSING", "FAILED"} : Meaning(s) = "waiting"
  BY DEF Meaning

(* What a step does to the e-mails, as a step of the abstract outbox.       *)
LEMMA Stutters ==
  ASSUME \A e \in Events : Meaning(status'[e]) = Meaning(status[e]),
         \A e \in Events : sent'[e] > 0 <=> sent[e] > 0
  PROVE  UNCHANGED Outbox!vars
  BY DEF Outbox!vars

LEMMA Moves ==
  ASSUME NEW e \in Events,
         \A f \in Events \ {e} : status'[f] = status[f],
         \A f \in Events : sent'[f] > 0 <=> sent[f] > 0,
         \/ Meaning(status[e]) = "absent" /\ Meaning(status'[e]) = "waiting"
         \/ Meaning(status[e]) = "waiting" /\ Meaning(status'[e]) = "abandoned"
         \/ Meaning(status[e]) = "waiting" /\ Meaning(status'[e]) = "settled" /\ sent[e] > 0
  PROVE  Outbox!Next
<1> DEFINE S == [f \in Events |-> Meaning(status[f])]
           T == [f \in Events |-> Meaning(status'[f])]
           H == { f \in Events : sent[f] > 0 }
           G == { f \in Events : sent'[f] > 0 }
<1>1. G = H /\ (sent[e] > 0 => e \in H)
  OBVIOUS
<1>2. T = [S EXCEPT ![e] = Meaning(status'[e])] /\ S[e] = Meaning(status[e])
  <2>1. \A f \in Events : T[f] = IF f = e THEN Meaning(status'[e]) ELSE S[f]
    OBVIOUS
  <2>2. DOMAIN S = Events /\ DOMAIN T = Events /\ S[e] = Meaning(status[e])
    OBVIOUS
  <2>3. S = [f \in Events |-> S[f]] /\ T = [f \in Events |-> T[f]]
    OBVIOUS
  <2> HIDE DEF S, T
  <2> QED  BY <2>1, <2>2, <2>3
<1> HIDE DEF S, T, G, H
<1>3. \/ S[e] = "absent" /\ T = [S EXCEPT ![e] = "waiting"]
      \/ S[e] = "waiting" /\ T = [S EXCEPT ![e] = "abandoned"]
      \/ S[e] = "waiting" /\ T = [S EXCEPT ![e] = "settled"] /\ e \in H
  BY <1>1, <1>2
<1> QED  BY <1>1, <1>3
         DEF S, T, G, H, Outbox!Next, Outbox!Accept, Outbox!Abandon, Outbox!Settle

LEMMA Handles ==
  ASSUME NEW e \in Events, Meaning(status[e]) # "absent", sent'[e] > 0, status' = status,
         \A f \in Events \ {e} : sent'[f] = sent[f]
  PROVE  Outbox!Next
<1>1. { f \in Events : sent'[f] > 0 } = { f \in Events : sent[f] > 0 } \cup {e}
  OBVIOUS
<1>2. Outbox!Handle(e)
  BY <1>1 DEF Outbox!Handle
<1> QED  BY <1>2 DEF Outbox!Next

LEMMA InitDelivers == Init => Outbox!Init
<1> SUFFICES ASSUME Init PROVE Outbox!Init
  OBVIOUS
<1>1. [e \in Events |-> Meaning(status[e])] = [e \in Events |-> "absent"]
  BY Meanings DEF Init
<1>2. { e \in Events : sent[e] > 0 } = {}
  BY DEF Init
<1> QED  BY <1>1, <1>2 DEF Outbox!Init

LEMMA StepDelivers == IInv /\ [Next]_vars => [Outbox!Next]_(Outbox!vars)
<1> SUFFICES ASSUME IInv, [Next]_vars PROVE [Outbox!Next]_(Outbox!vars)
  OBVIOUS
<1>1. Types /\ Rows /\ Batches /\ Accepted
  BY DEF IInv
<1>2. \A e \in Events : status[e] \in Statuses /\ sent[e] \in Nat
  BY <1>1 DEF Types
<1>3. CASE UNCHANGED <<status, sent>>
  BY <1>3, Stutters
<1>4. ASSUME NEW e \in Events, Enqueue(e), sent' = sent PROVE [Outbox!Next]_(Outbox!vars)
  <2>1. CASE status[e] = "none"
    <3>1. status'[e] = "PENDING" /\ \A f \in Events \ {e} : status'[f] = status[f]
      BY <1>1, <1>4, <2>1, EnqueueStep
    <3> QED  BY <1>4, <2>1, <3>1, Moves, Meanings
  <2>2. CASE status[e] # "none"
    BY <1>1, <1>3, <1>4, <2>2, EnqueueStep
  <2> QED  BY <2>1, <2>2
<1>5. ASSUME NEW w \in Workers, Claim(w) PROVE [Outbox!Next]_(Outbox!vars)
  <2>1. /\ sent' = sent
        /\ \A e \in Events : status'[e] = IF e \in Taken THEN "PROCESSING" ELSE status[e]
    BY <1>5 DEF Claim, Taken
  <2>2. \A e \in Taken : status[e] \in {"PENDING", "FAILED", "PROCESSING"}
    BY <1>1, <1>5, ClaimStep DEF Claimable, Reclaimable
  <2> QED  BY <2>1, <2>2, Stutters, Meanings
<1>6. ASSUME NEW w \in Workers, Send(w) PROVE [Outbox!Next]_(Outbox!vars)
  <2>1. PICK e \in Events :
          /\ e = First(w) /\ pc[w] = "send" /\ UNCHANGED status
          /\ sent'[e] \in {sent[e], sent[e] + 1}
          /\ \A f \in Events \ {e} : sent'[f] = sent[f]
    BY <1>1, <1>6, SendStep DEF First
  <2>2. status[e] # "none"
    BY <1>1, <2>1, Current DEF Batches, In, First
  <2>3. CASE sent'[e] = sent[e]
    BY <2>1, <2>3, Stutters
  <2>4. CASE sent'[e] = sent[e] + 1
    <3>1. sent'[e] > 0
      BY <1>2, <2>4
    <3>2. Meaning(status[e]) # "absent"
      BY <1>2, <2>2, Meanings DEF Statuses
    <3> QED  BY <2>1, <3>1, <3>2, Handles
  <2> QED  BY <2>1, <2>3, <2>4
<1>7. ASSUME NEW w \in Workers, MarkSent(w) \/ MarkFailed(w) PROVE [Outbox!Next]_(Outbox!vars)
  <2>1. /\ pc[w] # "poll" /\ sent' = sent /\ (MarkSent(w) => pc[w] = "sent")
        /\ Head(batch[w]) = batch[w][1] /\ First(w) = batch[w][1].event /\ First(w) \in Events
    BY <1>1, <1>7, Current DEF MarkSent, MarkFailed, First
  <2>2. \A e \in Events \ {First(w)} : status'[e] = status[e]
    BY <1>1, <1>7, MarkedRow
  <2>3. CASE status[First(w)] # "PROCESSING"
    <3>1. status'[First(w)] = status[First(w)]
      BY <1>1, <1>7, <2>3, MarkedRow
    <3> QED  BY <2>1, <2>2, <3>1, Stutters
  <2>4. CASE status[First(w)] = "PROCESSING" /\ MarkSent(w)
    <3>1. status'[First(w)] = "SENT" /\ sent[First(w)] > 0
      BY <1>1, <2>1, <2>4 DEF MarkSent, Markable, Types, Accepted
    <3> QED  BY <2>1, <2>2, <2>4, <3>1, Moves, Meanings
  <2>5. CASE status[First(w)] = "PROCESSING" /\ MarkFailed(w)
    <3>1. status'[First(w)] \in {"FAILED", "PERMANENTLY_FAILED"}
      BY <1>1, <2>1, <2>5 DEF MarkFailed, Markable, Types
    <3>2. CASE status'[First(w)] = "FAILED"
      BY <2>1, <2>2, <2>5, <3>2, Stutters, Meanings
    <3>3. CASE status'[First(w)] = "PERMANENTLY_FAILED"
      BY <2>1, <2>2, <2>5, <3>3, Moves, Meanings
    <3> QED  BY <3>1, <3>2, <3>3
  <2> QED  BY <1>7, <2>3, <2>4, <2>5
<1>8. ASSUME NEW e \in Events, Evaluate(e) \/ RetryDue(e) \/ GetStale(e)
      PROVE  [Outbox!Next]_(Outbox!vars)
  BY <1>3, <1>4, <1>8 DEF Evaluate, RetryDue, GetStale
<1>9. ASSUME NEW w \in Workers, DbError(w) \/ Crash(w) \/ \E e \in Events : Reconcile(w, e)
      PROVE  [Outbox!Next]_(Outbox!vars)
  BY <1>3, <1>4, <1>9 DEF DbError, Crash, Reconcile, rows
<1>10. CASE UNCHANGED vars
  BY <1>3, <1>10 DEF vars
<1> QED  BY <1>5, <1>6, <1>7, <1>8, <1>9, <1>10 DEF Next, Work

(* An enqueued e-mail waits until a server has accepted it or it is given   *)
(* up, and then rests: workers that are slow, reclaim rows or die, and      *)
(* selections that are evaluated again, implement the outbox of Delivery.   *)
THEOREM EmailsAreDelivered == Spec => Delivers
  BY InitDelivers, StepDelivers, Inductive, PTL DEF Spec, Delivers, Outbox!Spec
=============================================================================
