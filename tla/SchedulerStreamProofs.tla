------------------------ MODULE SchedulerStreamProofs -------------------------
(***************************************************************************)
(* The scheduler and the event stream, for any values of their constants.  *)
(* Of the scheduler: its types, with the uniqueness of names and the floor *)
(* of the counts, and that it never sleeps past a schedule; what the sort  *)
(* and the filter of the list return is proved first, by counting ranks.   *)
(* Of the stream: its types, that every message is sent or announced, and  *)
(* that a client misses nothing without being told; the invariant relates  *)
(* what is on its way to the client to its cursor and to the bus.          *)
(* The two components share no state; they share this module.              *)
(***************************************************************************)
EXTENDS Scheduler, EventStream, FiniteSetTheorems, TLAPS

-----------------------------------------------------------------------------
(* Sorting and filtering *)

(* Distinct ranks within 1..n, n positions: every rank is taken. *)
LEMMA RanksTaken ==
  ASSUME NEW P, IsFiniteSet(P), NEW rank \in [P -> 1..Cardinality(P)],
         \A p, q \in P : rank[p] = rank[q] => p = q
  PROVE  \A i \in 1..Cardinality(P) : \E p \in P : rank[p] = i
<1>1. Cardinality(P) \in Nat
  BY FS_CardinalityType
<1>2. /\ IsFiniteSet(1..Cardinality(P))
      /\ Cardinality(1..Cardinality(P)) = Cardinality(P)
  BY <1>1, FS_Interval
<1>3. rank \in Injection(P, 1..Cardinality(P))
  BY DEF Injection, IsInjective
<1>4. rank \in Surjection(P, 1..Cardinality(P))
  BY <1>2, <1>3, FS_Injection
<1>. QED  BY <1>4 DEF Surjection

(* What Placed returns: every ranked position in its place, and no other.  *)
LEMMA PlacedByRank ==
  ASSUME NEW S, NEW ids \in Seq(S), NEW P, P \subseteq DOMAIN ids,
         NEW rank, rank \in [P -> 1..Cardinality(P)],
         \A p, q \in P : rank[p] = rank[q] => p = q
  PROVE  LET seq == Placed(ids, rank)
         IN  /\ seq \in Seq(S)
             /\ DOMAIN seq = 1..Cardinality(P)
             /\ \A i \in DOMAIN seq : \E p \in P : rank[p] = i /\ seq[i] = ids[p]
             /\ \A p \in P : seq[rank[p]] = ids[p]
<1>. DEFINE seq == Placed(ids, rank)
            n == Cardinality(P)
<1>0. DOMAIN ids = 1..Len(ids) /\ Len(ids) \in Nat
  OBVIOUS
<1>1. IsFiniteSet(P) /\ n \in Nat
  <2>1. IsFiniteSet(1..Len(ids))
    BY <1>0, FS_Interval
  <2>2. IsFiniteSet(P)
    BY <1>0, <2>1, FS_Subset
  <2>. QED  BY <2>2, FS_CardinalityType
<1>2. \A i \in 1..n : \E p \in P : rank[p] = i
  BY <1>1, RanksTaken
<1>3. DOMAIN rank = P
  OBVIOUS
<1>4. seq = [i \in 1..n |-> ids[CHOOSE p \in P : rank[p] = i]]
  BY <1>3 DEF Placed
<1>5. ASSUME NEW i \in 1..n
      PROVE  \E p \in P : rank[p] = i /\ seq[i] = ids[p]
  <2>1. PICK p \in P : rank[p] = i
    BY <1>2
  <2>2. (CHOOSE q \in P : rank[q] = i) = p
    BY <2>1
  <2>. QED  BY <1>4, <2>1, <2>2
<1>6. ASSUME NEW p \in P
      PROVE  seq[rank[p]] = ids[p]
  <2>1. rank[p] \in 1..n
    OBVIOUS
  <2>. QED  BY <1>5, <2>1
<1>7. DOMAIN seq = 1..n
  BY <1>4
<1>8. \A i \in 1..n : seq[i] \in S
  BY <1>5
<1>9. seq \in Seq(S)
  <2>1. seq \in [1..n -> S]
    <3>. HIDE DEF seq
    <3>. QED BY <1>4, <1>8, Zenon
  <2>. QED  BY <1>1, <2>1
<1>. QED  BY <1>5, <1>6, <1>7, <1>9

(* A rank that counts the positions up to and including one.               *)
LEMMA CountedRank ==
  ASSUME NEW P, IsFiniteSet(P), NEW upTo \in [P -> SUBSET P],
         \A p \in P : p \in upTo[p],
         \A p, q \in P : p # q => \/ upTo[p] \subseteq upTo[q] /\ q \notin upTo[p]
                                  \/ upTo[q] \subseteq upTo[p] /\ p \notin upTo[q]
  PROVE  LET rank == [p \in P |-> Cardinality(upTo[p])]
         IN  /\ rank \in [P -> 1..Cardinality(P)]
             /\ \A p, q \in P : rank[p] = rank[q] => p = q
<1>. DEFINE rank == [p \in P |-> Cardinality(upTo[p])]
<1>0. Cardinality(P) \in Nat
  BY FS_CardinalityType
<1>1. ASSUME NEW p \in P
      PROVE  /\ IsFiniteSet(upTo[p])
             /\ Cardinality(upTo[p]) \in 1..Cardinality(P)
  <2>1. IsFiniteSet(upTo[p]) /\ Cardinality(upTo[p]) <= Cardinality(P)
    BY FS_Subset
  <2>2. Cardinality(upTo[p]) \in Nat
    BY <2>1, FS_CardinalityType
  <2>3. Cardinality(upTo[p]) # 0
    BY <2>1, FS_EmptySet
  <2>. QED  BY <1>0, <2>1, <2>2, <2>3
<1>2. ASSUME NEW p \in P, NEW q \in P, upTo[p] \subseteq upTo[q],
             q \notin upTo[p]
      PROVE  rank[p] # rank[q]
  <2>1. upTo[p] # upTo[q]
    BY <1>2
  <2>2. Cardinality(upTo[p]) # Cardinality(upTo[q])
    BY <1>1, <1>2, <2>1, FS_Subset
  <2>. QED  BY <2>2
<1>3. ASSUME NEW p \in P, NEW q \in P, p # q
      PROVE  rank[p] # rank[q]
  <2>1. CASE upTo[p] \subseteq upTo[q] /\ q \notin upTo[p]
    BY <1>2, <2>1
  <2>2. CASE upTo[q] \subseteq upTo[p] /\ p \notin upTo[q]
    BY <1>2, <2>2
  <2>. QED  BY <1>3, <2>1, <2>2
<1>. QED  BY <1>1, <1>3

(* What filter returns. *)
LEMMA FilteredList ==
  ASSUME NEW S, NEW ids, ids \in Seq(S), NEW keep,
         \A i, j \in DOMAIN ids : ids[i] = ids[j] => i = j
  PROVE  /\ Filtered(ids, keep) \in Seq(S)
         /\ Range(Filtered(ids, keep)) = Range(ids) \cap keep
         /\ \A i, j \in DOMAIN Filtered(ids, keep) :
              Filtered(ids, keep)[i] = Filtered(ids, keep)[j] => i = j
<1>. DEFINE P == {p \in DOMAIN ids : ids[p] \in keep}
            upTo == [p \in P |-> {q \in P : q <= p}]
            rank == [p \in P |-> Cardinality({q \in P : q <= p})]
            seq == Filtered(ids, keep)
<1>0. DOMAIN ids = 1..Len(ids) /\ Len(ids) \in Nat
  OBVIOUS
<1>1. IsFiniteSet(P) /\ P \subseteq Nat
  <2>1. IsFiniteSet(1..Len(ids)) /\ P \subseteq 1..Len(ids)
    BY <1>0, FS_Interval
  <2>. QED  BY <2>1, FS_Subset
<1>2. upTo \in [P -> SUBSET P] /\ \A p \in P : p \in upTo[p]
  BY <1>1
<1>3. ASSUME NEW p \in P, NEW q \in P, p # q
      PROVE  \/ upTo[p] \subseteq upTo[q] /\ q \notin upTo[p]
             \/ upTo[q] \subseteq upTo[p] /\ p \notin upTo[q]
  <2>1. p \in Nat /\ q \in Nat
    BY <1>1
  <2>2. p < q \/ q < p
    BY <1>3, <2>1
  <2>. QED  BY <1>1, <2>1, <2>2
<1>4. rank = [p \in P |-> Cardinality(upTo[p])]
  OBVIOUS
<1>5. /\ rank \in [P -> 1..Cardinality(P)]
      /\ \A p, q \in P : rank[p] = rank[q] => p = q
  <2>. HIDE DEF P, upTo, rank
  <2>1. LET r == [p \in P |-> Cardinality(upTo[p])]
        IN  /\ r \in [P -> 1..Cardinality(P)]
            /\ \A p, q \in P : r[p] = r[q] => p = q
    BY <1>1, <1>2, <1>3, CountedRank
  <2>. QED  BY <1>4, <2>1, Zenon
<1>6. seq = Placed(ids, rank)
  BY DEF Filtered
<1>7. P \subseteq DOMAIN ids
  OBVIOUS
<1>8. /\ seq \in Seq(S)
      /\ DOMAIN seq = 1..Cardinality(P)
      /\ \A i \in DOMAIN seq : \E p \in P : rank[p] = i /\ seq[i] = ids[p]
      /\ \A p \in P : seq[rank[p]] = ids[p]
  <2>. HIDE DEF P, rank, seq
  <2>1. Placed(ids, rank) \in Seq(S)
    BY <1>5, <1>7, PlacedByRank
  <2>2. DOMAIN Placed(ids, rank) = 1..Cardinality(P)
    BY <1>5, <1>7, PlacedByRank
  <2>3. \A p \in P : Placed(ids, rank)[rank[p]] = ids[p]
    BY <1>5, <1>7, PlacedByRank
  <2>4. \A i \in DOMAIN Placed(ids, rank) :
          \E p \in P : rank[p] = i /\ Placed(ids, rank)[i] = ids[p]
    BY <1>5, <1>7, PlacedByRank
  <2>. QED  BY <1>6, <2>1, <2>2, <2>3, <2>4
<1>9. Range(seq) = Range(ids) \cap keep
  <2>. HIDE DEF rank, seq
  <2>1. ASSUME NEW x \in Range(seq) PROVE x \in Range(ids) \cap keep
    BY <1>8 DEF Range
  <2>2. ASSUME NEW x \in Range(ids), x \in keep PROVE x \in Range(seq)
    <3>1. PICK p \in P : ids[p] = x
      BY <2>2 DEF Range
    <3>2. rank[p] \in DOMAIN seq
      BY <1>5, <1>8
    <3>3. seq[rank[p]] = x
      BY <1>8, <3>1
    <3>. QED  BY <3>2, <3>3, Zenon DEF Range
  <2>. QED  BY <2>1, <2>2
<1>10. ASSUME NEW i \in DOMAIN seq, NEW j \in DOMAIN seq, seq[i] = seq[j]
       PROVE  i = j
  <2>. HIDE DEF rank, seq
  <2>1. PICK p \in P : rank[p] = i /\ seq[i] = ids[p]
    BY <1>8
  <2>2. PICK q \in P : rank[q] = j /\ seq[j] = ids[q]
    BY <1>8
  <2>3. p = q
    BY <1>10, <2>1, <2>2
  <2>. QED  BY <2>1, <2>2, <2>3
<1>. QED  BY <1>8, <1>9, <1>10

(* What sort returns: the same entries, the first of them due the first.  *)
LEMMA SortedList ==
  ASSUME NEW S, entries \in Seq(S),
         \A i, j \in DOMAIN entries : entries[i] = entries[j] => i = j,
         \A id \in Listed : objects[id].fireIn \in Nat
  PROVE  /\ Sorted \in Seq(S)
         /\ Range(Sorted) = Listed
         /\ \A i, j \in DOMAIN Sorted : Sorted[i] = Sorted[j] => i = j
         /\ entries # <<>> => /\ FirstDue \in Nat
                              /\ \A id \in Listed : FirstDue <= objects[id].fireIn
<1>. DEFINE P == DOMAIN entries
            time == [p \in P |-> objects[entries[p]].fireIn]
            upTo == [p \in P |-> {q \in P : FiresBefore(q, p)}]
            rank == [p \in P |-> Cardinality({q \in P : FiresBefore(q, p)})]
<1>0. P = 1..Len(entries) /\ Len(entries) \in Nat
  OBVIOUS
<1>1. IsFiniteSet(P) /\ P \subseteq Nat
  BY <1>0, FS_Interval
<1>2. \A p \in P : time[p] \in Nat
  BY DEF Listed, Range
<1>3. \A p, q \in P : FiresBefore(p, q) <=> time[p] < time[q] \/ (time[p] = time[q] /\ p <= q)
  BY DEF FiresBefore
<1>4. upTo \in [P -> SUBSET P] /\ \A p \in P : p \in upTo[p]
  BY <1>1, <1>3
<1>5. ASSUME NEW p \in P, NEW q \in P, p # q
      PROVE  \/ upTo[p] \subseteq upTo[q] /\ q \notin upTo[p]
             \/ upTo[q] \subseteq upTo[p] /\ p \notin upTo[q]
  <2>1. p \in Nat /\ q \in Nat /\ time[p] \in Nat /\ time[q] \in Nat
    BY <1>1, <1>2
  <2>2. \A a \in P : \A b : b \in upTo[a] <=>
          b \in P /\ (time[b] < time[a] \/ (time[b] = time[a] /\ b <= a))
    BY <1>3
  <2>. HIDE DEF P, time, upTo
  <2>3. CASE time[p] < time[q] \/ (time[p] = time[q] /\ p < q)
    <3>1. \A b \in P : b \in Nat /\ time[b] \in Nat
      BY <1>1, <1>2
    <3>2. q \notin upTo[p]
      BY <2>1, <2>2, <2>3
    <3>3. ASSUME NEW b \in upTo[p] PROVE b \in upTo[q]
      <4>1. b \in P /\ (time[b] < time[p] \/ (time[b] = time[p] /\ b <= p))
        BY <2>2
      <4>2. b \in Nat /\ time[b] \in Nat
        BY <3>1, <4>1
      <4>3. time[b] < time[q] \/ (time[b] = time[q] /\ b <= q)
        BY <2>1, <2>3, <4>1, <4>2
      <4>. QED  BY <2>2, <4>1, <4>3
    <3>. QED  BY <3>2, <3>3
  <2>4. CASE time[q] < time[p] \/ (time[p] = time[q] /\ q < p)
    <3>1. \A b \in P : b \in Nat /\ time[b] \in Nat
      BY <1>1, <1>2
    <3>2. p \notin upTo[q]
      BY <2>1, <2>2, <2>4
    <3>3. ASSUME NEW b \in upTo[q] PROVE b \in upTo[p]
      <4>1. b \in P /\ (time[b] < time[q] \/ (time[b] = time[q] /\ b <= q))
        BY <2>2
      <4>2. b \in Nat /\ time[b] \in Nat
        BY <3>1, <4>1
      <4>3. time[b] < time[p] \/ (time[b] = time[p] /\ b <= p)
        BY <2>1, <2>4, <4>1, <4>2
      <4>. QED  BY <2>2, <4>1, <4>3
    <3>. QED  BY <3>2, <3>3
  <2>. QED  BY <1>5, <2>1, <2>3, <2>4
<1>6. rank = [p \in P |-> Cardinality(upTo[p])]
  OBVIOUS
<1>7. /\ rank \in [P -> 1..Cardinality(P)]
      /\ \A p, q \in P : rank[p] = rank[q] => p = q
  <2>. HIDE DEF P, upTo, rank
  <2>1. LET r == [p \in P |-> Cardinality(upTo[p])]
        IN  /\ r \in [P -> 1..Cardinality(P)]
            /\ \A p, q \in P : r[p] = r[q] => p = q
    BY <1>1, <1>4, <1>5, CountedRank
  <2>. QED  BY <1>6, <2>1, Zenon
<1>8. Sorted = Placed(entries, rank)
  BY DEF Sorted
<1>9. P \subseteq DOMAIN entries
  OBVIOUS
<1>10. /\ Sorted \in Seq(S)
       /\ DOMAIN Sorted = 1..Cardinality(P)
       /\ \A i \in DOMAIN Sorted : \E p \in P : rank[p] = i /\ Sorted[i] = entries[p]
       /\ \A p \in P : Sorted[rank[p]] = entries[p]
  <2>. HIDE DEF P, rank
  <2>1. Placed(entries, rank) \in Seq(S)
    BY <1>7, <1>9, PlacedByRank
  <2>2. DOMAIN Placed(entries, rank) = 1..Cardinality(P)
    BY <1>7, <1>9, PlacedByRank
  <2>3. \A p \in P : Placed(entries, rank)[rank[p]] = entries[p]
    BY <1>7, <1>9, PlacedByRank
  <2>4. \A i \in DOMAIN Placed(entries, rank) :
          \E p \in P : rank[p] = i /\ Placed(entries, rank)[i] = entries[p]
    BY <1>7, <1>9, PlacedByRank
  <2>. QED  BY <1>8, <2>1, <2>2, <2>3, <2>4
<1>11. Range(Sorted) = Listed
  <2>. HIDE DEF rank
  <2>1. ASSUME NEW x \in Range(Sorted) PROVE x \in Listed
    BY <1>10 DEF Range, Listed
  <2>2. ASSUME NEW x \in Listed PROVE x \in Range(Sorted)
    <3>1. PICK p \in P : entries[p] = x
      BY DEF Range, Listed
    <3>2. rank[p] \in DOMAIN Sorted
      BY <1>7, <1>10
    <3>3. Sorted[rank[p]] = x
      BY <1>10, <3>1
    <3>. QED  BY <3>2, <3>3, Zenon DEF Range
  <2>. QED  BY <2>1, <2>2
<1>12. ASSUME NEW i \in DOMAIN Sorted, NEW j \in DOMAIN Sorted, Sorted[i] = Sorted[j]
       PROVE  i = j
  <2>. HIDE DEF rank
  <2>1. PICK p \in P : rank[p] = i /\ Sorted[i] = entries[p]
    BY <1>10
  <2>2. PICK q \in P : rank[q] = j /\ Sorted[j] = entries[q]
    BY <1>10
  <2>3. p = q
    BY <1>12, <2>1, <2>2
  <2>. QED  BY <2>1, <2>2, <2>3
<1>13. ASSUME entries # <<>>
       PROVE  /\ FirstDue \in Nat
              /\ \A id \in Listed : FirstDue <= objects[id].fireIn
  <2>1. P # {}
    BY <1>0, <1>13
  <2>2. Cardinality(P) \in Nat /\ Cardinality(P) # 0
    BY <1>1, <2>1, FS_CardinalityType, FS_EmptySet
  <2>3. 1 \in DOMAIN Sorted
    BY <1>10, <2>2
  <2>4. PICK p \in P : rank[p] = 1 /\ Sorted[1] = entries[p]
    BY <1>10, <2>3
  <2>5. Cardinality(upTo[p]) = 1 /\ IsFiniteSet(upTo[p])
    BY <1>1, <1>4, <2>4, FS_Subset
  <2>6. upTo[p] = {p}
    <3>1. PICK x : upTo[p] = {x}
      BY <2>5, FS_Singleton
    <3>2. p \in upTo[p]
      BY <1>4
    <3>. QED  BY <3>1, <3>2
  <2>7. FirstDue = time[p]
    BY <2>4 DEF FirstDue
  <2>8. ASSUME NEW q \in P PROVE time[p] <= time[q]
    <3>1. CASE q = p
      BY <1>2, <3>1
    <3>2. CASE q # p
      <4>1. ~FiresBefore(q, p)
        BY <2>6, <3>2
      <4>. HIDE DEF time
      <4>. QED  BY <1>2, <1>3, <4>1
    <3>. QED  BY <3>1, <3>2
  <2>. QED  BY <1>2, <2>7, <2>8 DEF Listed, Range
<1>. QED  BY <1>10, <1>11, <1>12, <1>13

-----------------------------------------------------------------------------
(* The inductive invariant *)

Starting == {starting[c] : c \in Clients} \ {0}
Alive == Listed \cup Range(due) \cup Starting

(* No entry is due twice; the entry a client starts a scheduler with is    *)
(* its own, and unknown to the scheduler; what may still be counted has    *)
(* not been counted below zero.                                            *)
DueOnce == \A i, j \in DOMAIN due : due[i] = due[j] => i = j
SeedsApart ==
  \A c \in Clients : starting[c] # 0 =>
    /\ starting[c] \notin Listed \cup Range(due)
    /\ \A d \in Clients : starting[d] = starting[c] => d = c
CountsLeft == \A id \in Alive : objects[id].remaining >= 0
BatchInv == pc \in {"firing", "settle", "cron"} => due # <<>>

SchedulerInv == TypeOK /\ DueOnce /\ SeedsApart /\ CountsLeft /\ BatchInv /\ NeverOversleeps

LEMMA Times ==
  /\ Delays \subseteq Nat /\ Untils \subseteq Nat /\ Counts \subseteq Nat /\ CronGaps \subseteq Nat
  /\ Interval \in Nat /\ Grace \in Nat /\ MaxCreates \in Nat
  /\ Types \subseteq {"once", "interval", "cron"}
  BY SchedulerTimesAssumption, TypesAssumption DEF Never

LEMMA CountDownOrdered ==
  /\ \A t \in Nat : CountDown(t) \in Nat
  /\ \A s, t \in Nat : s <= t => CountDown(s) <= CountDown(t)
  BY DEF CountDown, Never

LEMMA SeqOfMore ==
  ASSUME NEW m \in Nat, NEW n \in Nat, m <= n, NEW ids \in Seq(1..m)
  PROVE  ids \in Seq(1..n)
<1>1. 1..m \subseteq 1..n
  OBVIOUS
<1>. QED  BY <1>1

(* The types, for what the entries refer to. *)
LEMMA Known ==
  ASSUME TypeOK
  PROVE  /\ entries \in Seq(1..created) /\ due \in Seq(1..created)
         /\ created \in Nat /\ created <= MaxCreates
         /\ objects \in [1..MaxCreates -> Objects]
         /\ Listed \subseteq 1..created /\ Range(due) \subseteq 1..created
         /\ Starting \subseteq 1..created
         /\ 1..created \subseteq 1..MaxCreates
         /\ \A id \in 1..created : objects[id] \in Objects
         /\ \A i, j \in DOMAIN entries : entries[i] = entries[j] => i = j
<1>1. entries \in Seq(1..created) /\ due \in Seq(1..created)
  BY DEF TypeOK
<1>2. Listed \subseteq 1..created /\ Range(due) \subseteq 1..created
  <2>. DEFINE S == 1..created
  <2>. HIDE DEF S
  <2>1. entries \in Seq(S) /\ due \in Seq(S)
    BY <1>1 DEF S
  <2>2. \A i \in DOMAIN entries : entries[i] \in S
    BY <2>1
  <2>3. \A i \in DOMAIN due : due[i] \in S
    BY <2>1
  <2>. QED  BY <2>2, <2>3, Zenon DEF Listed, Range, S
<1>3. created \in Nat /\ created <= MaxCreates
  BY Times DEF TypeOK
<1>4. 1..created \subseteq 1..MaxCreates
  BY <1>3, Times
<1>5. Starting \subseteq 1..created
  BY <1>3 DEF TypeOK, Starting
<1>6. \A i, j \in DOMAIN entries : entries[i] = entries[j] => i = j
  BY DEF TypeOK
<1>7. objects \in [1..MaxCreates -> Objects]
  BY DEF TypeOK
<1>8. \A id \in 1..created : objects[id] \in Objects
  BY <1>4, <1>7
<1>. QED  BY <1>1, <1>2, <1>3, <1>4, <1>5, <1>6, <1>7, <1>8

(* Taking names out of the list. *)
LEMMA WithoutList ==
  ASSUME TypeOK, NEW name
  PROVE  /\ Without(name) \in Seq(1..created)
         /\ Range(Without(name)) = {id \in Listed : NameOf(id) # name}
         /\ \A i, j \in DOMAIN Without(name) : i # j =>
              NameOf(Without(name)[i]) # NameOf(Without(name)[j])
<1>. DEFINE keep == {id \in Listed : NameOf(id) # name}
            seq == Filtered(entries, keep)
<1>1. /\ seq \in Seq(1..created)
      /\ Range(seq) = Range(entries) \cap keep
      /\ \A i, j \in DOMAIN seq : seq[i] = seq[j] => i = j
  <2>. HIDE DEF keep
  <2>. QED  BY Known, FilteredList
<1>2. Range(seq) = keep
  BY <1>1 DEF Listed
<1>3. Without(name) = seq
  BY DEF Without
<1>4. ASSUME NEW i \in DOMAIN seq, NEW j \in DOMAIN seq, i # j
      PROVE  NameOf(seq[i]) # NameOf(seq[j])
  <2>. HIDE DEF seq
  <2>1. seq[i] \in Listed /\ seq[j] \in Listed /\ seq[i] # seq[j]
    BY <1>1, <1>2, <1>4 DEF Range
  <2>2. PICK p \in DOMAIN entries : entries[p] = seq[i]
    BY <2>1 DEF Listed, Range
  <2>3. PICK q \in DOMAIN entries : entries[q] = seq[j]
    BY <2>1 DEF Listed, Range
  <2>. QED  BY <2>1, <2>2, <2>3 DEF TypeOK
<1>. HIDE DEF seq
<1>. QED  BY <1>1, <1>2, <1>3, <1>4

(* What a list needs of its entries, whatever the objects became. *)
UniqueNames(ids, objs) == \A i, j \in DOMAIN ids : i # j => objs[ids[i]].name # objs[ids[j]].name

LEMMA NewObjectMakes ==
  ASSUME TypeOK, NEW name \in Names, NEW type \in Types, NEW delay \in Delays,
         NEW until \in Untils, NEW count \in Counts,
         NewObject(name, type, delay, until, count)
  PROVE  /\ created' = created + 1 /\ created' \in 0..MaxCreates /\ created' \in 1..MaxCreates
         /\ objects' \in [1..MaxCreates -> Objects]
         /\ objects'[created'].name = name /\ objects'[created'].remaining \in Nat
         /\ \A id \in 1..created : objects'[id] = objects[id]
<1>. DEFINE new == [name |-> name, type |-> type, fireIn |-> delay,
                    untilIn |-> until, remaining |-> count]
<1>1. created' = created + 1 /\ created' \in 0..MaxCreates /\ created' \in 1..MaxCreates
  BY Known, Times DEF NewObject
<1>2. new \in Objects
  BY Times DEF Objects
<1>3. objects' = [objects EXCEPT ![created'] = new]
  BY DEF NewObject
<1>4. objects'[created'] = new
  BY <1>1, <1>3, Known
<1>5. \A id \in 1..created : id # created'
  BY <1>1, Known
<1>6. objects' \in [1..MaxCreates -> Objects]
  <2>. HIDE DEF new
  <2>. QED  BY <1>2, <1>3, Known
<1>7. \A id \in 1..created : objects'[id] = objects[id]
  <2>. HIDE DEF new
  <2>. QED  BY <1>3, <1>5, Known
<1>. QED  BY <1>1, <1>4, <1>6, <1>7, Times

(* Adding an entry of a name: still one of each name. *)
LEMMA AddedList ==
  ASSUME TypeOK, NEW name, NEW m \in Nat, m = created + 1, NEW objs,
         objs[m].name = name, \A id \in 1..created : objs[id].name = objects[id].name
  PROVE  /\ Added(m, name) \in Seq(1..m)
         /\ Range(Added(m, name)) \subseteq Listed \cup {m}
         /\ UniqueNames(Added(m, name), objs)
<1>0. /\ entries \in Seq(1..created) /\ created \in Nat /\ m \in 1..m
      /\ DOMAIN entries = 1..Len(entries) /\ Len(entries) \in Nat
  BY Known
<1>1. entries \in Seq(1..m)
  BY <1>0, SeqOfMore
<1>2. \A i \in DOMAIN entries : entries[i] \in 1..created /\ objs[entries[i]].name = NameOf(entries[i])
  BY <1>0 DEF NameOf
<1>3. \A i, j \in DOMAIN entries : i # j => NameOf(entries[i]) # NameOf(entries[j])
  BY DEF TypeOK
<1>4. CASE \E other \in Listed : NameOf(other) = name
  <2>. DEFINE seq == [i \in DOMAIN entries |-> IF NameOf(entries[i]) = name THEN m ELSE entries[i]]
  <2>1. Added(m, name) = seq
    BY <1>4 DEF Added
  <2>2. DOMAIN seq = DOMAIN entries
    OBVIOUS
  <2>3. \A i \in DOMAIN entries : seq[i] \in 1..m /\ seq[i] \in Listed \cup {m}
    BY <1>0, <1>1 DEF Listed, Range
  <2>4. \A i \in DOMAIN entries : objs[seq[i]].name = NameOf(entries[i])
    BY <1>2
  <2>5. seq \in [1..Len(entries) -> 1..m]
    BY <1>0, <2>3
  <2>. HIDE DEF seq
  <2>6. seq \in Seq(1..m)
    <3>1. Len(entries) \in Nat
      BY <1>0
    <3>. QED  BY <2>5, <3>1
  <2>7. UniqueNames(seq, objs)
    BY <1>3, <2>2, <2>4 DEF UniqueNames
  <2>8. Range(seq) \subseteq Listed \cup {m}
    BY <2>2, <2>3 DEF Range
  <2>. QED  BY <2>1, <2>6, <2>7, <2>8
<1>5. CASE ~\E other \in Listed : NameOf(other) = name
  <2>. DEFINE seq == Append(entries, m)
  <2>1. Added(m, name) = seq
    BY <1>5 DEF Added
  <2>2. /\ seq \in Seq(1..m) /\ DOMAIN seq = 1..(Len(entries) + 1)
        /\ seq[Len(entries) + 1] = m
        /\ \A i \in DOMAIN entries : seq[i] = entries[i]
    BY <1>0, <1>1
  <2>. HIDE DEF seq
  <2>3. \A i \in DOMAIN seq : i \in DOMAIN entries \/ i = Len(entries) + 1
    BY <1>0, <2>2
  <2>4. \A i \in DOMAIN entries : objs[seq[i]].name = NameOf(entries[i]) /\ NameOf(entries[i]) # name
    BY <1>2, <1>5, <2>2 DEF Listed, Range
  <2>5. UniqueNames(seq, objs)
    BY <1>3, <2>2, <2>3, <2>4 DEF UniqueNames
  <2>6. Range(seq) \subseteq Listed \cup {m}
    BY <2>2, <2>3 DEF Range, Listed
  <2>. QED  BY <2>1, <2>2, <2>5, <2>6
<1>. QED  BY <1>4, <1>5

-----------------------------------------------------------------------------
(* Clients and handlers *)

LEMMA SchedulerInit == Init => SchedulerInv
<1>. SUFFICES ASSUME Init PROVE SchedulerInv
  OBVIOUS
<1>. USE DEF Init
<1>1. TypeOK
  <2>1. NoSchedule \in Objects
    BY DEF NoSchedule, Objects, Never
  <2>2. objects \in [1..MaxCreates -> Objects]
    BY <2>1
  <2>3. entries \in Seq(1..created) /\ due \in Seq(1..created)
    OBVIOUS
  <2>4. \A i, j \in DOMAIN entries : i # j => NameOf(entries[i]) # NameOf(entries[j])
    OBVIOUS
  <2>5. starting \in [Clients -> 0..created] /\ created \in 0..MaxCreates
    BY Times
  <2>. QED  BY <2>2, <2>3, <2>4, <2>5 DEF TypeOK, Closed
<1>2. Alive = {}
  BY DEF Alive, Listed, Range, Starting
<1>. QED  BY <1>1, <1>2 DEF SchedulerInv, DueOnce, SeedsApart, CountsLeft, BatchInv, NeverOversleeps

(* Steps that drop entries, or make a batch of listed ones. *)
LEMMA NothingNew ==
  ASSUME SchedulerInv, starting' = starting,
         Listed' \subseteq Listed, Range(due') \subseteq Listed \cup Range(due)
  PROVE  SeedsApart' /\ Alive' \subseteq Alive
BY DEF SchedulerInv, SeedsApart, Alive, Starting

LEMMA SameEntries ==
  ASSUME entries' = entries, objects' = objects
  PROVE  /\ Listed' = Listed
         /\ \A i \in DOMAIN entries : NameOf(entries[i])' = NameOf(entries[i])
BY DEF Listed, Range, NameOf

(* A step that leaves entries, objects and batch alone. *)
LEMMA LoopMoves ==
  ASSUME SchedulerInv,
         UNCHANGED <<objects, created, entries, due, starting>>,
         dirty' \in BOOLEAN, schedulerPaused' \in BOOLEAN, wakeIn' \in Nat,
         pc' \in Awaiting \cup Closed \cup {"top", "fire", "settle"},
         pc' \in {"firing", "settle", "cron"} => due # <<>>,
         pc' = "sleep" /\ ~dirty' => \A id \in Listed : wakeIn' <= objects[id].fireIn
  PROVE  SchedulerInv'
<1>. USE DEF SchedulerInv
<1>1. TypeOK'
  BY DEF TypeOK, NameOf
<1>2. Listed' = Listed /\ Alive' = Alive
  BY DEF Listed, Range, Alive, Starting
<1>3. DueOnce'
  BY DEF DueOnce
<1>4. SeedsApart'
  BY <1>2 DEF SeedsApart, Range
<1>5. CountsLeft'
  BY <1>2 DEF CountsLeft
<1>6. BatchInv'
  BY DEF BatchInv
<1>7. NeverOversleeps'
  BY <1>2 DEF NeverOversleeps
<1>. QED  BY <1>1, <1>3, <1>4, <1>5, <1>6, <1>7

LEMMA SignalCreates ==
  ASSUME SchedulerInv, NEW name \in Names, NEW type \in Types, NEW delay \in Delays,
         NEW until \in Untils, NEW count \in Counts,
         CreateBySignal(name, type, delay, until, count)
  PROVE  SchedulerInv'
<1>. DEFINE m == created'
<1>0. TypeOK /\ NewObject(name, type, delay, until, count)
  BY DEF SchedulerInv, CreateBySignal
<1>1. /\ m = created + 1 /\ m \in 0..MaxCreates /\ m \in 1..MaxCreates
      /\ objects' \in [1..MaxCreates -> Objects]
      /\ objects'[m].name = name /\ objects'[m].remaining \in Nat
      /\ \A id \in 1..created : objects'[id] = objects[id]
  BY <1>0, NewObjectMakes
<1>2. /\ entries' = Added(m, name) /\ dirty' = TRUE
      /\ due' = due /\ schedulerPaused' = schedulerPaused /\ pc' = pc
      /\ wakeIn' = wakeIn /\ starting' = starting
  BY DEF CreateBySignal, WakesScheduler
<1>. HIDE DEF m
<1>3. m \in Nat /\ created \in Nat /\ created <= m /\ m \notin 1..created
  BY <1>0, <1>1, Known
<1>4. /\ entries' \in Seq(1..m)
      /\ Listed' \subseteq Listed \cup {m}
      /\ UniqueNames(entries', objects')
  <2>1. \A id \in 1..created : objects'[id].name = objects[id].name
    BY <1>1
  <2>. DEFINE objs == objects'
  <2>2. objs[m].name = name /\ \A id \in 1..created : objs[id].name = objects[id].name
    BY <1>1, <2>1
  <2>. HIDE DEF objs
  <2>3. Added(m, name) \in Seq(1..m)
    BY <1>0, <1>1, <1>3, <2>2, AddedList
  <2>4. Range(Added(m, name)) \subseteq Listed \cup {m}
    BY <1>0, <1>1, <1>3, <2>2, AddedList
  <2>5. UniqueNames(Added(m, name), objs)
    BY <1>0, <1>1, <1>3, <2>2, AddedList
  <2>. QED  BY <1>2, <2>3, <2>4, <2>5 DEF Listed, objs
<1>5. due' \in Seq(1..m)
  BY <1>0, <1>2, <1>3, Known, SeqOfMore
<1>6. starting' \in [Clients -> 0..m]
  BY <1>0, <1>2, <1>3 DEF TypeOK
<1>7. TypeOK'
  BY <1>0, <1>1, <1>2, <1>4, <1>5, <1>6 DEF TypeOK, UniqueNames, NameOf, m
<1>8. /\ \A c \in Clients : starting[c] # m
      /\ Range(due') = Range(due) /\ m \notin Range(due) /\ Starting' = Starting
  <2>1. Starting' = Starting /\ Range(due') = Range(due)
    BY <1>2 DEF Starting
  <2>2. Starting \subseteq 1..created /\ Range(due) \subseteq 1..created
    BY <1>0, Known
  <2>. QED  BY <1>1, <1>3, <2>1, <2>2 DEF Starting
<1>9. SeedsApart'
  BY <1>2, <1>4, <1>8 DEF SchedulerInv, SeedsApart
<1>10. CountsLeft'
  <2>1. Alive' \subseteq Alive \cup {m}
    BY <1>4, <1>8 DEF Alive
  <2>2. Alive \subseteq 1..created
    BY <1>0, Known DEF Alive
  <2>3. ASSUME NEW id \in Alive' PROVE objects'[id].remaining >= 0
    <3>1. CASE id = m
      BY <1>1, <3>1
    <3>2. CASE id # m
      BY <1>1, <2>1, <2>2, <3>2 DEF SchedulerInv, CountsLeft
    <3>. QED  BY <3>1, <3>2
  <2>. QED  BY <2>3 DEF CountsLeft
<1>11. DueOnce' /\ BatchInv' /\ NeverOversleeps'
  BY <1>2 DEF SchedulerInv, DueOnce, BatchInv, NeverOversleeps
<1>. QED  BY <1>7, <1>9, <1>10, <1>11 DEF SchedulerInv

LEMMA ClientFallsBack ==
  ASSUME SchedulerInv, NEW c \in Clients, NEW name \in Names, NEW type \in Types,
         NEW delay \in Delays, NEW until \in Untils, NEW count \in Counts,
         CreateFallsBack(c, name, type, delay, until, count)
  PROVE  SchedulerInv'
<1>. DEFINE m == created'
<1>0. TypeOK /\ NewObject(name, type, delay, until, count)
  BY DEF SchedulerInv, CreateFallsBack
<1>1. /\ m = created + 1 /\ m \in 0..MaxCreates /\ m \in 1..MaxCreates
      /\ objects' \in [1..MaxCreates -> Objects]
      /\ objects'[m].name = name /\ objects'[m].remaining \in Nat
      /\ \A id \in 1..created : objects'[id] = objects[id]
  BY <1>0, NewObjectMakes
<1>2. /\ entries' = entries /\ dirty' = dirty
      /\ due' = due /\ schedulerPaused' = schedulerPaused /\ pc' = pc
      /\ wakeIn' = wakeIn /\ starting' = [starting EXCEPT ![c] = m]
  BY DEF CreateFallsBack
<1>. HIDE DEF m
<1>3. m \in Nat /\ created \in Nat /\ created <= m /\ m \notin 1..created
  BY <1>0, <1>1, Known
<1>4. /\ Listed' = Listed /\ Range(due') = Range(due)
      /\ Listed \subseteq 1..created /\ Range(due) \subseteq 1..created
      /\ starting \in [Clients -> 0..created]
  BY <1>0, <1>2, Known DEF Listed, TypeOK
<1>5. entries' \in Seq(1..m) /\ due' \in Seq(1..m)
  BY <1>0, <1>2, <1>3, Known, SeqOfMore
<1>6. starting' \in [Clients -> 0..m]
  BY <1>2, <1>3, <1>4
<1>7. \A i \in DOMAIN entries : objects'[entries[i]] = objects[entries[i]]
  BY <1>1, <1>4 DEF Listed, Range
<1>8. TypeOK'
  <2>1. \A i, j \in DOMAIN entries' : i # j => NameOf(entries[i])' # NameOf(entries[j])'
    <3>1. \A i, j \in DOMAIN entries : i # j => NameOf(entries[i]) # NameOf(entries[j])
      BY <1>0 DEF TypeOK
    <3>2. \A i \in DOMAIN entries : NameOf(entries[i])' = NameOf(entries[i])
      BY <1>2, <1>7 DEF NameOf
    <3>. QED  BY <1>2, <3>1, <3>2
  <2>. QED  BY <1>0, <1>1, <1>2, <1>5, <1>6, <2>1 DEF TypeOK, m
<1>9. SeedsApart'
  <2>1. \A d \in Clients : starting'[d] = IF d = c THEN m ELSE starting[d]
    BY <1>2, <1>4
  <2>2. \A d \in Clients : starting[d] # m
    BY <1>1, <1>3, <1>4
  <2>3. m \notin Listed \cup Range(due)
    BY <1>3, <1>4
  <2>. QED  BY <1>4, <2>1, <2>2, <2>3 DEF SchedulerInv, SeedsApart
<1>10. CountsLeft'
  <2>1. Alive' \subseteq Alive \cup {m}
    BY <1>2, <1>4 DEF Alive, Starting
  <2>2. Alive \subseteq 1..created
    BY <1>0, Known DEF Alive
  <2>3. ASSUME NEW id \in Alive' PROVE objects'[id].remaining >= 0
    <3>1. CASE id = m
      BY <1>1, <3>1
    <3>2. CASE id # m
      BY <1>1, <2>1, <2>2, <3>2 DEF SchedulerInv, CountsLeft
    <3>. QED  BY <3>1, <3>2
  <2>. QED  BY <2>3 DEF CountsLeft
<1>11. NeverOversleeps'
  BY <1>1, <1>2, <1>4 DEF SchedulerInv, NeverOversleeps
<1>12. DueOnce' /\ BatchInv'
  BY <1>2 DEF SchedulerInv, DueOnce, BatchInv
<1>. QED  BY <1>8, <1>9, <1>10, <1>11, <1>12 DEF SchedulerInv

(* A step that moves entries between the lists, and creates none. *)
LEMMA ListsMove ==
  ASSUME SchedulerInv, UNCHANGED <<objects, created, starting>>,
         entries' \in Seq(1..created), due' \in Seq(1..created),
         UniqueNames(entries', objects),
         Listed' \subseteq Listed, Range(due') \subseteq Listed \cup Range(due), DueOnce',
         dirty' \in BOOLEAN, schedulerPaused' \in BOOLEAN, wakeIn' \in Nat,
         pc' \in Awaiting \cup Closed \cup {"top", "fire", "settle"},
         pc' \in {"firing", "settle", "cron"} => due' # <<>>,
         pc' = "sleep" /\ ~dirty' => \A id \in Listed' : wakeIn' <= objects[id].fireIn
  PROVE  SchedulerInv'
<1>1. TypeOK'
  BY DEF SchedulerInv, TypeOK, UniqueNames, NameOf
<1>2. SeedsApart' /\ Alive' \subseteq Alive
  BY NothingNew
<1>3. CountsLeft'
  BY <1>2 DEF SchedulerInv, CountsLeft
<1>4. BatchInv'
  BY DEF BatchInv
<1>5. NeverOversleeps'
  BY DEF NeverOversleeps
<1>. QED  BY <1>1, <1>2, <1>3, <1>4, <1>5 DEF SchedulerInv

LEMMA ClientSeeds ==
  ASSUME SchedulerInv, NEW c \in Clients, StartSeeds(c)
  PROVE  SchedulerInv'
<1>0. TypeOK /\ starting \in [Clients -> 0..created] /\ created \in Nat
  BY Known DEF SchedulerInv, TypeOK
<1>. DEFINE id == starting[c]
<1>1. /\ id # 0 /\ id \in 1..created /\ objects' = objects /\ created' = created
      /\ entries' = <<id>> /\ due' = <<>> /\ dirty' = FALSE /\ schedulerPaused' = FALSE
      /\ pc' = "top" /\ wakeIn' = 0 /\ starting' = [starting EXCEPT ![c] = 0]
  BY <1>0 DEF StartSeeds
<1>2. entries' \in Seq(1..created) /\ due' \in Seq(1..created)
  BY <1>1
<1>3. starting' \in [Clients -> 0..created]
  BY <1>0, <1>1
<1>4. TypeOK'
  <2>1. \A i, j \in DOMAIN entries' : i = j
    BY <1>1
  <2>. QED  BY <1>0, <1>1, <1>2, <1>3, <2>1, Times DEF TypeOK
<1>5. Listed' = {id} /\ Range(due') = {}
  BY <1>1 DEF Listed, Range
<1>6. \A d \in Clients : starting'[d] = IF d = c THEN 0 ELSE starting[d]
  BY <1>0, <1>1
<1>7. SeedsApart'
  BY <1>1, <1>5, <1>6 DEF SchedulerInv, SeedsApart
<1>8. CountsLeft'
  <2>1. id \in Starting /\ Starting' \subseteq Starting
    BY <1>1, <1>6 DEF Starting
  <2>. QED  BY <1>1, <1>5, <2>1 DEF SchedulerInv, CountsLeft, Alive
<1>9. DueOnce' /\ BatchInv' /\ NeverOversleeps'
  BY <1>1 DEF DueOnce, BatchInv, NeverOversleeps
<1>. QED  BY <1>4, <1>7, <1>8, <1>9 DEF SchedulerInv

LEMMA ClientUsesExisting ==
  ASSUME SchedulerInv, NEW c \in Clients, StartUsesExisting(c)
  PROVE  SchedulerInv'
<1>0. TypeOK /\ starting \in [Clients -> 0..created] /\ created \in Nat
  BY Known DEF SchedulerInv, TypeOK
<1>1. /\ starting' = [starting EXCEPT ![c] = 0]
      /\ UNCHANGED <<objects, created, entries, due, dirty, schedulerPaused, pc, wakeIn>>
  BY DEF StartUsesExisting
<1>2. starting' \in [Clients -> 0..created]
  BY <1>0, <1>1
<1>3. \A d \in Clients : starting'[d] = IF d = c THEN 0 ELSE starting[d]
  BY <1>0, <1>1
<1>4. Listed' = Listed /\ Range(due') = Range(due) /\ Starting' \subseteq Starting
  BY <1>1, <1>3 DEF Listed, Starting
<1>5. TypeOK'
  BY <1>0, <1>1, <1>2 DEF TypeOK, NameOf
<1>6. SeedsApart'
  BY <1>3, <1>4 DEF SchedulerInv, SeedsApart
<1>7. CountsLeft'
  BY <1>1, <1>4 DEF SchedulerInv, CountsLeft, Alive
<1>8. DueOnce' /\ BatchInv' /\ NeverOversleeps'
  BY <1>1, <1>4 DEF SchedulerInv, DueOnce, BatchInv, NeverOversleeps
<1>. QED  BY <1>5, <1>6, <1>7, <1>8 DEF SchedulerInv

LEMMA ScheduleRemoved ==
  ASSUME SchedulerInv, NEW name, RemoveSchedule(name)
  PROVE  SchedulerInv'
<1>0. TypeOK
  BY DEF SchedulerInv
<1>1. /\ entries' = Without(name) /\ dirty' = TRUE
      /\ UNCHANGED <<objects, created, due, schedulerPaused, pc, wakeIn, starting>>
  BY DEF RemoveSchedule, WakesScheduler
<1>2. /\ entries' \in Seq(1..created) /\ Listed' \subseteq Listed
      /\ UniqueNames(entries', objects)
  BY <1>0, <1>1, WithoutList DEF Listed, UniqueNames, NameOf
<1>3. due' \in Seq(1..created)
  BY <1>0, <1>1, Known
<1>4. /\ schedulerPaused' \in BOOLEAN /\ wakeIn' \in Nat
      /\ pc' \in Awaiting \cup Closed \cup {"top", "fire", "settle"}
  BY <1>0, <1>1 DEF TypeOK
<1>5. DueOnce' /\ Range(due') \subseteq Listed \cup Range(due)
  BY <1>1 DEF SchedulerInv, DueOnce
<1>6. pc' \in {"firing", "settle", "cron"} => due' # <<>>
  BY <1>1 DEF SchedulerInv, BatchInv
<1>. QED  BY <1>1, <1>2, <1>3, <1>4, <1>5, <1>6, ListsMove

LEMMA OtherSignals ==
  ASSUME SchedulerInv,
         UpdateScheduleTarget \/ \E value \in BOOLEAN : SchedulerSetPaused(value)
  PROVE  SchedulerInv'
<1>1. /\ UNCHANGED <<objects, created, entries, due, pc, wakeIn, starting>>
      /\ dirty' = TRUE /\ schedulerPaused' \in BOOLEAN
  BY DEF UpdateScheduleTarget, SchedulerSetPaused, WakesScheduler, SchedulerInv, TypeOK
<1>2. wakeIn' \in Nat /\ pc' \in Awaiting \cup Closed \cup {"top", "fire", "settle"}
  BY <1>1 DEF SchedulerInv, TypeOK
<1>3. pc' \in {"firing", "settle", "cron"} => due # <<>>
  BY <1>1 DEF SchedulerInv, BatchInv
<1>. QED  BY <1>1, <1>2, <1>3, LoopMoves

-----------------------------------------------------------------------------
(* The main loop *)

LEMMA LoopPlainSteps ==
  ASSUME SchedulerInv,
         LoopTop \/ GraceOver \/ WakeEarly \/ BeginFire \/ EndFire \/ CronFails \/ FinishBatch
  PROVE  SchedulerInv'
<1>1. /\ UNCHANGED <<objects, created, entries, due, schedulerPaused, starting>>
      /\ dirty' \in {FALSE, dirty} /\ wakeIn' \in {Grace, wakeIn}
      /\ pc' \in {"grace", "completed", "top", "settle", "firing", "failed"}
      /\ pc' \in {"firing", "settle", "cron"} => due # <<>>
  BY DEF LoopTop, GraceOver, WakeEarly, BeginFire, EndFire, CronFails, FinishBatch,
         SchedulerInv, BatchInv
<1>2. /\ dirty' \in BOOLEAN /\ schedulerPaused' \in BOOLEAN /\ wakeIn' \in Nat
      /\ pc' \in Awaiting \cup Closed \cup {"top", "fire", "settle"}
  BY <1>1, Times DEF SchedulerInv, TypeOK, Awaiting, Closed
<1>3. pc' # "sleep"
  BY <1>1
<1>. QED  BY <1>1, <1>2, <1>3, LoopMoves

(* The sorted list, for the steps that sort. *)
LEMMA SortKeeps ==
  ASSUME SchedulerInv
  PROVE  /\ Sorted \in Seq(1..created) /\ Range(Sorted) = Listed
         /\ UniqueNames(Sorted, objects)
         /\ \A i, j \in DOMAIN Sorted : Sorted[i] = Sorted[j] => i = j
         /\ entries # <<>> => /\ FirstDue \in Nat
                              /\ \A id \in Listed : FirstDue <= objects[id].fireIn
<1>0. TypeOK
  BY DEF SchedulerInv
<1>1. \A id \in Listed : objects[id].fireIn \in Nat
  BY <1>0, Known DEF Objects
<1>2. /\ Sorted \in Seq(1..created) /\ Range(Sorted) = Listed
      /\ \A i, j \in DOMAIN Sorted : Sorted[i] = Sorted[j] => i = j
      /\ entries # <<>> => /\ FirstDue \in Nat
                           /\ \A id \in Listed : FirstDue <= objects[id].fireIn
  BY <1>0, <1>1, Known, SortedList
<1>3. ASSUME NEW i \in DOMAIN Sorted, NEW j \in DOMAIN Sorted, i # j
      PROVE  objects[Sorted[i]].name # objects[Sorted[j]].name
  <2>1. Sorted[i] \in Listed /\ Sorted[j] \in Listed /\ Sorted[i] # Sorted[j]
    BY <1>2, <1>3 DEF Range
  <2>2. PICK p \in DOMAIN entries : entries[p] = Sorted[i]
    BY <2>1 DEF Listed, Range
  <2>3. PICK q \in DOMAIN entries : entries[q] = Sorted[j]
    BY <2>1 DEF Listed, Range
  <2>. QED  BY <1>0, <2>1, <2>2, <2>3 DEF TypeOK, NameOf
<1>. QED  BY <1>2, <1>3 DEF UniqueNames

LEMMA LoopSleeps == ASSUME SchedulerInv, GoToSleep PROVE SchedulerInv'
<1>0. TypeOK
  BY DEF SchedulerInv
<1>1. /\ entries # <<>> /\ entries' = Sorted /\ pc' = "sleep" /\ dirty' = FALSE
      /\ wakeIn' = FirstDue
      /\ UNCHANGED <<objects, created, due, schedulerPaused, starting>>
  BY DEF GoToSleep
<1>2. /\ entries' \in Seq(1..created) /\ Listed' = Listed /\ UniqueNames(entries', objects)
      /\ wakeIn' \in Nat /\ \A id \in Listed : wakeIn' <= objects[id].fireIn
  BY <1>1, SortKeeps DEF Listed
<1>3. due' \in Seq(1..created) /\ schedulerPaused' \in BOOLEAN
  BY <1>0, <1>1, Known DEF TypeOK
<1>4. DueOnce' /\ Range(due') \subseteq Listed \cup Range(due)
  BY <1>1 DEF SchedulerInv, DueOnce
<1>5. /\ pc' \in Awaiting \cup Closed \cup {"top", "fire", "settle"}
      /\ pc' \notin {"firing", "settle", "cron"}
  BY <1>1 DEF Awaiting
<1>. QED  BY <1>1, <1>2, <1>3, <1>4, <1>5, ListsMove

LEMMA LoopCollects == ASSUME SchedulerInv, CollectDue PROVE SchedulerInv'
<1>0. TypeOK
  BY DEF SchedulerInv
<1>. DEFINE keep == {id \in 1..created : objects[id].fireIn = 0}
<1>1. /\ entries' \in {Sorted, entries} /\ due' = Filtered(entries', keep) /\ pc' = "fire"
      /\ UNCHANGED <<objects, created, dirty, schedulerPaused, wakeIn, starting>>
  BY DEF CollectDue
<1>. HIDE DEF keep
<1>2. /\ entries' \in Seq(1..created) /\ Range(entries') = Listed
      /\ UniqueNames(entries', objects)
      /\ \A i, j \in DOMAIN entries' : entries'[i] = entries'[j] => i = j
  <2>1. CASE entries' = Sorted
    BY <2>1, SortKeeps
  <2>2. CASE entries' = entries
    BY <1>0, <2>2, Known DEF UniqueNames, TypeOK, NameOf, Listed
  <2>. QED  BY <1>1, <2>1, <2>2
<1>3. /\ due' \in Seq(1..created)
      /\ Range(due') = Range(entries') \cap keep
      /\ \A i, j \in DOMAIN due' : due'[i] = due'[j] => i = j
  BY <1>1, <1>2, FilteredList
<1>4. /\ Listed' \subseteq Listed /\ Range(due') \subseteq Listed \cup Range(due) /\ DueOnce'
  BY <1>2, <1>3 DEF Listed, DueOnce
<1>5. /\ dirty' \in BOOLEAN /\ schedulerPaused' \in BOOLEAN /\ wakeIn' \in Nat
      /\ pc' \in Awaiting \cup Closed \cup {"top", "fire", "settle"}
      /\ pc' \notin {"firing", "settle", "cron", "sleep"}
  BY <1>0, <1>1 DEF TypeOK
<1>. QED  BY <1>1, <1>2, <1>3, <1>4, <1>5, ListsMove

(* The first of a batch, and the rest of it. *)
LEMMA BatchHead ==
  ASSUME SchedulerInv, due # <<>>
  PROVE  /\ Head(due) \in 1..created /\ Head(due) \in Range(due)
         /\ objects[Head(due)] \in Objects /\ objects[Head(due)].remaining >= 0
         /\ Tail(due) \in Seq(1..created)
         /\ Range(Tail(due)) \subseteq Range(due) \ {Head(due)}
         /\ \A i, j \in DOMAIN Tail(due) : Tail(due)[i] = Tail(due)[j] => i = j
<1>. DEFINE S == 1..created
<1>0. due \in Seq(S)
  BY Known DEF SchedulerInv
<1>1. /\ \A id \in S : objects[id] \in Objects
      /\ \A id \in Range(due) : objects[id].remaining >= 0
  BY Known DEF SchedulerInv, CountsLeft, Alive
<1>. HIDE DEF S
<1>2. /\ Head(due) = due[1] /\ Head(due) \in S /\ 1 \in DOMAIN due
      /\ Tail(due) \in Seq(S)
      /\ \A i \in DOMAIN Tail(due) : i \in Nat /\ i + 1 \in DOMAIN due /\ Tail(due)[i] = due[i + 1]
  BY <1>0
<1>3. Head(due) \in Range(due)
  BY <1>2, Zenon DEF Range
<1>4. ASSUME NEW i \in DOMAIN Tail(due)
      PROVE  Tail(due)[i] \in Range(due) \ {Head(due)}
  <2>1. i + 1 # 1
    BY <1>2
  <2>2. due[i + 1] # due[1]
    BY <1>2, <2>1 DEF SchedulerInv, DueOnce
  <2>3. due[i + 1] \in Range(due)
    BY <1>2, Zenon DEF Range
  <2>. QED  BY <1>2, <2>2, <2>3
<1>5. ASSUME NEW i \in DOMAIN Tail(due), NEW j \in DOMAIN Tail(due), Tail(due)[i] = Tail(due)[j]
      PROVE  i = j
  <2>1. i + 1 = j + 1
    BY <1>2, <1>5 DEF SchedulerInv, DueOnce
  <2>. QED  BY <1>2, <2>1
<1>6. Range(Tail(due)) \subseteq Range(due) \ {Head(due)}
  BY <1>4, Zenon DEF Range
<1>. QED  BY <1>1, <1>2, <1>3, <1>5, <1>6 DEF S

(* An entry of the batch is dealt with: counted, rescheduled or dropped.   *)
LEMMA BatchMoves ==
  ASSUME SchedulerInv, due # <<>>, NEW object \in Objects,
         object.name = NameOf(Head(due)),
         objects' = [objects EXCEPT ![Head(due)] = object],
         entries' \in {entries, Without(object.name)}, due' \in {due, Tail(due)},
         \/ object.remaining >= 0
         \/ entries' = Without(object.name) /\ due' = Tail(due),
         pc' \in {"fire", "cron"}, pc' = "cron" => due' = due,
         UNCHANGED <<created, dirty, schedulerPaused, wakeIn, starting>>
  PROVE  SchedulerInv'
<1>. DEFINE id == Head(due)
<1>0. TypeOK
  BY DEF SchedulerInv
<1>1. /\ id \in 1..created /\ id \in Range(due) /\ objects[id] \in Objects
      /\ Tail(due) \in Seq(1..created) /\ Range(Tail(due)) \subseteq Range(due) \ {id}
      /\ \A i, j \in DOMAIN Tail(due) : Tail(due)[i] = Tail(due)[j] => i = j
  BY BatchHead
<1>2. /\ objects \in [1..MaxCreates -> Objects] /\ id \in 1..MaxCreates
      /\ 1..created \subseteq 1..MaxCreates
  BY <1>0, <1>1, Known
<1>. HIDE DEF id
<1>3. /\ objects' \in [1..MaxCreates -> Objects]
      /\ \A other \in 1..created : objects'[other] = IF other = id THEN object ELSE objects[other]
  BY <1>2 DEF id
<1>4. \A other \in 1..created : objects'[other].name = objects[other].name
  BY <1>3 DEF NameOf, id
<1>5. /\ entries' \in Seq(1..created) /\ Listed' \subseteq Listed
      /\ UniqueNames(entries', objects)
      /\ entries' = Without(object.name) => id \notin Listed'
  <2>1. CASE entries' = entries
    <3>1. UniqueNames(entries, objects)
      BY <1>0 DEF TypeOK, UniqueNames, NameOf
    <3>2. entries' = Without(object.name) => id \notin Listed
      BY <1>0, <2>1, WithoutList DEF Listed, id
    <3>. QED  BY <1>0, <2>1, <3>1, <3>2, Known DEF Listed
  <2>2. CASE entries' = Without(object.name)
    <3>1. /\ Without(object.name) \in Seq(1..created)
          /\ Range(Without(object.name)) = {other \in Listed : NameOf(other) # object.name}
          /\ UniqueNames(Without(object.name), objects)
      BY <1>0, WithoutList DEF UniqueNames, NameOf
    <3>. QED  BY <2>2, <3>1 DEF Listed, id
  <2>. QED  BY <2>1, <2>2
<1>6. /\ due' \in Seq(1..created) /\ Range(due') \subseteq Range(due) /\ DueOnce'
      /\ due' = Tail(due) => id \notin Range(due')
  <2>1. CASE due' = due
    BY <1>0, <1>1, <2>1, Known DEF SchedulerInv, DueOnce
  <2>2. CASE due' = Tail(due)
    BY <1>1, <2>2 DEF DueOnce
  <2>. QED  BY <2>1, <2>2
<1>7. SeedsApart' /\ Alive' \subseteq Alive
  BY <1>5, <1>6, NothingNew
<1>8. UniqueNames(entries', objects')
  <2>1. \A i \in DOMAIN entries' : entries'[i] \in 1..created
    <3>. DEFINE S == 1..created
    <3>. HIDE DEF S
    <3>1. entries' \in Seq(S)
      BY <1>5 DEF S
    <3>2. \A i \in DOMAIN entries' : entries'[i] \in S
      BY <3>1
    <3>. QED  BY <3>2 DEF S
  <2>2. \A i \in DOMAIN entries' : objects'[entries'[i]].name = objects[entries'[i]].name
    BY <1>4, <2>1
  <2>. QED  BY <1>5, <2>2 DEF UniqueNames
<1>9. TypeOK'
  BY <1>0, <1>3, <1>5, <1>6, <1>8 DEF TypeOK, UniqueNames, NameOf, Awaiting
<1>10. CountsLeft'
  <2>1. Alive' \subseteq 1..created
    BY <1>0, <1>7, Known DEF Alive
  <2>2. ASSUME NEW other \in Alive' PROVE objects'[other].remaining >= 0
    <3>1. CASE other # id
      BY <1>3, <1>7, <2>1, <3>1 DEF SchedulerInv, CountsLeft
    <3>2. CASE other = id /\ object.remaining >= 0
      BY <1>3, <2>1, <3>2
    <3>3. CASE other = id /\ entries' = Without(object.name) /\ due' = Tail(due)
      <4>1. id \notin Listed' /\ id \notin Range(due')
        BY <1>5, <1>6, <3>3
      <4>2. id \in Starting'
        BY <3>3, <4>1 DEF Alive
      <4>3. id \in Starting
        BY <4>2 DEF Starting
      <4>. QED  BY <1>1, <4>3 DEF SchedulerInv, SeedsApart, Starting
    <3>. QED  BY <3>1, <3>2, <3>3
  <2>. QED  BY <2>2 DEF CountsLeft
<1>11. BatchInv' /\ NeverOversleeps'
  BY DEF BatchInv, NeverOversleeps
<1>. QED  BY <1>6, <1>7, <1>9, <1>10, <1>11 DEF SchedulerInv

LEMMA BatchSettles == ASSUME SchedulerInv, Settle PROVE SchedulerInv'
<1>. DEFINE id == Head(due)
            object == Counted(objects[id])
            again == [object EXCEPT !.fireIn = Interval]
<1>0. due # <<>>
  BY DEF SchedulerInv, BatchInv, Settle
<1>1. objects[id] \in Objects /\ objects[id].remaining >= 0
  BY <1>0, BatchHead
<1>2. object = [name |-> objects[id].name, type |-> objects[id].type,
                fireIn |-> objects[id].fireIn, untilIn |-> objects[id].untilIn,
                remaining |-> IF objects[id].remaining = Never THEN Never
                              ELSE objects[id].remaining - 1]
  BY <1>1 DEF Counted, Objects
<1>3. /\ object.name = NameOf(id)
      /\ object.remaining \in Nat \cup {-1}
  BY <1>1, <1>2 DEF NameOf, Objects, Never
<1>4. object \in Objects
  BY <1>1, <1>2, <1>3 DEF Objects
<1>5. again = [name |-> object.name, type |-> object.type, fireIn |-> Interval,
               untilIn |-> object.untilIn, remaining |-> object.remaining]
  <2>. HIDE DEF object
  <2>. QED  BY <1>4 DEF Objects
<1>6. again \in Objects /\ again.name = NameOf(id) /\ again.remaining = object.remaining
  <2>. HIDE DEF object, again
  <2>. QED  BY <1>3, <1>4, <1>5, Times DEF Objects
<1>7. UNCHANGED <<created, dirty, schedulerPaused, wakeIn, starting>>
  BY DEF Settle
<1>8. CASE Finished(object)
  <2>1. /\ entries' = Without(object.name) /\ objects' = [objects EXCEPT ![id] = object]
        /\ due' = Tail(due) /\ pc' = "fire"
    BY <1>8 DEF Settle, Dropped
  <2>. HIDE DEF object
  <2>. QED  BY <1>0, <1>3, <1>4, <1>7, <2>1, BatchMoves
<1>9. CASE ~Finished(object)
  <2>1. object.remaining >= 0
    BY <1>3, <1>9 DEF Finished, Exhausted
  <2>2. CASE object.type = "interval"
    <3>1. /\ entries' = entries /\ objects' = [objects EXCEPT ![id] = again]
          /\ due' = Tail(due) /\ pc' = "fire"
      BY <1>9, <2>2 DEF Settle
    <3>. HIDE DEF object, again
    <3>. QED  BY <1>0, <1>6, <1>7, <2>1, <3>1, BatchMoves
  <2>3. CASE object.type # "interval"
    <3>1. /\ entries' = entries /\ objects' = [objects EXCEPT ![id] = object]
          /\ due' = due /\ pc' = "cron"
      BY <1>9, <2>3 DEF Settle
    <3>. HIDE DEF object
    <3>. QED  BY <1>0, <1>3, <1>4, <1>7, <2>1, <3>1, BatchMoves
  <2>. QED  BY <2>2, <2>3
<1>. QED  BY <1>8, <1>9

LEMMA CronComputed ==
  ASSUME SchedulerInv, NEW gap \in CronGaps, NextCronFire(gap)
  PROVE  SchedulerInv'
<1>. DEFINE id == Head(due)
            object == objects[id]
            again == [object EXCEPT !.fireIn = gap]
<1>0. due # <<>>
  BY DEF SchedulerInv, BatchInv, NextCronFire
<1>1. object \in Objects /\ object.remaining >= 0 /\ object.name = NameOf(id)
  BY <1>0, BatchHead DEF NameOf
<1>2. /\ due' = Tail(due) /\ pc' = "fire"
      /\ UNCHANGED <<created, dirty, schedulerPaused, wakeIn, starting>>
  BY DEF NextCronFire
<1>3. CASE gap = Never
  <2>1. entries' = Without(object.name) /\ objects' = objects
    BY <1>3 DEF NextCronFire, Dropped, NameOf
  <2>2. objects' = [objects EXCEPT ![id] = object]
    BY <2>1, Known DEF SchedulerInv
  <2>. HIDE DEF object
  <2>. QED  BY <1>0, <1>1, <1>2, <2>1, <2>2, BatchMoves
<1>4. CASE gap # Never
  <2>1. entries' = entries /\ objects' = [objects EXCEPT ![id].fireIn = gap]
    BY <1>4 DEF NextCronFire
  <2>2. objects' = [objects EXCEPT ![id] = again]
    BY <2>1, Known DEF SchedulerInv
  <2>3. again = [name |-> object.name, type |-> object.type, fireIn |-> gap,
                 untilIn |-> object.untilIn, remaining |-> object.remaining]
    BY <1>1 DEF Objects
  <2>4. again \in Objects /\ again.name = NameOf(id) /\ again.remaining >= 0
    <3>. HIDE DEF object, again
    <3>. QED  BY <1>1, <2>3, Times DEF Objects
  <2>. HIDE DEF again
  <2>. QED  BY <1>0, <1>2, <2>1, <2>2, <2>4, BatchMoves
<1>. QED  BY <1>3, <1>4

-----------------------------------------------------------------------------
(* Time *)

LEMMA TimePasses == ASSUME SchedulerInv, Tick PROVE SchedulerInv'
<1>0. TypeOK
  BY DEF SchedulerInv
<1>1. /\ UNCHANGED <<created, entries, due, dirty, schedulerPaused, pc, starting>>
      /\ wakeIn' = CountDown(wakeIn)
  BY DEF Tick
<1>2. /\ objects \in [1..MaxCreates -> Objects]
      /\ Listed \subseteq 1..MaxCreates /\ Alive \subseteq 1..MaxCreates
  BY <1>0, Known DEF Alive
<1>. DEFINE older(id) == [objects[id] EXCEPT !.fireIn = CountDown(@), !.untilIn = CountDown(@)]
<1>3. objects' = [id \in 1..MaxCreates |->
                    IF id \in Listed \cup Range(due) \cup Range(starting) THEN older(id) ELSE objects[id]]
  BY <1>2 DEF Tick
<1>4. ASSUME NEW id \in 1..MaxCreates
      PROVE  /\ older(id) \in Objects /\ older(id).name = objects[id].name
             /\ older(id).remaining = objects[id].remaining
             /\ older(id).fireIn = CountDown(objects[id].fireIn)
  <2>. DEFINE object == objects[id]
              sooner == [object EXCEPT !.fireIn = CountDown(object.fireIn)]
  <2>1. object \in Objects
    BY <1>2
  <2>2. older(id) = [sooner EXCEPT !.untilIn = CountDown(object.untilIn)]
    BY <2>1 DEF Objects
  <2>3. sooner = [name |-> object.name, type |-> object.type, fireIn |-> CountDown(object.fireIn),
                  untilIn |-> object.untilIn, remaining |-> object.remaining]
    BY <2>1 DEF Objects
  <2>4. CountDown(object.fireIn) \in Nat /\ CountDown(object.untilIn) \in Nat
    BY <2>1, CountDownOrdered DEF Objects
  <2>. HIDE DEF sooner, object, older
  <2>5. older(id) = [name |-> object.name, type |-> object.type, fireIn |-> CountDown(object.fireIn),
                     untilIn |-> CountDown(object.untilIn), remaining |-> object.remaining]
    BY <2>2, <2>3
  <2>6. older(id) \in Objects
    BY <2>1, <2>4, <2>5 DEF Objects
  <2>. QED  BY <2>5, <2>6 DEF object
<1>. HIDE DEF older
<1>5. /\ objects' \in [1..MaxCreates -> Objects]
      /\ \A id \in 1..MaxCreates : /\ objects'[id].name = objects[id].name
                                   /\ objects'[id].remaining = objects[id].remaining
      /\ \A id \in Listed : objects'[id].fireIn = CountDown(objects[id].fireIn)
  BY <1>2, <1>3, <1>4
<1>6. \A i \in DOMAIN entries : entries[i] \in 1..MaxCreates
  BY <1>2 DEF Listed, Range
<1>7. wakeIn' \in Nat
  BY <1>0, <1>1, CountDownOrdered DEF TypeOK
<1>8. TypeOK'
  <2>1. \A i \in DOMAIN entries : NameOf(entries[i])' = NameOf(entries[i])
    BY <1>1, <1>5, <1>6 DEF NameOf
  <2>2. \A i, j \in DOMAIN entries : i # j => NameOf(entries[i]) # NameOf(entries[j])
    BY <1>0 DEF TypeOK
  <2>. QED  BY <1>0, <1>1, <1>5, <1>7, <2>1, <2>2 DEF TypeOK
<1>9. Listed' = Listed /\ Alive' = Alive /\ Range(due') = Range(due)
  BY <1>1 DEF Listed, Alive, Starting
<1>10. SeedsApart' /\ CountsLeft'
  BY <1>1, <1>2, <1>5, <1>9 DEF SchedulerInv, SeedsApart, CountsLeft
<1>11. NeverOversleeps'
  <2>1. SUFFICES ASSUME pc = "sleep", ~dirty, NEW id \in Listed
                 PROVE  wakeIn' <= objects'[id].fireIn
    BY <1>1, <1>9 DEF NeverOversleeps
  <2>2. wakeIn <= objects[id].fireIn
    BY <2>1 DEF SchedulerInv, NeverOversleeps
  <2>3. wakeIn \in Nat /\ objects[id].fireIn \in Nat
    BY <1>0, <1>2 DEF TypeOK, Objects
  <2>. QED  BY <1>1, <1>5, <2>2, <2>3, CountDownOrdered
<1>12. DueOnce' /\ BatchInv'
  BY <1>1 DEF SchedulerInv, DueOnce, BatchInv
<1>. QED  BY <1>8, <1>10, <1>11, <1>12 DEF SchedulerInv

-----------------------------------------------------------------------------
(* The theorems *)

LEMMA SchedulerStep == SchedulerInv /\ [Next]_schedulerVars => SchedulerInv'
<1>. SUFFICES ASSUME SchedulerInv, [Next]_schedulerVars PROVE SchedulerInv'
  OBVIOUS
<1>1. CASE Create
  BY <1>1, SignalCreates, ClientFallsBack DEF Create
<1>2. CASE \E c \in Clients : StartSeeds(c) \/ StartUsesExisting(c)
  BY <1>2, ClientSeeds, ClientUsesExisting
<1>3. CASE \E name \in Names : RemoveSchedule(name)
  BY <1>3, ScheduleRemoved
<1>4. CASE UpdateScheduleTarget \/ \E value \in BOOLEAN : SchedulerSetPaused(value)
  BY <1>4, OtherSignals
<1>5. CASE MainLoop
  BY <1>5, LoopPlainSteps, LoopSleeps, LoopCollects, BatchSettles, CronComputed DEF MainLoop
<1>6. CASE Tick
  BY <1>6, TimePasses
<1>7. CASE UNCHANGED schedulerVars
  <2>1. UNCHANGED <<objects, created, entries, due, dirty, schedulerPaused, pc, wakeIn, starting>>
    BY <1>7 DEF schedulerVars
  <2>2. /\ dirty' \in BOOLEAN /\ schedulerPaused' \in BOOLEAN /\ wakeIn' \in Nat
        /\ pc' \in Awaiting \cup Closed \cup {"top", "fire", "settle"}
        /\ pc' \in {"firing", "settle", "cron"} => due # <<>>
        /\ pc' = "sleep" /\ ~dirty' => \A id \in Listed : wakeIn' <= objects[id].fireIn
    BY <2>1 DEF SchedulerInv, TypeOK, BatchInv, NeverOversleeps
  <2>. QED  BY <2>1, <2>2, LoopMoves
<1>. QED  BY <1>1, <1>2, <1>3, <1>4, <1>5, <1>6, <1>7 DEF Next

THEOREM SchedulerAlways == Spec => []SchedulerInv
BY SchedulerInit, SchedulerStep, PTL DEF Spec

(* However clients create, replace and remove schedules under a batch that *)
(* is being fired, the list keeps one entry of a name, and no entry is     *)
(* counted again once its count is exhausted.                              *)
THEOREM SchedulerTypeCorrect == Spec => []TypeOK
<1>1. SchedulerInv => TypeOK
  BY DEF SchedulerInv
<1>. QED  BY <1>1, SchedulerAlways, PTL

(* The timer the scheduler sleeps on never ends after an entry falls due,  *)
(* for any number of entries, times and signals.                           *)
THEOREM SchedulerNeverOversleeps == Spec => []NeverOversleeps
<1>1. SchedulerInv => NeverOversleeps
  BY DEF SchedulerInv
<1>. QED  BY <1>1, SchedulerAlways, PTL

(* A batch never has an entry twice, whatever replaces or removes entries  *)
(* while it is fired, and none that is kept is counted below zero: it is   *)
(* not delivered more often than its count says.                           *)
THEOREM NothingDueTwice == Spec => [](DueOnce /\ CountsLeft)
<1>1. SchedulerInv => DueOnce /\ CountsLeft
  BY DEF SchedulerInv
<1>. QED  BY <1>1, SchedulerAlways, PTL

-----------------------------------------------------------------------------
(* The bus *)

(* What a bus was told of grows by n messages, and nothing else but its    *)
(* number of events and its rates changes.                                 *)
Grown(b, after, n) ==
  /\ after \in Tracks
  /\ after.open = b.open /\ after.seen = b.seen
  /\ after.next >= b.next
  /\ after.told + after.drops = b.told + b.drops + n

LEMMA Limits ==
  /\ RingCapacity \in Nat /\ EnsembleRateLimit \in Nat /\ ChatRateLimit \in Nat
  /\ RingCapacity > 0 /\ EnsembleRateLimit > 0 /\ ChatRateLimit > 0
  /\ MaxFailures \in Nat /\ MaxMessages \in Nat
  BY EventLimitsAssumption

LEMMA BusNumbers ==
  ASSUME NEW b \in Tracks
  PROVE  b.next \in Nat /\ b.told \in Nat /\ b.drops \in Nat /\ b.told + b.drops \in Nat
BY DEF Tracks

LEMMA InternalGrows == ASSUME NEW b \in Tracks PROVE Grown(b, EmitInternal(b), 0)
<1>1. EmitInternal(b) = [open |-> b.open, failures |-> b.failures, flag |-> b.flag, seen |-> b.seen,
                         next |-> b.next + 1, told |-> b.told, recent |-> b.recent,
                         recentChat |-> b.recentChat, quiet |-> b.quiet, drops |-> b.drops,
                         timer |-> b.timer]
  BY DEF EmitInternal, Tracks
<1>. QED  BY <1>1 DEF Grown, Tracks

LEMMA CountedGrows == ASSUME NEW b \in Tracks PROVE Grown(b, EmitCounted(b), 0)
<1>. DEFINE r == [b EXCEPT !.recent = AtMost(@ + 1, EnsembleRateLimit)]
<1>1. r = [open |-> b.open, failures |-> b.failures, flag |-> b.flag, seen |-> b.seen,
           next |-> b.next, told |-> b.told, recent |-> AtMost(b.recent + 1, EnsembleRateLimit),
           recentChat |-> b.recentChat, quiet |-> b.quiet, drops |-> b.drops,
           timer |-> b.timer]
  BY DEF Tracks
<1>2. AtMost(b.recent + 1, EnsembleRateLimit) \in 0..EnsembleRateLimit
  BY Limits DEF AtMost, Tracks
<1>. HIDE DEF r
<1>3. r \in Tracks
  BY <1>1, <1>2 DEF Tracks
<1>4. Grown(r, EmitInternal(r), 0)
  BY <1>3, InternalGrows
<1>5. EmitCounted(b) = EmitInternal(r)
  BY DEF EmitCounted, r
<1>. QED  BY <1>1, <1>4, <1>5 DEF Grown

LEMMA ChatGrows == ASSUME NEW b \in Tracks PROVE Grown(b, EmitChat(b), 1)
<1>1. CASE AtChatCap(b)
  <2>1. EmitChat(b) = [open |-> b.open, failures |-> b.failures, flag |-> b.flag, seen |-> b.seen,
                       next |-> b.next, told |-> b.told, recent |-> b.recent,
                       recentChat |-> b.recentChat, quiet |-> b.quiet, drops |-> b.drops + 1,
                       timer |-> TRUE]
    BY <1>1 DEF EmitChat, DropChat, Tracks
  <2>. QED  BY <2>1 DEF Grown, Tracks
<1>2. CASE ~AtChatCap(b)
  <2>. DEFINE r == [b EXCEPT !.recentChat = @ + 1, !.told = @ + 1]
  <2>1. r.open = b.open /\ r.seen = b.seen /\ r.next = b.next /\ r.told = b.told + 1 /\ r.drops = b.drops
    BY DEF Tracks
  <2>2. b.recentChat + 1 \in 0..ChatRateLimit
    BY <1>2, Limits DEF AtChatCap, Tracks
  <2>3. r \in Tracks
    <3>. DEFINE more == [b EXCEPT !.recentChat = @ + 1]
    <3>1. more \in Tracks /\ more.told = b.told
      BY <2>2 DEF Tracks
    <3>2. r = [more EXCEPT !.told = @ + 1]
      BY DEF Tracks
    <3>. HIDE DEF more
    <3>. QED  BY <3>1, <3>2 DEF Tracks
  <2>. HIDE DEF r
  <2>4. EmitChat(b) = EmitCounted(r)
    BY <1>2 DEF EmitChat, r
  <2>5. Grown(r, EmitChat(b), 0)
    BY <2>3, <2>4, CountedGrows
  <2>. QED  BY <2>1, <2>5 DEF Grown, Tracks
<1>. QED  BY <1>1, <1>2

LEMMA FlagsGrow == ASSUME NEW b \in Tracks PROVE Grown(b, EmitFlags(b), 0)
<1>1. CASE b.quiet
  BY <1>1 DEF EmitFlags, Grown, Tracks
<1>2. CASE ~b.quiet /\ b.recent >= EnsembleRateLimit
  <2>. DEFINE r == [b EXCEPT !.quiet = TRUE]
  <2>1. r.open = b.open /\ r.seen = b.seen /\ r.next = b.next /\ r.told = b.told /\ r.drops = b.drops
    BY DEF Tracks
  <2>2. r \in Tracks
    BY DEF Tracks
  <2>. HIDE DEF r
  <2>3. EmitFlags(b) = EmitInternal(r)
    BY <1>2 DEF EmitFlags, r
  <2>. QED  BY <2>1, <2>2, <2>3, InternalGrows DEF Grown
<1>3. CASE ~b.quiet /\ ~(b.recent >= EnsembleRateLimit)
  BY <1>3, CountedGrows DEF EmitFlags
<1>. QED  BY <1>1, <1>2, <1>3

LEMMA FlushGrows == ASSUME NEW b \in Tracks PROVE Grown(b, FlushChatCompressed(b), 0)
<1>. DEFINE r == EmitInternal(b)
<1>1. Grown(b, r, 0) /\ r.told = b.told /\ r.drops = b.drops
  BY InternalGrows DEF EmitInternal, Tracks
<1>2. FlushChatCompressed(b) =
        [open |-> r.open, failures |-> r.failures, flag |-> r.flag, seen |-> r.seen,
         next |-> r.next, told |-> r.told + b.drops, recent |-> r.recent,
         recentChat |-> r.recentChat, quiet |-> r.quiet, drops |-> 0, timer |-> FALSE]
  <2>. HIDE DEF r
  <2>1. FlushChatCompressed(b) = [r EXCEPT !.told = @ + b.drops, !.drops = 0, !.timer = FALSE]
    BY DEF FlushChatCompressed, r
  <2>. QED  BY <1>1, <2>1 DEF Grown, Tracks
<1>. HIDE DEF r
<1>. QED  BY <1>1, <1>2 DEF Grown, Tracks

(* Induction over a set of naturals. *)
LEMMA LeastOfNaturals ==
  ASSUME NEW T, T \subseteq Nat, T # {}
  PROVE  \E x \in T : \A y \in T : x <= y
<1>. DEFINE R == OpToRel(<,Nat)
<1>1. IsWellFoundedOn(R, Nat)
  BY NatLessThanWellFounded, Zenon
<1>2. \E x \in T : \A y \in T : <<y, x>> \notin R
  <2>. HIDE DEF R
  <2>. QED  BY <1>1, WFMin, Zenon
<1>3. PICK x \in T : \A y \in T : <<y, x>> \notin R
  BY <1>2, Zenon
<1>4. ASSUME NEW y \in T PROVE ~(y < x)
  <2>1. <<y, x>> \in Nat \X Nat
    OBVIOUS
  <2>2. <<y, x>>[1] = y /\ <<y, x>>[2] = x
    OBVIOUS
  <2>3. y < x => <<y, x>> \in R
    BY <2>1, <2>2, Zenon DEF OpToRel
  <2>. QED  BY <1>3, <2>3
<1>. QED  BY <1>4

LEMMA InductiveSet ==
  ASSUME NEW G, 0 \in G, \A i \in Nat : i \in G => i + 1 \in G
  PROVE  Nat \subseteq G
<1>. SUFFICES ASSUME Nat \ G # {} PROVE FALSE
  OBVIOUS
<1>1. PICK x \in Nat \ G : \A y \in Nat \ G : x <= y
  BY LeastOfNaturals
<1>2. x # 0 /\ x - 1 \in Nat
  OBVIOUS
<1>3. x - 1 \in G
  BY <1>1, <1>2
<1>. QED  BY <1>2, <1>3

(* Every message told to the bus is sent or counted. *)
LEMMA ChatsGrow ==
  ASSUME NEW b \in Tracks, NEW n \in Nat
  PROVE  Grown(b, EmitChats(b, n), n)
<1>. DEFINE Run(f, k) == f[0] = b /\ \A i \in 1..k : f[i] = EmitChat(f[i - 1])
            Grows(f, k) == \A i \in 0..k : Grown(b, f[i], i)
            G == {k \in Nat : \E f \in [0..k -> Tracks] : Run(f, k) /\ Grows(f, k)}
<1>1. 0 \in G
  <2>. DEFINE f == [i \in 0..0 |-> b]
  <2>1. f \in [0..0 -> Tracks] /\ f[0] = b
    OBVIOUS
  <2>2. Grown(b, b, 0)
    BY DEF Grown, Tracks
  <2>. HIDE DEF f
  <2>3. \A i \in 0..0 : f[i] = b /\ i = 0
    BY <2>1
  <2>4. Run(f, 0) /\ Grows(f, 0)
    BY <2>2, <2>3
  <2>. QED  BY <2>1, <2>4
<1>2. ASSUME NEW k \in Nat, k \in G PROVE k + 1 \in G
  <2>1. PICK f \in [0..k -> Tracks] : Run(f, k) /\ Grows(f, k)
    BY <1>2
  <2>. DEFINE g == [i \in 0..k + 1 |-> IF i = k + 1 THEN EmitChat(f[k]) ELSE f[i]]
  <2>2. f[k] \in Tracks /\ Grown(b, f[k], k)
    BY <2>1
  <2>3. Grown(f[k], EmitChat(f[k]), 1)
    BY <2>2, ChatGrows
  <2>4. Grown(b, EmitChat(f[k]), k + 1) /\ EmitChat(f[k]) \in Tracks
    <3>. DEFINE m == EmitChat(f[k])
    <3>. HIDE DEF m
    <3>1. m \in Tracks /\ m.open = b.open /\ m.seen = b.seen
      BY <2>2, <2>3 DEF Grown, m
    <3>. DEFINE t == m.told + m.drops
                u == f[k].told + f[k].drops
                v == b.told + b.drops
    <3>2. t \in Nat /\ u \in Nat /\ v \in Nat
      BY <2>2, <3>1, BusNumbers
    <3>3. t = u + 1 /\ u = v + k
      BY <2>2, <2>3 DEF Grown, m
    <3>4. t = v + (k + 1)
      <4>. HIDE DEF t, u, v
      <4>. QED  BY <3>2, <3>3
    <3>. DEFINE p == m.next
                q == f[k].next
                r == b.next
    <3>5. p \in Nat /\ q \in Nat /\ r \in Nat /\ p >= q /\ q >= r
      BY <2>2, <2>3, <3>1 DEF Grown, Tracks, m
    <3>6. p >= r
      <4>. HIDE DEF p, q, r
      <4>. QED  BY <3>5
    <3>. QED  BY <3>1, <3>4, <3>6 DEF Grown, m
  <2>5. g[k + 1] = EmitChat(f[k]) /\ \A i \in 0..k : g[i] = f[i]
    OBVIOUS
  <2>6. \A i \in 0..k + 1 : i \in 0..k \/ i = k + 1
    OBVIOUS
  <2>7. g \in [0..k + 1 -> Tracks]
    <3>1. \A i \in 0..k + 1 : g[i] \in Tracks
      <4>. HIDE DEF g
      <4>. QED  BY <2>4, <2>5, <2>6
    <3>. QED  BY <3>1
  <2>. HIDE DEF g
  <2>8. Run(g, k + 1)
    <3>1. g[0] = b
      BY <2>1, <2>5
    <3>2. ASSUME NEW i \in 1..k + 1 PROVE g[i] = EmitChat(g[i - 1])
      <4>1. CASE i \in 1..k
        <5>1. i \in 0..k /\ i - 1 \in 0..k
          BY <4>1
        <5>. QED  BY <2>1, <2>5, <4>1, <5>1
      <4>2. CASE i = k + 1
        <5>1. i - 1 = k /\ k \in 0..k
          BY <4>2
        <5>. QED  BY <2>5, <4>2, <5>1
      <4>. QED  BY <4>1, <4>2
    <3>. QED  BY <3>1, <3>2
  <2>9. Grows(g, k + 1)
    BY <2>1, <2>4, <2>5, <2>6
  <2>. QED  BY <2>7, <2>8, <2>9
<1>3. n \in G
  <2>. HIDE DEF G
  <2>. QED  BY <1>1, <1>2, InductiveSet
<1>4. PICK f \in [0..n -> Tracks] : Run(f, n) /\ Grows(f, n)
  BY <1>3
<1>. DEFINE Def(h) == h = [i \in 0..n |-> IF i = 0 THEN b ELSE EmitChat(h[i - 1])]
            after == CHOOSE h : Def(h)
<1>5. Def(f)
  <2>1. ASSUME NEW i \in 0..n PROVE f[i] = IF i = 0 THEN b ELSE EmitChat(f[i - 1])
    <3>1. CASE i = 0
      BY <1>4, <3>1
    <3>2. CASE i # 0
      <4>1. i \in 1..n
        BY <3>2
      <4>. QED  BY <1>4, <3>2, <4>1
    <3>. QED  BY <3>1, <3>2
  <2>. QED  BY <2>1
<1>6. Def(after)
  <2>. HIDE DEF Def
  <2>. QED  BY <1>5
<1>7. EmitChats(b, n) = after[n]
  BY DEF EmitChats
<1>. HIDE DEF after
<1>. DEFINE K == {i \in Nat : i <= n => after[i] = f[i]}
<1>8. n \in K
  <2>1. 0 \in K
    BY <1>5, <1>6
  <2>2. ASSUME NEW i \in Nat, i \in K PROVE i + 1 \in K
    <3>1. SUFFICES ASSUME i + 1 <= n PROVE after[i + 1] = f[i + 1]
      OBVIOUS
    <3>2. i + 1 \in 0..n /\ i + 1 # 0 /\ (i + 1) - 1 = i /\ i <= n
      BY <3>1
    <3>3. after[i] = f[i]
      BY <2>2, <3>2
    <3>4. after[i + 1] = EmitChat(after[i]) /\ f[i + 1] = EmitChat(f[i])
      BY <1>5, <1>6, <3>2
    <3>. QED  BY <3>3, <3>4
  <2>. HIDE DEF K
  <2>. QED  BY <2>1, <2>2, InductiveSet
<1>9. after[n] = f[n] /\ Grown(b, f[n], n)
  BY <1>4, <1>8
<1>. QED  BY <1>7, <1>9

(* One diff counts each new message once. *)
LEMMA DiffAccounts ==
  ASSUME NEW b \in Tracks, NEW snap, snap.flag \in Flags, snap.chats \subseteq 1..MaxMessages,
         Cardinality(b.seen) = b.told + b.drops
  PROVE  LET d == Diff(b, snap)
         IN  /\ d \in Tracks /\ d.open = b.open /\ d.next >= b.next
             /\ Cardinality(d.seen) = d.told + d.drops
<1>. DEFINE marked == [EmitFlags(b) EXCEPT !.flag = snap.flag]
            flagged == IF b.flag = snap.flag THEN b ELSE marked
            unseen == snap.chats \ b.seen
            n == Cardinality(unseen)
            sent == EmitChats(flagged, n)
            d == [sent EXCEPT !.seen = @ \cup snap.chats]
<1>0. Diff(b, snap) = d
  BY DEF Diff
<1>1. /\ IsFiniteSet(unseen) /\ IsFiniteSet(b.seen) /\ b.seen \subseteq 1..MaxMessages
      /\ IsFiniteSet(snap.chats)
  <2>1. IsFiniteSet(1..MaxMessages)
    BY Limits, FS_Interval
  <2>2. b.seen \subseteq 1..MaxMessages
    BY DEF Tracks
  <2>. QED  BY <2>1, <2>2, FS_Subset
<1>2. n \in Nat /\ Cardinality(b.seen) \in Nat
  BY <1>1, FS_CardinalityType
<1>3. Grown(b, flagged, 0)
  <2>1. Grown(b, b, 0)
    BY BusNumbers DEF Grown
  <2>2. Grown(b, EmitFlags(b), 0)
    BY FlagsGrow
  <2>3. EmitFlags(b) \in Tracks
    BY <2>2 DEF Grown
  <2>4. /\ marked \in Tracks /\ marked.open = EmitFlags(b).open
        /\ marked.seen = EmitFlags(b).seen /\ marked.next = EmitFlags(b).next
        /\ marked.told = EmitFlags(b).told /\ marked.drops = EmitFlags(b).drops
    BY <2>3 DEF Tracks
  <2>5. Grown(b, marked, 0)
    <3>. HIDE DEF marked
    <3>. QED  BY <2>2, <2>4 DEF Grown
  <2>. HIDE DEF marked
  <2>. QED  BY <2>1, <2>5
<1>. HIDE DEF flagged
<1>4. flagged \in Tracks
  BY <1>3 DEF Grown
<1>5. Grown(flagged, sent, n)
  BY <1>2, <1>4, ChatsGrow
<1>. HIDE DEF sent, n
<1>6. sent \in Tracks
  BY <1>5 DEF Grown
<1>7. /\ d \in Tracks /\ d.open = sent.open /\ d.next = sent.next
      /\ d.told = sent.told /\ d.drops = sent.drops
      /\ d.seen = sent.seen \cup snap.chats
  BY <1>6 DEF Tracks
<1>. HIDE DEF d
<1>8. d.open = b.open /\ d.seen = b.seen \cup snap.chats
  BY <1>3, <1>5, <1>7 DEF Grown
<1>9. d.next >= b.next
  <2>. DEFINE p == d.next
              q == flagged.next
              r == b.next
  <2>1. p \in Nat /\ q \in Nat /\ r \in Nat /\ p >= q /\ q >= r
    BY <1>3, <1>4, <1>5, <1>7, BusNumbers DEF Grown
  <2>2. p >= r
    <3>. HIDE DEF p, q, r
    <3>. QED  BY <2>1
  <2>. QED  BY <2>2
<1>10. Cardinality(d.seen) = Cardinality(b.seen) + n
  <2>1. d.seen = b.seen \cup unseen /\ b.seen \cap unseen = {}
    BY <1>8
  <2>2. Cardinality(b.seen \cup unseen) = Cardinality(b.seen) + n - Cardinality(b.seen \cap unseen)
    BY <1>1, FS_Union DEF n
  <2>3. Cardinality(b.seen \cap unseen) = 0
    BY <2>1, FS_EmptySet
  <2>. QED  BY <1>2, <2>1, <2>2, <2>3
<1>11. Cardinality(d.seen) = d.told + d.drops
  <2>. DEFINE t == d.told + d.drops
              u == flagged.told + flagged.drops
              v == b.told + b.drops
  <2>1. t \in Nat /\ u \in Nat /\ v \in Nat
    BY <1>4, <1>7, BusNumbers
  <2>2. t = u + n /\ u = v + 0 /\ Cardinality(b.seen) = v
    BY <1>3, <1>5, <1>7 DEF Grown
  <2>3. Cardinality(d.seen) = t
    <3>. HIDE DEF t, u, v
    <3>. QED  BY <1>2, <1>10, <2>1, <2>2
  <2>. QED  BY <2>3
<1>. QED  BY <1>0, <1>7, <1>8, <1>9, <1>11

-----------------------------------------------------------------------------
(* What is on its way to the client *)

Deliveries == [kind : {"event", "prelude"}, seq : Nat]
NextSeq(e) == IF e.kind = "event" THEN e.seq + 1 ELSE e.seq

(* A prelude first at most, then the events that follow, up to the n-th.   *)
InSequence(q) == \A i \in DOMAIN q : i > 1 => q[i].kind = "event" /\ q[i].seq = NextSeq(q[i - 1])
UpTo(q, n) == /\ \A i \in DOMAIN q : NextSeq(q[i]) <= n
              /\ q # <<>> => NextSeq(q[Len(q)]) = n

LEMMA NextSeqNat == \A e \in Deliveries : NextSeq(e) \in Nat
  BY DEF NextSeq, Deliveries

LEMMA BusEventsMade ==
  ASSUME NEW b \in Tracks, NEW from \in Nat
  PROVE  /\ BusEvents(b, from) \in Seq(Deliveries)
         /\ InSequence(BusEvents(b, from)) /\ UpTo(BusEvents(b, from), b.next)
         /\ BusEvents(b, from) = <<>> <=> b.next <= from
         /\ BusEvents(b, from) # <<>> => BusEvents(b, from)[1].kind = "event"
                                       /\ BusEvents(b, from)[1].seq = from
<1>. DEFINE q == BusEvents(b, from)
            n == b.next
<1>0. n \in Nat
  BY BusNumbers
<1>1. q = [i \in 1..(n - from) |-> [kind |-> "event", seq |-> from + i - 1]]
  BY DEF BusEvents
<1>. HIDE DEF n
<1>2. CASE n <= from
  <2>1. 1..(n - from) = {}
    BY <1>0, <1>2
  <2>2. q = <<>>
    BY <1>1, <2>1
  <2>. HIDE DEF q
  <2>3. InSequence(q) /\ UpTo(q, n) /\ q \in Seq(Deliveries)
    BY <2>2 DEF InSequence, UpTo
  <2>. QED  BY <1>2, <2>2, <2>3 DEF q, n
<1>3. CASE ~(n <= from)
  <2>. DEFINE len == n - from
  <2>1. len \in Nat /\ len > 0
    BY <1>0, <1>3
  <2>2. DOMAIN q = 1..len
    BY <1>1
  <2>3. \A i \in 1..len : q[i] = [kind |-> "event", seq |-> from + i - 1] /\ from + i - 1 \in Nat
    BY <1>1, <2>1
  <2>4. \A i \in 1..len : /\ q[i] \in Deliveries /\ q[i].kind = "event"
                          /\ q[i].seq = from + i - 1 /\ NextSeq(q[i]) = from + i
    <3>. SUFFICES ASSUME NEW i \in 1..len
                  PROVE  /\ q[i] \in Deliveries /\ q[i].kind = "event"
                         /\ q[i].seq = from + i - 1 /\ NextSeq(q[i]) = from + i
      OBVIOUS
    <3>1. q[i] = [kind |-> "event", seq |-> from + i - 1] /\ from + i - 1 \in Nat
      BY <2>3
    <3>2. q[i] \in Deliveries /\ q[i].kind = "event" /\ q[i].seq = from + i - 1
      BY <3>1 DEF Deliveries
    <3>3. (from + i - 1) + 1 = from + i
      BY <2>1
    <3>. HIDE DEF q
    <3>. QED  BY <3>2, <3>3 DEF NextSeq
  <2>5. q \in [1..len -> Deliveries]
    <3>1. \A i \in 1..len : q[i] \in Deliveries
      BY <2>4
    <3>. QED  BY <1>1, <3>1
  <2>. HIDE DEF q
  <2>6. q \in Seq(Deliveries) /\ Len(q) = len
    <3>. HIDE DEF len
    <3>. QED  BY <2>1, <2>5
  <2>7. q # <<>> /\ 1 \in 1..len /\ len \in 1..len
    BY <2>1, <2>6
  <2>8. InSequence(q)
    <3>1. ASSUME NEW i \in 1..len, i > 1 PROVE q[i].seq = NextSeq(q[i - 1])
      <4>1. i - 1 \in 1..len
        BY <2>1, <3>1
      <4>2. q[i].seq = from + i - 1 /\ NextSeq(q[i - 1]) = from + (i - 1)
        BY <2>4, <4>1
      <4>. QED  BY <4>2
    <3>. QED  BY <2>2, <2>4, <3>1 DEF InSequence
  <2>9. UpTo(q, n)
    <3>1. \A i \in 1..len : from + i <= n
      BY <1>0, <2>1
    <3>2. NextSeq(q[len]) = n
      BY <1>0, <2>4, <2>7
    <3>. QED  BY <2>2, <2>4, <2>6, <3>1, <3>2 DEF UpTo
  <2>10. q[1].kind = "event" /\ q[1].seq = from
    BY <2>4, <2>7
  <2>. QED  BY <1>3, <2>6, <2>7, <2>8, <2>9, <2>10 DEF q, n
<1>. QED  BY <1>2, <1>3

LEMMA Appended ==
  ASSUME NEW q \in Seq(Deliveries), NEW r \in Seq(Deliveries), NEW m \in Nat, NEW n \in Nat,
         m <= n, InSequence(q), InSequence(r), UpTo(q, m), UpTo(r, n),
         r = <<>> <=> n <= m,
         r # <<>> => r[1].kind = "event" /\ r[1].seq = m,
         NEW s, s = q \o r
  PROVE  /\ s \in Seq(Deliveries) /\ InSequence(s) /\ UpTo(s, n)
         /\ q # <<>> => s # <<>> /\ s[1] = q[1]
         /\ q = <<>> => s = r
<1>. DEFINE a == Len(q)
            b == Len(r)
<1>0. a \in Nat /\ b \in Nat /\ DOMAIN q = 1..a /\ DOMAIN r = 1..b
  OBVIOUS
<1>1. /\ s \in Seq(Deliveries) /\ Len(s) = a + b /\ DOMAIN s = 1..(a + b)
      /\ \A i \in 1..a : s[i] = q[i]
      /\ \A i \in 1..(a + b) : i > a => s[i] = r[i - a]
  OBVIOUS
<1>2. (q = <<>> <=> a = 0) /\ (r = <<>> <=> b = 0)
  OBVIOUS
<1>3. q = <<>> => s = r
  OBVIOUS
<1>4. \A i \in 1..a : NextSeq(q[i]) <= m /\ NextSeq(q[i]) \in Nat
  <2>1. \A i \in 1..a : q[i] \in Deliveries
    OBVIOUS
  <2>. QED  BY <1>0, <2>1, NextSeqNat DEF UpTo
<1>5. \A i \in 1..b : NextSeq(r[i]) <= n /\ NextSeq(r[i]) \in Nat
  <2>1. \A i \in 1..b : r[i] \in Deliveries
    OBVIOUS
  <2>2. \A i \in 1..b : NextSeq(r[i]) <= n
    BY <1>0 DEF UpTo
  <2>. QED  BY <2>1, <2>2, NextSeqNat
<1>. HIDE DEF a, b
<1>6. CASE q = <<>>
  BY <1>1, <1>2, <1>3, <1>6
<1>7. CASE r = <<>>
  <2>1. m = n
    BY <1>7
  <2>2. s = q
    BY <1>7
  <2>. QED  BY <1>1, <1>6, <1>7, <2>1, <2>2
<1>8. CASE q # <<>> /\ r # <<>>
  <2>1. a > 0 /\ b > 0 /\ 1 \in 1..a /\ a \in 1..a /\ b \in 1..b /\ 1 \in 1..b
    BY <1>0, <1>2, <1>8
  <2>2. s # <<>> /\ s[1] = q[1]
    BY <1>1, <2>1
  <2>3. ASSUME NEW i \in 1..(a + b)
        PROVE  \/ i \in 1..a /\ s[i] = q[i]
               \/ i > a /\ i - a \in 1..b /\ s[i] = r[i - a]
    BY <1>0, <1>1
  <2>4. InSequence(s)
    <3>1. SUFFICES ASSUME NEW i \in 1..(a + b), i > 1
                   PROVE  s[i].kind = "event" /\ s[i].seq = NextSeq(s[i - 1])
      BY <1>1 DEF InSequence
    <3>2. CASE i \in 1..a
      <4>1. i - 1 \in 1..a
        BY <1>0, <3>1, <3>2
      <4>. QED  BY <1>0, <1>1, <3>1, <3>2, <4>1 DEF InSequence
    <3>3. CASE i = a + 1
      <4>1. i > a /\ i - a = 1 /\ i - 1 = a /\ i \in 1..(a + b)
        BY <1>0, <2>1, <3>3
      <4>2. s[i] = r[1] /\ s[i - 1] = q[a]
        BY <1>1, <2>1, <4>1
      <4>3. NextSeq(q[a]) = m
        BY <1>8 DEF UpTo, a
      <4>. QED  BY <1>8, <4>2, <4>3
    <3>4. CASE i > a + 1
      <4>1. /\ i > a /\ i - a \in 1..b /\ i - a > 1 /\ i - 1 \in 1..(a + b) /\ i - 1 > a
            /\ (i - 1) - a = (i - a) - 1
        BY <1>0, <3>4
      <4>2. s[i] = r[i - a] /\ s[i - 1] = r[(i - a) - 1]
        BY <1>1, <4>1
      <4>. QED  BY <1>0, <4>1, <4>2 DEF InSequence
    <3>. QED  BY <1>0, <3>1, <3>2, <3>3, <3>4
  <2>5. UpTo(s, n)
    <3>1. ASSUME NEW i \in 1..(a + b) PROVE NextSeq(s[i]) <= n
      <4>1. CASE i \in 1..a /\ s[i] = q[i]
        <5>. DEFINE k == NextSeq(q[i])
        <5>1. k <= m /\ k \in Nat
          BY <1>4, <4>1
        <5>2. k <= n
          <6>. HIDE DEF k
          <6>. QED  BY <5>1
        <5>. QED  BY <4>1, <5>2
      <4>2. CASE i > a /\ i - a \in 1..b /\ s[i] = r[i - a]
        BY <1>5, <4>2
      <4>. QED  BY <2>3, <4>1, <4>2
    <3>2. Len(s) = a + b /\ a + b \in 1..(a + b) /\ a + b > a /\ (a + b) - a = b
      BY <1>0, <1>1, <2>1
    <3>3. s[Len(s)] = r[b]
      BY <1>1, <3>2
    <3>4. NextSeq(r[b]) = n
      BY <1>8 DEF UpTo, b
    <3>. QED  BY <1>1, <3>1, <3>3, <3>4 DEF UpTo
  <2>. QED  BY <1>1, <1>8, <2>2, <2>4, <2>5
<1>. QED  BY <1>6, <1>7, <1>8

LEMMA EmptyLen == \A s \in Seq(Deliveries) : s = <<>> <=> Len(s) = 0
OBVIOUS

LEMMA TailFollows ==
  ASSUME NEW q \in Seq(Deliveries), q # <<>>, InSequence(q)
  PROVE  /\ Head(q) = q[1] /\ q[1] \in Deliveries
         /\ Tail(q) \in Seq(Deliveries) /\ InSequence(Tail(q))
         /\ Tail(q) # <<>> => Tail(q)[1].kind = "event" /\ Tail(q)[1].seq = NextSeq(q[1])
         /\ \A n : UpTo(q, n) => /\ UpTo(Tail(q), n) /\ NextSeq(q[1]) <= n
                                 /\ Tail(q) = <<>> => NextSeq(q[1]) = n
<1>. DEFINE a == Len(q)
            t == Tail(q)
<1>1. /\ a \in Nat /\ a > 0 /\ DOMAIN q = 1..a /\ q[1] \in Deliveries /\ Head(q) = q[1]
      /\ t \in Seq(Deliveries) /\ Len(t) = a - 1 /\ DOMAIN t = 1..(a - 1)
      /\ \A i \in 1..(a - 1) : t[i] = q[i + 1]
      /\ t = <<>> <=> a = 1
  <2>1. a \in Nat /\ a > 0 /\ DOMAIN q = 1..a
    OBVIOUS
  <2>2. q[1] \in Deliveries /\ Head(q) = q[1]
    BY <2>1
  <2>3. t \in Seq(Deliveries) /\ Len(t) = a - 1
    OBVIOUS
  <2>4. \A i \in 1..(a - 1) : t[i] = q[i + 1]
    OBVIOUS
  <2>. HIDE DEF t, a
  <2>5. t = <<>> <=> Len(t) = 0
    BY <2>3, EmptyLen
  <2>. QED  BY <2>1, <2>2, <2>3, <2>4, <2>5
<1>. HIDE DEF a, t
<1>2. \A i \in 1..(a - 1) : i + 1 \in 1..a /\ i + 1 > 1 /\ (i + 1) - 1 = i
  BY <1>1
<1>3. InSequence(t)
  <2>1. ASSUME NEW i \in 1..(a - 1), i > 1
        PROVE  t[i].kind = "event" /\ t[i].seq = NextSeq(t[i - 1])
    <3>1. i - 1 \in 1..(a - 1) /\ (i - 1) + 1 = i
      BY <1>1, <2>1
    <3>2. t[i] = q[i + 1] /\ t[i - 1] = q[i]
      BY <1>1, <3>1
    <3>3. q[i + 1].kind = "event" /\ q[i + 1].seq = NextSeq(q[i])
      <4>1. i + 1 \in DOMAIN q /\ i + 1 > 1 /\ (i + 1) - 1 = i
        BY <1>1, <1>2
      <4>. QED  BY <4>1 DEF InSequence
    <3>. QED  BY <3>2, <3>3
  <2>. QED  BY <1>1, <2>1 DEF InSequence
<1>4. t # <<>> => t[1].kind = "event" /\ t[1].seq = NextSeq(q[1])
  <2>1. SUFFICES ASSUME t # <<>> PROVE t[1].kind = "event" /\ t[1].seq = NextSeq(q[1])
    OBVIOUS
  <2>2. 2 \in 1..a /\ 1 \in 1..(a - 1)
    BY <1>1, <2>1
  <2>3. t[1] = q[2]
    BY <1>1, <2>2
  <2>4. q[2].kind = "event" /\ q[2].seq = NextSeq(q[2 - 1])
    BY <1>1, <2>2 DEF InSequence
  <2>. QED  BY <2>3, <2>4
<1>5. ASSUME NEW n, UpTo(q, n)
      PROVE  UpTo(t, n) /\ NextSeq(q[1]) <= n /\ (t = <<>> => NextSeq(q[1]) = n)
  <2>1. (\A i \in 1..a : NextSeq(q[i]) <= n) /\ NextSeq(q[a]) = n
    BY <1>1, <1>5 DEF UpTo, a
  <2>2. \A i \in 1..(a - 1) : NextSeq(t[i]) <= n
    BY <1>1, <1>2, <2>1
  <2>3. t # <<>> => NextSeq(t[Len(t)]) = n
    <3>1. SUFFICES ASSUME t # <<>> PROVE NextSeq(t[Len(t)]) = n
      OBVIOUS
    <3>2. a - 1 \in 1..(a - 1) /\ (a - 1) + 1 = a
      BY <1>1, <3>1
    <3>. QED  BY <1>1, <2>1, <3>2
  <2>4. 1 \in 1..a
    BY <1>1
  <2>. QED  BY <1>1, <2>1, <2>2, <2>3, <2>4 DEF UpTo
<1>. QED  BY <1>1, <1>3, <1>4, <1>5 DEF t

-----------------------------------------------------------------------------
(* The inductive invariant *)

Connections ==
  [conn : {"off", "building", "live"}, onBus : BOOLEAN, next : Nat,
   cursor : {None, Foreign} \cup Nat, queue : Seq(Deliveries), due : {None, Foreign} \cup Nat]

(* The seq a client is due is the one that comes, if it is due any; after  *)
(* the prelude of a bus that had emitted nothing, also the second.         *)
DueMeets(d, seq) == d = None \/ d = seq \/ (d = 0 /\ seq = 1)

(* Where a connection stands to the bus. *)
Attached(c, b) ==
  /\ c.conn = "off" => ~c.onBus /\ c.queue = <<>>
  /\ c.conn = "building" => c.queue = <<>> /\ c.cursor = None /\ (c.onBus => c.next = b.next)
  /\ c.onBus => b.open /\ UpTo(c.queue, b.next)
  /\ InSequence(c.queue)

(* What the client is due, and the cursor it would reconnect with, fit the *)
(* events on their way to it, or the next event of the bus.                *)
DueFits(c, b) ==
  /\ c.cursor = None => c.due = None
  /\ c.queue # <<>> /\ c.queue[1].kind = "event" => DueMeets(c.due, c.queue[1].seq)
  /\ c.conn = "live" /\ c.onBus /\ c.queue = <<>> => DueMeets(c.due, b.next)
  /\ c.conn = "live" /\ ~c.onBus => c.due \notin Nat
  /\ c.due = Foreign => /\ c.cursor = Foreign
                        /\ c.conn = "live" => c.queue # <<>> /\ c.queue[1].kind = "prelude"
  /\ c.due \in Nat => /\ b.open /\ c.due <= b.next /\ c.cursor \in Nat
                      /\ c.due = c.cursor + 1 \/ (c.due = 0 /\ c.cursor = 0)

Worlds == [exists : BOOLEAN, flag : Flags, chats : SUBSET (1..MaxMessages),
           sent : 0..MaxMessages, lives : Nat, upsets : Nat]
Reads == {r \in [stage : {"idle", "listed", "read"},
                 result : {"none", "ok", "absent", "failed"},
                 flag : Flags, chats : SUBSET (1..MaxMessages)] :
            r.stage = "read" => r.result # "none"}

StreamTyped ==
  /\ world \in Worlds /\ world.chats \subseteq 1..world.sent
  /\ known \in BOOLEAN /\ track \in Tracks
  /\ ticks \in [Pending -> Reads]
  /\ client \in Connections

StreamInv == /\ StreamTyped /\ EveryMessageAccounted
             /\ Attached(client, track) /\ DueFits(client, track)

LEMMA StreamTypes == StreamInv => StreamTypeOK
<1>. SUFFICES ASSUME StreamInv PROVE StreamTypeOK
  OBVIOUS
<1>1. StreamTyped
  BY DEF StreamInv
<1>2. /\ world.exists \in BOOLEAN /\ world.flag \in Flags /\ world.chats \subseteq 1..world.sent
      /\ known \in BOOLEAN /\ track \in Tracks
  BY <1>1 DEF StreamTyped, Worlds
<1>3. \A s \in Pending : ticks[s].stage \in {"idle", "listed", "read"}
  BY <1>1 DEF StreamTyped, Reads
<1>4. client.conn \in {"off", "building", "live"} /\ client.onBus \in BOOLEAN
  BY <1>1 DEF StreamTyped, Connections
<1>5. \A i \in DOMAIN client.queue : client.queue[i].seq \in Nat
  <2>1. client.queue \in Seq(Deliveries)
    BY <1>1 DEF StreamTyped, Connections
  <2>2. \A i \in DOMAIN client.queue : client.queue[i] \in Deliveries
    BY <2>1
  <2>. QED  BY <2>2 DEF Deliveries
<1>. QED  BY <1>2, <1>3, <1>4, <1>5 DEF StreamTypeOK

(* The empty track is typed, and a new one; what an emptied window leaves. *)
LEMMA TracksMade ==
  /\ NoTrack \in Tracks /\ NoTrack.open = FALSE
  /\ NoTrack.seen = {} /\ NoTrack.told = 0 /\ NoTrack.drops = 0
  /\ NewTrack \in Tracks /\ NewTrack.open = TRUE /\ NewTrack.next = 0
  /\ NewTrack.seen = {} /\ NewTrack.told = 0 /\ NewTrack.drops = 0
<1>1. NoTrack \in Tracks
  BY Limits DEF NoTrack, Tracks, Flags
<1>2. NewTrack = [NoTrack EXCEPT !.open = TRUE]
  BY DEF NewTrack
<1>3. NewTrack \in Tracks /\ NewTrack.open = TRUE
  BY <1>1, <1>2 DEF Tracks
<1>4. /\ NewTrack.next = NoTrack.next /\ NewTrack.seen = NoTrack.seen
      /\ NewTrack.told = NoTrack.told /\ NewTrack.drops = NoTrack.drops
  BY <1>1, <1>2 DEF Tracks
<1>. QED  BY <1>1, <1>3, <1>4 DEF NoTrack

LEMMA Ensured ==
  ASSUME StreamInv
  PROVE  /\ EnsureTrack \in Tracks /\ EnsureTrack.open
         /\ Cardinality(EnsureTrack.seen) = EnsureTrack.told + EnsureTrack.drops
         /\ track.open => EnsureTrack = track
BY TracksMade, FS_EmptySet DEF EnsureTrack, StreamInv, StreamTyped, EveryMessageAccounted, Tracks

(* What the bus emits, and its end, reach the client in order. *)
LEMMA Fed ==
  ASSUME StreamInv, FeedClient, track' \in Tracks,
         track.open /\ track'.open => track'.next >= track.next
  PROVE  client' \in Connections /\ Attached(client', track') /\ DueFits(client', track')
<1>0. /\ track \in Tracks /\ client \in Connections
      /\ Attached(client, track) /\ DueFits(client, track)
  BY DEF StreamInv, StreamTyped
<1>1. /\ track.next \in Nat /\ track'.next \in Nat /\ client.queue \in Seq(Deliveries)
      /\ client.due \in {None, Foreign} \cup Nat
  BY <1>0, BusNumbers DEF Connections
<1>2. CASE track.open /\ ~track'.open
  <2>1. client' = [client EXCEPT !.onBus = FALSE, !.due = AtMost(@, None)]
    BY <1>2 DEF FeedClient
  <2>2. AtMost(client.due, None) = IF client.due = Foreign THEN Foreign ELSE None
    BY <1>1 DEF AtMost, None, Foreign
  <2>3. /\ client'.conn = client.conn /\ client'.onBus = FALSE /\ client'.next = client.next
        /\ client'.cursor = client.cursor /\ client'.queue = client.queue
        /\ client'.due = IF client.due = Foreign THEN Foreign ELSE None
        /\ client' \in Connections
    BY <1>0, <2>1, <2>2 DEF Connections
  <2>4. Attached(client', track')
    BY <1>0, <2>3 DEF Attached
  <2>5. DueFits(client', track')
    BY <1>0, <2>3 DEF DueFits, DueMeets, None, Foreign
  <2>. QED  BY <2>3, <2>4, <2>5
<1>3. CASE client.onBus /\ client.conn = "live" /\ ~(track.open /\ ~track'.open)
  <2>. DEFINE r == BusEvents(track', track.next)
              q == client.queue \o r
  <2>1. track.open /\ track'.open /\ track.next <= track'.next /\ UpTo(client.queue, track.next)
    BY <1>0, <1>1, <1>3 DEF Attached
  <2>2. client' = [client EXCEPT !.queue = q]
    BY <1>3 DEF FeedClient
  <2>3. /\ r \in Seq(Deliveries) /\ InSequence(r) /\ UpTo(r, track'.next)
        /\ r = <<>> <=> track'.next <= track.next
        /\ r # <<>> => r[1].kind = "event" /\ r[1].seq = track.next
    BY <1>1, BusEventsMade
  <2>. HIDE DEF r
  <2>4. InSequence(client.queue)
    BY <1>0 DEF Attached
  <2>5. /\ q \in Seq(Deliveries) /\ InSequence(q) /\ UpTo(q, track'.next)
        /\ client.queue # <<>> => q # <<>> /\ q[1] = client.queue[1]
        /\ client.queue = <<>> => q = r
    <3>. DEFINE m == track.next
                n == track'.next
                p == client.queue
    <3>1. /\ m \in Nat /\ n \in Nat /\ m <= n /\ p \in Seq(Deliveries) /\ InSequence(p)
          /\ UpTo(p, m) /\ UpTo(r, n)
          /\ r = <<>> <=> n <= m
          /\ r # <<>> => r[1].kind = "event" /\ r[1].seq = m
      BY <1>1, <2>1, <2>3, <2>4
    <3>2. q = p \o r
      BY DEF q
    <3>3. /\ q \in Seq(Deliveries) /\ InSequence(q) /\ UpTo(q, n)
          /\ p # <<>> => q # <<>> /\ q[1] = p[1]
          /\ p = <<>> => q = r
      <4>. HIDE DEF m, n, p, q
      <4>. QED  BY <2>3, <3>1, <3>2, Appended
    <3>. QED  BY <3>3
  <2>. HIDE DEF q
  <2>6. /\ client'.conn = "live" /\ client'.onBus = TRUE /\ client'.next = client.next
        /\ client'.cursor = client.cursor /\ client'.queue = q /\ client'.due = client.due
        /\ client' \in Connections
    BY <1>0, <1>3, <2>2, <2>5 DEF Connections
  <2>7. Attached(client', track')
    BY <2>1, <2>5, <2>6 DEF Attached
  <2>8. DueFits(client', track')
    <3>1. q # <<>> /\ q[1].kind = "event" => DueMeets(client.due, q[1].seq)
      BY <1>0, <1>3, <2>3, <2>5 DEF DueFits
    <3>2. q = <<>> => DueMeets(client.due, track'.next)
      <4>1. SUFFICES ASSUME q = <<>> PROVE DueMeets(client.due, track'.next)
        OBVIOUS
      <4>2. client.queue = <<>> /\ r = <<>>
        BY <2>5, <4>1
      <4>3. track'.next = track.next
        BY <1>1, <2>1, <2>3, <4>2
      <4>. QED  BY <1>0, <1>3, <4>2, <4>3 DEF DueFits
    <3>3. client.due = Foreign => client.cursor = Foreign /\ q # <<>> /\ q[1].kind = "prelude"
      <4>1. client.due = Foreign => /\ client.cursor = Foreign
                                    /\ client.queue # <<>> /\ client.queue[1].kind = "prelude"
        BY <1>0, <1>3 DEF DueFits
      <4>. QED  BY <2>5, <4>1
    <3>4. client.due \in Nat => /\ client.due <= track'.next /\ client.cursor \in Nat
                                /\ client.due = client.cursor + 1 \/ (client.due = 0 /\ client.cursor = 0)
      <4>. DEFINE d == client.due
                  m == track.next
                  n == track'.next
      <4>1. d \in Nat => d <= m
        BY <1>0 DEF DueFits
      <4>2. m \in Nat /\ n \in Nat /\ m <= n
        BY <1>1, <2>1
      <4>3. d \in Nat => d <= n
        <5>. HIDE DEF d, m, n
        <5>. QED  BY <4>1, <4>2
      <4>. QED  BY <1>0, <4>3 DEF DueFits
    <3>5. client.cursor = None => client.due = None
      BY <1>0 DEF DueFits
    <3>6. /\ client'.cursor = None => client'.due = None
          /\ client'.queue # <<>> /\ client'.queue[1].kind = "event"
               => DueMeets(client'.due, client'.queue[1].seq)
          /\ client'.queue = <<>> => DueMeets(client'.due, track'.next)
      BY <2>6, <3>1, <3>2, <3>5
    <3>7. client'.due = Foreign => client'.cursor = Foreign /\ client'.queue # <<>>
                                                          /\ client'.queue[1].kind = "prelude"
      BY <2>6, <3>3
    <3>8. client'.due \in Nat => /\ track'.open /\ client'.due <= track'.next /\ client'.cursor \in Nat
                                 /\ client'.due = client'.cursor + 1 \/ (client'.due = 0 /\ client'.cursor = 0)
      BY <2>1, <2>6, <3>4
    <3>. QED  BY <2>6, <3>6, <3>7, <3>8 DEF DueFits
  <2>. QED  BY <2>6, <2>7, <2>8
<1>4. CASE client.onBus /\ client.conn # "live" /\ ~(track.open /\ ~track'.open)
  <2>1. client' = [client EXCEPT !.next = track'.next] /\ track'.open
    BY <1>0, <1>4 DEF FeedClient, Attached
  <2>2. /\ client'.conn = client.conn /\ client'.onBus = client.onBus /\ client'.next = track'.next
        /\ client'.cursor = client.cursor /\ client'.queue = client.queue /\ client'.due = client.due
        /\ client' \in Connections
    BY <1>0, <1>1, <2>1 DEF Connections
  <2>3. client.conn = "building" /\ client.queue = <<>> /\ client.cursor = None /\ client.due = None
    BY <1>0, <1>4 DEF Attached, DueFits, Connections
  <2>4. Attached(client', track')
    BY <2>1, <2>2, <2>3 DEF Attached, InSequence, UpTo
  <2>5. DueFits(client', track')
    BY <2>2, <2>3 DEF DueFits, DueMeets, None, Foreign
  <2>. QED  BY <2>2, <2>4, <2>5
<1>5. CASE ~client.onBus /\ ~(track.open /\ ~track'.open)
  <2>1. client' = client
    BY <1>5 DEF FeedClient
  <2>2. Attached(client', track')
    <3>1. client.conn \in {"off", "building", "live"} /\ InSequence(client.queue)
      BY <1>0 DEF Connections, Attached
    <3>. QED  BY <1>0, <1>5, <2>1 DEF Attached
  <2>3. client.due \in Nat => track'.open /\ client.due <= track'.next
    <3>. DEFINE d == client.due
                m == track.next
                n == track'.next
    <3>1. d \in Nat => d <= m /\ track.open
      BY <1>0 DEF DueFits
    <3>2. m \in Nat /\ n \in Nat /\ (track.open => track'.open /\ m <= n)
      BY <1>1, <1>5
    <3>3. d \in Nat => d <= n /\ track'.open
      <4>. HIDE DEF d, m, n
      <4>. QED  BY <3>1, <3>2
    <3>. QED  BY <3>3
  <2>4. DueFits(client', track')
    BY <1>0, <1>5, <2>1, <2>3 DEF DueFits
  <2>. QED  BY <1>0, <2>1, <2>2, <2>4
<1>. QED  BY <1>0, <1>2, <1>3, <1>4, <1>5 DEF Connections

LEMMA StreamStarts == StreamInit => StreamInv
<1>. SUFFICES ASSUME StreamInit PROVE StreamInv
  OBVIOUS
<1>. USE DEF StreamInit
<1>1. world \in Worlds /\ world.chats \subseteq 1..world.sent
  BY Limits DEF Worlds, Flags
<1>2. Idle \in Reads
  BY DEF Idle, Reads, Flags
<1>3. ticks \in [Pending -> Reads]
  BY <1>2
<1>4. client \in Connections /\ client.conn = "off" /\ ~client.onBus /\ client.queue = <<>>
      /\ client.cursor = None /\ client.due = None
  BY DEF NoClient, Connections
<1>5. StreamTyped
  BY <1>1, <1>3, <1>4, TracksMade DEF StreamTyped
<1>6. EveryMessageAccounted
  BY TracksMade, FS_EmptySet DEF EveryMessageAccounted
<1>7. Attached(client, track)
  BY <1>4 DEF Attached, InSequence
<1>8. DueFits(client, track)
  BY <1>4 DEF DueFits, None, Foreign
<1>. QED  BY <1>5, <1>6, <1>7, <1>8 DEF StreamInv

-----------------------------------------------------------------------------
(* The poll loop *)

(* Steps that concern neither the bus nor the client. *)
LEMMA BusUntouched ==
  ASSUME StreamInv, track' = track, client' = client,
         world' \in Worlds, world'.chats \subseteq 1..world'.sent,
         known' \in BOOLEAN, ticks' \in [Pending -> Reads]
  PROVE  StreamInv'
BY DEF StreamInv, StreamTyped, EveryMessageAccounted

LEMMA WorldStep == ASSUME StreamInv, WorldMoves PROVE StreamInv'
<1>0. /\ world \in Worlds /\ world.chats \subseteq 1..world.sent /\ world.sent \in 0..MaxMessages
      /\ known \in BOOLEAN /\ ticks \in [Pending -> Reads]
  BY DEF StreamInv, StreamTyped, Worlds
<1>1. UNCHANGED <<known, track, ticks, client>>
  BY DEF WorldMoves
<1>2. world' \in Worlds /\ world'.chats \subseteq 1..world'.sent
  <2>1. CASE Up
    <3>. DEFINE more == [world EXCEPT !.exists = TRUE]
    <3>1. /\ more \in Worlds /\ more.chats = world.chats /\ more.sent = world.sent
          /\ more.lives \in Nat
      BY <1>0 DEF Worlds
    <3>2. world' = [more EXCEPT !.lives = @ + 1]
      BY <1>0, <2>1 DEF Up, Worlds
    <3>. HIDE DEF more
    <3>. QED  BY <1>0, <3>1, <3>2 DEF Worlds
  <2>2. CASE Down
    BY <1>0, <2>2 DEF Down, Worlds, Flags
  <2>3. CASE Flip
    <3>. DEFINE more == [world EXCEPT !.upsets = @ + 1]
    <3>1. /\ more \in Worlds /\ more.chats = world.chats /\ more.sent = world.sent
      BY <1>0 DEF Worlds
    <3>2. \E flag \in Flags : world' = [more EXCEPT !.flag = flag]
      <4>. DEFINE flag == IF world.flag = "on" THEN "off" ELSE "on"
      <4>1. world' = [more EXCEPT !.flag = flag]
        BY <1>0, <2>3 DEF Flip, Worlds
      <4>2. flag \in Flags
        BY DEF Flags
      <4>. HIDE DEF flag, more
      <4>. QED  BY <4>1, <4>2
    <3>. HIDE DEF more
    <3>. QED  BY <1>0, <3>1, <3>2 DEF Worlds
  <2>4. CASE Chat
    <3>. DEFINE n == world.sent + 1
                chats == world.chats \cup {n}
    <3>1. n \in 0..MaxMessages /\ n \in 1..MaxMessages /\ chats \subseteq 1..n
      BY <1>0, <2>4, Limits DEF Chat
    <3>2. chats \subseteq 1..MaxMessages
      BY <3>1, Limits
    <3>3. world' = [world EXCEPT !.sent = n, !.chats = chats]
      BY <2>4 DEF Chat
    <3>. HIDE DEF n, chats
    <3>4. world'.sent = n /\ world'.chats = chats
      BY <1>0, <3>3 DEF Worlds
    <3>5. world' \in Worlds
      BY <1>0, <3>1, <3>2, <3>3 DEF Worlds
    <3>. QED  BY <3>1, <3>4, <3>5
  <2>. QED  BY <2>1, <2>2, <2>3, <2>4 DEF WorldMoves
<1>. QED  BY <1>0, <1>1, <1>2, BusUntouched

LEMMA IdleReads ==
  /\ Idle \in Reads
  /\ [Idle EXCEPT !.stage = "listed"] \in Reads
  /\ \A result \in {"absent", "failed"} : [Idle EXCEPT !.stage = "read", !.result = result] \in Reads
BY DEF Idle, Reads, Flags

LEMMA TickSteps ==
  ASSUME StreamInv, TickLists \/ Watchdog \/ \E s \in Pending : TickReads(s) \/ TickFails(s)
  PROVE  StreamInv'
<1>0. /\ world \in Worlds /\ world.chats \subseteq 1..world.sent
      /\ known \in BOOLEAN /\ ticks \in [Pending -> Reads]
  BY DEF StreamInv, StreamTyped
<1>1. CASE TickLists
  <2>1. ticks' \in [Pending -> Reads]
    BY <1>0, <1>1, IdleReads DEF TickLists
  <2>. QED  BY <1>0, <1>1, <2>1, BusUntouched DEF TickLists
<1>2. CASE Watchdog
  <2>1. ticks' \in [Pending -> Reads]
    <3>1. ticks.current \in Reads
      BY <1>0 DEF Pending
    <3>. QED  BY <1>2, <3>1, IdleReads DEF Watchdog, Pending
  <2>. QED  BY <1>0, <1>2, <2>1, BusUntouched DEF Watchdog
<1>3. ASSUME NEW s \in Pending, TickReads(s) \/ TickFails(s)
      PROVE  StreamInv'
  <2>1. PICK result \in {"ok", "absent", "failed"} : HasRead(s, result)
    BY <1>3 DEF TickReads, TickFails
  <2>2. world' \in Worlds /\ world'.chats \subseteq 1..world'.sent
    BY <1>0, <1>3 DEF TickReads, TickFails, Worlds
  <2>3. [stage |-> "read", result |-> "ok", flag |-> world.flag, chats |-> world.chats] \in Reads
    BY <1>0 DEF Worlds, Reads
  <2>4. ticks' \in [Pending -> Reads]
    BY <1>0, <2>1, <2>3, IdleReads DEF HasRead
  <2>. QED  BY <1>0, <2>1, <2>2, <2>4, BusUntouched DEF HasRead
<1>. QED  BY <1>1, <1>2, <1>3

(* Steps of the bus. *)
LEMMA BusStep ==
  ASSUME StreamInv, FeedClient, track' \in Tracks, world' = world, known' \in BOOLEAN,
         ticks' \in [Pending -> Reads],
         Cardinality(track'.seen) = track'.told + track'.drops,
         track.open /\ track'.open => track'.next >= track.next
  PROVE  StreamInv'
<1>1. client' \in Connections /\ Attached(client', track') /\ DueFits(client', track')
  BY Fed
<1>2. StreamTyped'
  BY <1>1 DEF StreamInv, StreamTyped
<1>. QED  BY <1>1, <1>2 DEF StreamInv, EveryMessageAccounted

LEMMA TickAppliesStep ==
  ASSUME StreamInv, NEW s \in Pending, TickApplies(s)
  PROVE  StreamInv'
<1>0. /\ ticks \in [Pending -> Reads] /\ known \in BOOLEAN /\ track \in Tracks
      /\ track.next \in Nat
  BY BusNumbers DEF StreamInv, StreamTyped
<1>1. FeedClient /\ world' = world /\ known' \in BOOLEAN
  BY DEF TickApplies
<1>2. ticks' \in [Pending -> Reads]
  BY <1>0, IdleReads DEF TickApplies
<1>3. /\ track' \in Tracks
      /\ Cardinality(track'.seen) = track'.told + track'.drops
      /\ track.open /\ track'.open => track'.next >= track.next
  <2>1. CASE IsGone(s)
    <3>1. track' = NoTrack
      BY <2>1 DEF TickApplies
    <3>. QED  BY <3>1, TracksMade, FS_EmptySet
  <2>2. CASE ~IsGone(s) /\ ticks[s].result = "ok"
    <3>. DEFINE b == [EnsureTrack EXCEPT !.failures = 0]
    <3>1. track' = Diff(b, ticks[s])
      BY <2>2 DEF TickApplies
    <3>2. /\ b \in Tracks /\ Cardinality(b.seen) = b.told + b.drops
          /\ b.next = EnsureTrack.next
      BY Ensured, Limits DEF Tracks
    <3>3. ticks[s].flag \in Flags /\ ticks[s].chats \subseteq 1..MaxMessages
      BY <1>0 DEF Reads
    <3>. HIDE DEF b
    <3>4. /\ track' \in Tracks /\ track'.next >= b.next
          /\ Cardinality(track'.seen) = track'.told + track'.drops
      BY <3>1, <3>2, <3>3, DiffAccounts
    <3>. QED  BY <3>2, <3>4, Ensured
  <2>3. CASE ~IsGone(s) /\ ticks[s].result # "ok"
    <3>1. track' = [EnsureTrack EXCEPT !.failures = @ + 1]
      BY <2>3 DEF TickApplies
    <3>2. EnsureTrack.failures + 1 \in 0..MaxFailures
      <4>1. EnsureTrack.failures \in 0..MaxFailures
        BY Ensured DEF Tracks
      <4>2. CASE ticks[s].result = "failed"
        BY <2>3, <4>1, <4>2, Limits DEF IsGone, Promoted
      <4>3. ticks[s].result # "none"
        BY <1>0 DEF TickApplies, Reads
      <4>. QED  BY <1>0, <2>3, <4>2, <4>3 DEF IsGone, Reads
    <3>3. /\ track' \in Tracks /\ track'.next = EnsureTrack.next
          /\ track'.seen = EnsureTrack.seen /\ track'.told = EnsureTrack.told
          /\ track'.drops = EnsureTrack.drops
      BY <3>1, <3>2, Ensured DEF Tracks
    <3>. QED  BY <1>0, <3>3, Ensured
  <2>. QED  BY <2>1, <2>2, <2>3
<1>. QED  BY <1>1, <1>2, <1>3, BusStep

LEMMA TimerSteps == ASSUME StreamInv, CompressionTimer \/ WindowPasses PROVE StreamInv'
<1>0. /\ StreamTyped /\ track \in Tracks /\ EveryMessageAccounted
      /\ track.told \in Nat /\ track.drops \in Nat
  BY BusNumbers DEF StreamInv, StreamTyped
<1>1. CASE CompressionTimer
  <2>1. Grown(track, track', 0)
    BY <1>0, <1>1, FlushGrows DEF CompressionTimer
  <2>2. /\ track' \in Tracks /\ track'.next >= track.next
        /\ Cardinality(track'.seen) = track'.told + track'.drops
    BY <1>0, <2>1 DEF Grown, EveryMessageAccounted
  <2>. QED  BY <1>0, <1>1, <2>2, BusStep DEF CompressionTimer, StreamTyped
<1>2. CASE WindowPasses
  <2>1. \/ track' = [track EXCEPT !.recent = 0, !.recentChat = 0]
        \/ track' = [track EXCEPT !.quiet = FALSE]
    BY <1>2 DEF WindowPasses
  <2>2. /\ track' \in Tracks /\ track'.open = track.open /\ track'.next = track.next
        /\ track'.seen = track.seen /\ track'.told = track.told /\ track'.drops = track.drops
    <3>1. CASE track' = [track EXCEPT !.recent = 0, !.recentChat = 0]
      <4>. DEFINE more == [track EXCEPT !.recent = 0]
      <4>1. /\ more \in Tracks /\ more.open = track.open /\ more.next = track.next
            /\ more.seen = track.seen /\ more.told = track.told /\ more.drops = track.drops
        BY <1>0, Limits DEF Tracks
      <4>2. track' = [more EXCEPT !.recentChat = 0]
        BY <1>0, <3>1 DEF Tracks
      <4>. HIDE DEF more
      <4>. QED  BY <4>1, <4>2, Limits DEF Tracks
    <3>2. CASE track' = [track EXCEPT !.quiet = FALSE]
      BY <1>0, <3>2 DEF Tracks
    <3>. QED  BY <2>1, <3>1, <3>2
  <2>3. UNCHANGED <<world, known, ticks, client>>
    BY <1>2 DEF WindowPasses
  <2>4. Attached(client', track') /\ DueFits(client', track')
    BY <2>2, <2>3 DEF StreamInv, Attached, DueFits
  <2>. QED  BY <1>0, <2>2, <2>3, <2>4 DEF StreamInv, StreamTyped, EveryMessageAccounted
<1>. QED  BY <1>1, <1>2

-----------------------------------------------------------------------------
(* The client and the SSE handler *)

LEMMA ClientStep ==
  ASSUME StreamInv, UNCHANGED <<world, known, ticks>>, track' \in Tracks,
         Cardinality(track'.seen) = track'.told + track'.drops,
         client' \in Connections, Attached(client', track'), DueFits(client', track')
  PROVE  StreamInv'
BY DEF StreamInv, StreamTyped, EveryMessageAccounted

LEMMA EmptyQueue == /\ <<>> \in Seq(Deliveries) /\ InSequence(<<>>)
                    /\ \A n \in Nat : UpTo(<<>>, n)
BY DEF InSequence, UpTo

LEMMA PreludeQueue ==
  ASSUME NEW n \in Nat
  PROVE  LET q == <<Prelude(n)>>
         IN  /\ q \in Seq(Deliveries) /\ InSequence(q) /\ UpTo(q, n)
             /\ q # <<>> /\ q[1].kind = "prelude"
<1>. DEFINE e == Prelude(n)
            q == <<e>>
<1>1. e \in Deliveries /\ e.kind = "prelude" /\ e.seq = n
  BY DEF Prelude, Deliveries
<1>2. NextSeq(e) = n
  BY <1>1 DEF NextSeq
<1>. HIDE DEF e
<1>3. q \in Seq(Deliveries) /\ q # <<>> /\ q[1] = e /\ Len(q) = 1 /\ DOMAIN q = {1}
  BY <1>1
<1>. HIDE DEF q
<1>4. InSequence(q) /\ UpTo(q, n)
  BY <1>2, <1>3 DEF InSequence, UpTo
<1>. QED  BY <1>1, <1>3, <1>4 DEF q, e

(* The bus a connection is opened for is the one the client's cursor is    *)
(* about, if it is about any of this daemon.                               *)
LEMMA Found ==
  ASSUME StreamInv, FindsBus
  PROVE  /\ track' \in Tracks /\ track'.open /\ track'.next \in Nat
         /\ Cardinality(track'.seen) = track'.told + track'.drops
         /\ client.queue = <<>>
         /\ client.due \in Nat => client.due <= track'.next
<1>1. track' = EnsureTrack /\ client.conn = "off"
  BY DEF FindsBus
<1>2. /\ track' \in Tracks /\ track'.open
      /\ Cardinality(track'.seen) = track'.told + track'.drops
      /\ track.open => track' = track
  BY <1>1, Ensured
<1>3. client.queue = <<>>
  BY <1>1 DEF StreamInv, Attached
<1>4. client.due \in Nat => client.due <= track'.next
  BY <1>2 DEF StreamInv, DueFits
<1>. QED  BY <1>2, <1>3, <1>4, BusNumbers

LEMMA ReconnectStep == ASSUME StreamInv, Reconnect PROVE StreamInv'
<1>0. client \in Connections /\ DueFits(client, track) /\ client.cursor # None
  BY DEF StreamInv, StreamTyped, Reconnect
<1>1. /\ track' \in Tracks /\ track'.open /\ track'.next \in Nat
      /\ Cardinality(track'.seen) = track'.told + track'.drops
      /\ client.due \in Nat => client.due <= track'.next
      /\ UNCHANGED <<world, known, ticks>>
  BY Found DEF Reconnect, FindsBus
<1>2. ASSUME NEW q \in Seq(Deliveries), client' = Subscribed(q)
      PROVE  /\ client' \in Connections
             /\ client'.conn = "live" /\ client'.onBus /\ client'.queue = q
             /\ client'.cursor = client.cursor /\ client'.due = client.due
  <2>1. client' = [conn |-> "live", onBus |-> TRUE, next |-> 0, cursor |-> client.cursor,
                   queue |-> q, due |-> client.due]
    BY <1>0, <1>2 DEF Subscribed, Connections
  <2>. QED  BY <1>0, <2>1 DEF Connections
<1>3. /\ client.due = Foreign => client.cursor = Foreign
      /\ client.due \in Nat => /\ client.cursor \in Nat
                               /\ client.due = client.cursor + 1 \/ (client.due = 0 /\ client.cursor = 0)
      /\ client.due \in {None, Foreign} \cup Nat /\ client.cursor \in {Foreign} \cup Nat
  BY <1>0 DEF DueFits, Connections
<1>4. CASE client.cursor = Foreign \/ Overflow(track', client.cursor)
  <2>. DEFINE q == <<Prelude(track'.next)>>
  <2>1. /\ q \in Seq(Deliveries) /\ InSequence(q) /\ UpTo(q, track'.next)
        /\ q # <<>> /\ q[1].kind = "prelude"
    BY <1>1, PreludeQueue
  <2>2. client' = Subscribed(q)
    BY <1>4 DEF Reconnect
  <2>. HIDE DEF q
  <2>3. /\ client' \in Connections
        /\ client'.conn = "live" /\ client'.onBus /\ client'.queue = q
        /\ client'.cursor = client.cursor /\ client'.due = client.due
    BY <1>2, <2>1, <2>2
  <2>4. Attached(client', track')
    BY <1>1, <2>1, <2>3 DEF Attached
  <2>5. DueFits(client', track')
    BY <1>0, <1>1, <1>3, <2>1, <2>3 DEF DueFits
  <2>. QED  BY <1>1, <2>3, <2>4, <2>5, ClientStep
<1>5. CASE ~(client.cursor = Foreign \/ Overflow(track', client.cursor))
  <2>. DEFINE c == client.cursor
              n == track'.next
              d == client.due
              q == BusEvents(track', c + 1)
  <2>1. c \in Nat /\ n \in Nat /\ c + 1 \in Nat
    BY <1>1, <1>3, <1>5
  <2>2. n # 0 /\ AtLeast(OldestSeq(track'), c + 1) = c + 1
    <3>1. OldestSeq(track') \in Nat
      BY <2>1, Limits DEF OldestSeq, AtLeast
    <3>. QED  BY <1>5, <2>1, <3>1 DEF Overflow, AtLeast
  <2>3. client' = Subscribed(q)
    BY <1>5, <2>2 DEF Reconnect, ReplayFrom
  <2>4. /\ q \in Seq(Deliveries) /\ InSequence(q) /\ UpTo(q, n)
        /\ q = <<>> <=> n <= c + 1
        /\ q # <<>> => q[1].kind = "event" /\ q[1].seq = c + 1
    BY <1>1, <2>1, BusEventsMade
  <2>5. d # Foreign /\ d \in {None, Foreign} \cup Nat
    BY <1>3, <1>5
  <2>6. /\ d \in Nat => d <= n
        /\ d \in Nat => d = c + 1 \/ (d = 0 /\ c = 0)
    BY <1>1, <1>3
  <2>. HIDE DEF q
  <2>7. /\ client' \in Connections
        /\ client'.conn = "live" /\ client'.onBus /\ client'.queue = q
        /\ client'.cursor = c /\ client'.due = d
    BY <1>2, <2>3, <2>4
  <2>. HIDE DEF c, n, d
  <2>8. DueMeets(d, c + 1)
    BY <2>1, <2>5, <2>6 DEF DueMeets
  <2>9. n <= c + 1 => DueMeets(d, n)
    BY <2>1, <2>2, <2>5, <2>6 DEF DueMeets
  <2>10. Attached(client', track')
    BY <1>1, <2>4, <2>7 DEF Attached, n
  <2>11. DueFits(client', track')
    <3>1. q # <<>> => DueMeets(d, q[1].seq)
      BY <2>4, <2>8
    <3>2. q = <<>> => DueMeets(d, n)
      BY <2>4, <2>9
    <3>3. c # None
      BY <2>1 DEF None
    <3>. QED  BY <1>1, <2>1, <2>5, <2>6, <2>7, <3>1, <3>2, <3>3 DEF DueFits, n
  <2>. QED  BY <1>1, <2>7, <2>10, <2>11, ClientStep
<1>. QED  BY <1>4, <1>5

LEMMA ConnectStep == ASSUME StreamInv, ConnectFresh PROVE StreamInv'
<1>0. client \in Connections /\ client.cursor = None /\ client.due = None
  BY DEF StreamInv, StreamTyped, ConnectFresh, DueFits
<1>1. /\ track' \in Tracks /\ track'.open /\ track'.next \in Nat
      /\ Cardinality(track'.seen) = track'.told + track'.drops
      /\ client.queue = <<>>
      /\ UNCHANGED <<world, known, ticks>>
  BY Found DEF ConnectFresh, FindsBus
<1>2. client' = [conn |-> "building", onBus |-> TRUE, next |-> track'.next, cursor |-> None,
                 queue |-> <<>>, due |-> None]
  BY <1>0, <1>1 DEF ConnectFresh, Connections
<1>3. client' \in Connections
  BY <1>1, <1>2, EmptyQueue DEF Connections
<1>4. Attached(client', track')
  BY <1>1, <1>2, EmptyQueue DEF Attached
<1>5. DueFits(client', track')
  BY <1>2 DEF DueFits, DueMeets, None, Foreign
<1>. QED  BY <1>1, <1>3, <1>4, <1>5, ClientStep

LEMMA BuiltStep == ASSUME StreamInv, SnapshotBuilt PROVE StreamInv'
<1>0. /\ client \in Connections /\ track \in Tracks /\ client.cursor = None /\ client.due = None
      /\ client.next \in Nat /\ track.next \in Nat
      /\ client.onBus => track.open /\ client.next = track.next
      /\ Cardinality(track.seen) = track.told + track.drops
  BY BusNumbers
     DEF StreamInv, StreamTyped, SnapshotBuilt, DueFits, Attached, Connections, EveryMessageAccounted
<1>1. PICK q \in {<<>>, <<Prelude(client.next)>>} :
        client' = [client EXCEPT !.conn = "live", !.next = 0, !.queue = q]
  BY DEF SnapshotBuilt
<1>2. UNCHANGED <<world, known, track, ticks>>
  BY DEF SnapshotBuilt
<1>3. /\ q \in Seq(Deliveries) /\ InSequence(q)
      /\ client.onBus => UpTo(q, track.next)
      /\ q # <<>> => q[1].kind = "prelude"
  <2>1. CASE q = <<>>
    BY <1>0, <2>1, EmptyQueue
  <2>2. CASE q = <<Prelude(client.next)>>
    BY <1>0, <2>2, PreludeQueue
  <2>. QED  BY <1>1, <2>1, <2>2
<1>4. client' = [conn |-> "live", onBus |-> client.onBus, next |-> 0, cursor |-> None,
                 queue |-> q, due |-> None]
  BY <1>0, <1>1 DEF Connections
<1>5. client' \in Connections
  BY <1>0, <1>3, <1>4 DEF Connections
<1>6. Attached(client', track')
  BY <1>0, <1>2, <1>3, <1>4 DEF Attached
<1>7. DueFits(client', track')
  BY <1>3, <1>4 DEF DueFits, DueMeets, None, Foreign
<1>. QED  BY <1>0, <1>2, <1>5, <1>6, <1>7, ClientStep

(* A connection that is off leaves the client what it has of the stream. *)
LEMMA DisconnectStep ==
  ASSUME StreamInv, SnapshotNotFound \/ ConnectionEnds
  PROVE  StreamInv'
<1>0. /\ client \in Connections /\ track \in Tracks /\ DueFits(client, track)
      /\ Cardinality(track.seen) = track.told + track.drops
  BY DEF StreamInv, StreamTyped, EveryMessageAccounted
<1>1. client' = Disconnected /\ UNCHANGED <<world, known, track, ticks>>
  BY DEF SnapshotNotFound, ConnectionEnds
<1>2. client' = [conn |-> "off", onBus |-> FALSE, next |-> 0, cursor |-> client.cursor,
                 queue |-> <<>>, due |-> client.due]
  BY <1>0, <1>1 DEF Disconnected, Connections
<1>3. client' \in Connections
  BY <1>0, <1>2, EmptyQueue DEF Connections
<1>4. Attached(client', track')
  BY <1>2, EmptyQueue DEF Attached
<1>5. DueFits(client', track')
  BY <1>0, <1>1, <1>2 DEF DueFits
<1>. QED  BY <1>0, <1>1, <1>3, <1>4, <1>5, ClientStep

LEMMA ResubscribeStep == ASSUME StreamInv, Resubscribe PROVE StreamInv'
<1>0. track \in Tracks /\ Cardinality(track.seen) = track.told + track.drops
  BY DEF StreamInv, StreamTyped, EveryMessageAccounted
<1>1. client' = NoClient /\ UNCHANGED <<world, known, track, ticks>>
  BY DEF Resubscribe
<1>2. client' \in Connections /\ Attached(client', track')
  BY <1>1, EmptyQueue DEF NoClient, Connections, Attached
<1>3. DueFits(client', track')
  BY <1>1 DEF NoClient, DueFits, None, Foreign
<1>. QED  BY <1>0, <1>1, <1>2, <1>3, ClientStep

LEMMA ReceiveStep == ASSUME StreamInv, Receive PROVE StreamInv'
<1>. DEFINE q == client.queue
            e == q[1]
            t == Tail(q)
            n == track.next
            nextDue == IF client.onBus THEN NextSeq(e) ELSE None
<1>0. /\ client \in Connections /\ track \in Tracks
      /\ Cardinality(track.seen) = track.told + track.drops
      /\ q \in Seq(Deliveries) /\ q # <<>> /\ InSequence(q) /\ client.conn = "live"
      /\ client.onBus => track.open /\ UpTo(q, n)
      /\ UNCHANGED <<world, known, track, ticks>>
  BY DEF StreamInv, StreamTyped, EveryMessageAccounted, Attached, Connections, Receive
<1>1. /\ Head(q) = e /\ e \in Deliveries /\ t \in Seq(Deliveries) /\ InSequence(t)
      /\ t # <<>> => t[1].kind = "event" /\ t[1].seq = NextSeq(e)
      /\ client.onBus => UpTo(t, n) /\ NextSeq(e) <= n /\ (t = <<>> => NextSeq(e) = n)
  <2>. HIDE DEF q, n
  <2>. QED  BY <1>0, TailFollows
<1>2. NextSeq(e) \in Nat /\ IdOf(e) \in Nat
      /\ (NextSeq(e) = IdOf(e) + 1 \/ (NextSeq(e) = 0 /\ IdOf(e) = 0))
  <2>. HIDE DEF e
  <2>. QED  BY <1>1 DEF NextSeq, IdOf, AtLeast, Deliveries
<1>3. client' = [client EXCEPT !.queue = t, !.cursor = IdOf(e), !.due = nextDue]
  BY <1>1 DEF Receive, NextSeq
<1>. HIDE DEF e, t, nextDue, n
<1>4. nextDue \in {None} \cup Nat
  BY <1>2 DEF nextDue
<1>5. client' = [conn |-> "live", onBus |-> client.onBus, next |-> client.next, cursor |-> IdOf(e),
                 queue |-> t, due |-> nextDue]
  BY <1>0, <1>3 DEF Connections
<1>6. client' \in Connections
  BY <1>0, <1>1, <1>2, <1>4, <1>5 DEF Connections
<1>7. Attached(client', track')
  BY <1>0, <1>1, <1>5 DEF Attached, n
<1>8. DueFits(client', track')
  <2>1. IdOf(e) # None /\ nextDue # Foreign
    BY <1>2, <1>4 DEF None, Foreign
  <2>2. t # <<>> /\ t[1].kind = "event" => DueMeets(nextDue, t[1].seq)
    BY <1>1 DEF DueMeets, nextDue
  <2>3. client.onBus /\ t = <<>> => DueMeets(nextDue, n)
    BY <1>1 DEF DueMeets, nextDue
  <2>4. ~client.onBus => nextDue \notin Nat
    BY DEF nextDue, None
  <2>5. nextDue \in Nat => /\ track'.open /\ nextDue <= n
                           /\ nextDue = IdOf(e) + 1 \/ (nextDue = 0 /\ IdOf(e) = 0)
    BY <1>0, <1>1, <1>2, <2>4 DEF nextDue
  <2>. QED  BY <1>0, <1>2, <1>5, <2>1, <2>2, <2>3, <2>4, <2>5 DEF DueFits, n
<1>. QED  BY <1>0, <1>6, <1>7, <1>8, ClientStep

LEMMA RestartStep == ASSUME StreamInv, Restart PROVE StreamInv'
<1>0. /\ client \in Connections /\ world \in Worlds /\ world.chats \subseteq 1..world.sent
  BY DEF StreamInv, StreamTyped
<1>1. world' \in Worlds /\ world'.chats \subseteq 1..world'.sent
  BY <1>0 DEF Restart, Worlds
<1>2. ticks' \in [Pending -> Reads] /\ known' \in BOOLEAN
  BY IdleReads DEF Restart
<1>3. track' \in Tracks /\ Cardinality(track'.seen) = track'.told + track'.drops
  BY TracksMade, FS_EmptySet DEF Restart
<1>. DEFINE gone == IF client.cursor = None THEN None ELSE Foreign
<1>4. client' = [conn |-> "off", onBus |-> FALSE, next |-> 0, cursor |-> gone,
                 queue |-> <<>>, due |-> gone]
  BY <1>0 DEF Restart, Disconnected, Connections
<1>. HIDE DEF gone
<1>5. gone \in {None, Foreign}
  BY DEF gone
<1>6. client' \in Connections
  BY <1>4, <1>5, EmptyQueue DEF Connections
<1>7. Attached(client', track')
  BY <1>4, EmptyQueue DEF Attached
<1>8. DueFits(client', track')
  BY <1>4, <1>5 DEF DueFits, None, Foreign
<1>. QED  BY <1>1, <1>2, <1>3, <1>6, <1>7, <1>8
          DEF StreamInv, StreamTyped, EveryMessageAccounted

LEMMA StreamStep == StreamInv /\ [StreamNext]_eventVars => StreamInv'
<1>. SUFFICES ASSUME StreamInv, [StreamNext]_eventVars PROVE StreamInv'
  OBVIOUS
<1>1. CASE TickLists \/ Watchdog \/ \E s \in Pending : TickReads(s) \/ TickFails(s)
  BY <1>1, TickSteps
<1>2. CASE \E s \in Pending : TickApplies(s)
  BY <1>2, TickAppliesStep
<1>3. CASE CompressionTimer \/ WindowPasses
  BY <1>3, TimerSteps
<1>4. CASE Reconnect
  BY <1>4, ReconnectStep
<1>5. CASE ConnectFresh
  BY <1>5, ConnectStep
<1>6. CASE SnapshotBuilt
  BY <1>6, BuiltStep
<1>7. CASE SnapshotNotFound \/ ConnectionEnds
  BY <1>7, DisconnectStep
<1>8. CASE Receive
  BY <1>8, ReceiveStep
<1>9. CASE Resubscribe
  BY <1>9, ResubscribeStep
<1>10. CASE WorldMoves
  BY <1>10, WorldStep
<1>11. CASE Restart
  BY <1>11, RestartStep
<1>12. CASE UNCHANGED eventVars
  BY <1>12 DEF eventVars, StreamInv, StreamTyped, EveryMessageAccounted
<1>. QED  BY <1>1, <1>2, <1>3, <1>4, <1>5, <1>6, <1>7, <1>8, <1>9, <1>10, <1>11, <1>12
          DEF StreamNext

(* The queue of a connection runs up to the last event of its bus without  *)
(* a hole, and the client is due its first event or, if it is empty, the   *)
(* next of the bus.                                                        *)
THEOREM StreamAlways == StreamSpec => []StreamInv
<1>. QED  BY StreamStarts, StreamStep, PTL DEF StreamSpec

(* The rates and the failures in a row stay within their caps, and every   *)
(* event has a number of its bus (aggregate.ts, event-bus.ts).             *)
THEOREM StreamTypeCorrect == StreamSpec => []StreamTypeOK
<1>. QED  BY StreamAlways, StreamTypes, PTL

(* Every message a tick has seen was sent once, announced as dropped, or   *)
(* waits to be, whichever ticks overtake each other (diffEnsembleSnapshot, *)
(* EventBus.emit, flushChatCompressed).                                    *)
THEOREM MessagesAccounted == StreamSpec => []EveryMessageAccounted
<1>1. StreamInv => EveryMessageAccounted
  BY DEF StreamInv
<1>. QED  BY <1>1, StreamAlways, PTL

(* A client receives the events of a bus in order and without a hole that  *)
(* no gap or snapshot tells it of, through lost connections, overflows of  *)
(* the ring and restarts of the daemon (sse-handler.ts, subscribe.ts).     *)
THEOREM StreamSkipsNothing == StreamSpec => NothingSkipped
<1>. DEFINE Step == LET e == Head(client.queue) IN
              client.queue # <<>> /\ Receives /\ e.kind = "event" /\ client.due # None =>
                client.due = e.seq \/ (client.due = 0 /\ e.seq = 1)
<1>1. StreamInv => Step
  <2>1. SUFFICES ASSUME StreamInv, client.queue # <<>>, Head(client.queue).kind = "event",
                        client.due # None
                 PROVE  \/ client.due = Head(client.queue).seq
                        \/ client.due = 0 /\ Head(client.queue).seq = 1
    BY DEF Step
  <2>2. client.queue \in Seq(Deliveries)
    BY <2>1 DEF StreamInv, StreamTyped, Connections
  <2>3. Head(client.queue) = client.queue[1]
    BY <2>1, <2>2
  <2>. QED  BY <2>1, <2>3 DEF StreamInv, DueFits, DueMeets
<1>2. StreamInv => [Step]_eventVars
  BY <1>1
<1>3. [][Step]_eventVars <=> NothingSkipped
  BY DEF NothingSkipped
<1>. QED  BY <1>2, <1>3, StreamAlways, PTL
===============================================================================
