---------------------------- MODULE EventBusProofs ----------------------------
(* Theorems about EventBus for every set of subscribers and extensions, every capacity and *)
(* every number of events.                                                                 *)
EXTENDS EventBus, Integers, WellFoundedInduction, SequenceTheorems, TLAPS

Terminals == {"assistantEnd", "resultEnd", "agentEnd"}

-----------------------------------------------------------------------------
(* The invariant, for one subscriber and one extension after the events of kinds. *)

(* What a handle has returned and still holds, as a set. *)
Held(r) == Range(r.received) \union Range(r.queue)

(* A handle knows of no event that was not emitted. *)
Bounded(r, n) == r.from \in 0..n /\ Range(r.queue) \subseteq 1..n

(* Not lagged: nothing is missing. *)
Complete(r, n) ==
  r.state = "open" /\ ~r.lagged => r.received \o r.queue = [i \in 1..(n - r.from) |-> r.from + i]

(* A terminal without a later one is held. *)
Newest(r, kinds) ==
  r.state = "open" =>
    \A t \in (r.from + 1)..Len(kinds) :
      kinds[t] \in Terminals /\ (\A u \in (t + 1)..Len(kinds) : kinds[u] \notin Terminals) => t \in Held(r)

SubscriberInv(r, kinds) ==
  r \in Subscriber /\ Bounded(r, Len(kinds)) /\ Complete(r, Len(kinds)) /\ Newest(r, kinds)

(* An extension has an unbroken run of events.  While its sender is there nothing is missing *)
(* and nothing was reported; after that something is missing if and only if it lags, and the *)
(* reports follow the last event.                                                            *)
Got(x) == x.received \o x.buffer
ExtensionInv(x, n, open) ==
  /\ x \in Extension
  /\ x.rx =>
       /\ Got(x) = [i \in 1..Len(Got(x)) |-> x.from + i]
       /\ x.from + Len(Got(x)) <= n
       /\ x.lagged <=> x.from + Len(Got(x)) < n
       /\ x.tx => ~x.lagged /\ ~x.ended
       /\ ~x.tx /\ ~x.lagged => ~open
       /\ x.lags \in {0, 1} /\ (x.lags = 1 <=> x.emittedLag)
       /\ x.emittedLag => x.lagged /\ x.buffer = <<>>
       /\ x.ended => x.buffer = <<>> /\ ~OwesLag(x)
  /\ x.tx => open

BusInv ==
  /\ TypeOK
  /\ \A s \in Subs : SubscriberInv(sub[s], emitted)
  /\ \A x \in Exts : ExtensionInv(ext[x], Len(emitted), sinkOpen)

-----------------------------------------------------------------------------
(* Sequences. *)

LEMMA HeldBySeq ==
  ASSUME NEW S, NEW q \in Seq(S)
  PROVE  /\ Len(q) \in Nat /\ DOMAIN q = 1..Len(q) /\ Range(q) \subseteq S
         /\ \A i \in 1..Len(q) : q[i] \in S /\ q[i] \in Range(q)
<1>1. Len(q) \in Nat /\ DOMAIN q = 1..Len(q)
  BY LenProperties
<1>2. \A i \in 1..Len(q) : q[i] \in S
  BY ElementOfSeq
<1>3. Range(q) \subseteq S
  BY <1>1, <1>2, Zenon DEF Range
<1>4. \A i \in 1..Len(q) : q[i] \in Range(q)
  BY <1>1, Zenon DEF Range
<1>5. QED
  BY <1>1, <1>2, <1>3, <1>4

LEMMA RangeOfAppend ==
  ASSUME NEW S, NEW q \in Seq(S), NEW e \in S
  PROVE  /\ Append(q, e) \in Seq(S) /\ Range(Append(q, e)) = Range(q) \union {e}
         /\ Len(Append(q, e)) = Len(q) + 1
<1>1. /\ Append(q, e) \in Seq(S) /\ Len(Append(q, e)) = Len(q) + 1 /\ Len(q) \in Nat
      /\ DOMAIN q = 1..Len(q) /\ DOMAIN Append(q, e) = 1..(Len(q) + 1)
      /\ Append(q, e)[Len(q) + 1] = e /\ \A i \in 1..Len(q) : Append(q, e)[i] = q[i]
  OBVIOUS
<1>2. 1..(Len(q) + 1) = 1..Len(q) \union {Len(q) + 1}
  BY <1>1
<1>3. QED
  BY <1>1, <1>2 DEF Range

LEMMA RangeOfTail ==
  ASSUME NEW S, NEW q \in Seq(S), q # <<>>
  PROVE  /\ Tail(q) \in Seq(S) /\ Head(q) \in S /\ Len(Tail(q)) = Len(q) - 1
         /\ Range(q) = {Head(q)} \union Range(Tail(q))
<1>1. /\ Tail(q) \in Seq(S) /\ Head(q) = q[1] /\ Head(q) \in S /\ Len(q) \in Nat \ {0} /\ Len(Tail(q)) = Len(q) - 1
      /\ DOMAIN q = 1..Len(q) /\ DOMAIN Tail(q) = 1..(Len(q) - 1)
      /\ \A i \in 1..(Len(q) - 1) : Tail(q)[i] = q[i + 1]
  BY HeadTailProperties, EmptySeq
<1>2. \A i \in 1..Len(q) : i = 1 \/ (i - 1 \in 1..(Len(q) - 1) /\ q[i] = Tail(q)[i - 1])
  BY <1>1
<1>3. \A i \in 1..(Len(q) - 1) : i + 1 \in 1..Len(q)
  BY <1>1
<1>4. Range(q) \subseteq {Head(q)} \union Range(Tail(q))
  <2>1. SUFFICES ASSUME NEW i \in 1..Len(q) PROVE q[i] \in {Head(q)} \union Range(Tail(q))
    BY <1>1, Zenon DEF Range
  <2>2. CASE i = 1
    BY <1>1, <2>2
  <2>3. CASE i # 1
    <3>1. i - 1 \in DOMAIN Tail(q) /\ q[i] = Tail(q)[i - 1]
      BY <1>1, <1>2, <2>3
    <3>2. QED
      BY <3>1, Zenon DEF Range
  <2>4. QED
    BY <2>2, <2>3
<1>5. Range(Tail(q)) \subseteq Range(q)
  <2>1. SUFFICES ASSUME NEW i \in 1..(Len(q) - 1) PROVE Tail(q)[i] \in Range(q)
    BY <1>1, Zenon DEF Range
  <2>2. i + 1 \in DOMAIN q /\ Tail(q)[i] = q[i + 1]
    BY <1>1, <1>3
  <2>3. QED
    BY <2>2, Zenon DEF Range
<1>6. 1 \in DOMAIN q
  BY <1>1
<1>7. Head(q) \in Range(q)
  BY <1>1, <1>6, Zenon DEF Range
<1>8. QED
  BY <1>1, <1>4, <1>5, <1>7

(* Removing a position loses at most what is there. *)
LEMMA RangeOfRemoval ==
  ASSUME NEW S, NEW q \in Seq(S), NEW i \in 1..Len(q)
  PROVE  RemoveAt(q, i) \in Seq(S) /\ Range(RemoveAt(q, i)) \subseteq Range(q)
         /\ Range(q) \subseteq {q[i]} \union Range(RemoveAt(q, i))
<1> DEFINE a == SubSeq(q, 1, i - 1)
           b == SubSeq(q, i + 1, Len(q))
<1>1. Len(q) \in Nat /\ DOMAIN q = 1..Len(q) /\ i \in Nat /\ \A j \in 1..Len(q) : q[j] \in S
  OBVIOUS
<1>2. a \in Seq(S) /\ Len(a) = i - 1 /\ \A j \in 1..(i - 1) : a[j] = q[j]
  <2>1. \A j \in 1..(i - 1) : q[j] \in S
    BY <1>1
  <2>2. /\ a \in Seq(S) /\ Len(a) = (IF 1 <= i - 1 THEN (i - 1) - 1 + 1 ELSE 0)
        /\ \A j \in 1..((i - 1) - 1 + 1) : a[j] = q[1 + j - 1]
    BY <1>1, <2>1, SubSeqProperties
  <2>3. QED
    BY <1>1, <2>2
<1>3. b \in Seq(S) /\ Len(b) = Len(q) - i /\ \A j \in 1..(Len(q) - i) : b[j] = q[i + j]
  <2>1. \A j \in (i + 1)..Len(q) : q[j] \in S
    BY <1>1
  <2>2. /\ b \in Seq(S) /\ Len(b) = (IF i + 1 <= Len(q) THEN Len(q) - (i + 1) + 1 ELSE 0)
        /\ \A j \in 1..(Len(q) - (i + 1) + 1) : b[j] = q[(i + 1) + j - 1]
    BY <1>1, <2>1, SubSeqProperties
  <2>3. Len(q) - (i + 1) + 1 = Len(q) - i /\ \A j \in Int : (i + 1) + j - 1 = i + j
    BY <1>1
  <2>4. Len(b) = Len(q) - i
    <3>1. CASE i + 1 <= Len(q)
      BY <2>2, <2>3, <3>1
    <3>2. CASE ~(i + 1 <= Len(q))
      <4>1. i \in Nat /\ Len(q) \in Nat /\ i <= Len(q) /\ Len(q) < i + 1
        BY <1>1, <3>2
      <4>2. Len(q) - i = 0
        BY <4>1
      <4>3. QED
        BY <2>2, <3>2, <4>2
    <3>3. QED
      BY <3>1, <3>2
  <2>5. ASSUME NEW j \in 1..(Len(q) - i) PROVE b[j] = q[i + j]
    <3>1. j \in 1..(Len(q) - (i + 1) + 1) /\ (i + 1) + j - 1 = i + j
      BY <1>1, <2>3
    <3>2. QED
      BY <2>2, <3>1
  <2>6. QED
    BY <2>2, <2>4, <2>5
<1>4. RemoveAt(q, i) = a \o b
  BY DEF RemoveAt
<1> HIDE DEF a, b
<1>5. /\ a \o b \in Seq(S) /\ Len(a \o b) = Len(q) - 1
      /\ \A j \in 1..(Len(q) - 1) : (a \o b)[j] = IF j <= i - 1 THEN a[j] ELSE b[j - (i - 1)]
  <2>1. /\ a \o b \in Seq(S) /\ Len(a \o b) = Len(a) + Len(b)
        /\ \A j \in 1..(Len(a) + Len(b)) : (a \o b)[j] = IF j <= Len(a) THEN a[j] ELSE b[j - Len(a)]
    BY <1>2, <1>3, ConcatProperties
  <2>2. Len(a) + Len(b) = Len(q) - 1
    BY <1>1, <1>2, <1>3
  <2>3. QED
    BY <1>2, <2>1, <2>2
<1>6. \A j \in 1..(Len(q) - 1) : (a \o b)[j] = IF j < i THEN q[j] ELSE q[j + 1]
  <2>1. SUFFICES ASSUME NEW j \in 1..(Len(q) - 1) PROVE (a \o b)[j] = IF j < i THEN q[j] ELSE q[j + 1]
    OBVIOUS
  <2>2. CASE j < i
    BY <1>1, <1>2, <1>5, <2>2
  <2>3. CASE ~(j < i)
    <3>1. j - (i - 1) \in 1..(Len(q) - i) /\ i + (j - (i - 1)) = j + 1
      BY <1>1, <2>3
    <3>2. (a \o b)[j] = b[j - (i - 1)]
      BY <1>1, <1>5, <2>3
    <3>3. QED
      BY <1>3, <2>3, <3>1, <3>2
  <2>4. QED
    BY <2>2, <2>3
<1>7. DOMAIN (a \o b) = 1..(Len(q) - 1)
  BY <1>5, LenProperties
<1>8. Range(a \o b) \subseteq Range(q)
  <2>1. \A j \in 1..(Len(q) - 1) : j \in 1..Len(q) /\ j + 1 \in 1..Len(q)
    BY <1>1
  <2>2. QED
    BY <1>1, <1>6, <1>7, <2>1 DEF Range
<1>9. ASSUME NEW j \in 1..Len(q), j # i PROVE q[j] \in Range(a \o b)
  <2>1. CASE j < i
    <3>1. j \in 1..(Len(q) - 1)
      BY <1>1, <2>1
    <3>2. (a \o b)[j] = q[j]
      BY <1>6, <2>1, <3>1
    <3>3. QED
      BY <1>7, <3>1, <3>2 DEF Range
  <2>2. CASE ~(j < i)
    <3>1. j - 1 \in 1..(Len(q) - 1) /\ ~(j - 1 < i) /\ (j - 1) + 1 = j
      BY <1>1, <1>9, <2>2
    <3>2. (a \o b)[j - 1] = q[j]
      BY <1>6, <3>1
    <3>3. QED
      BY <1>7, <3>1, <3>2 DEF Range
  <2>3. QED
    BY <2>1, <2>2
<1>10. Range(q) \subseteq {q[i]} \union Range(a \o b)
  <2>1. SUFFICES ASSUME NEW j \in 1..Len(q) PROVE q[j] \in {q[i]} \union Range(a \o b)
    BY <1>1, Zenon DEF Range
  <2>2. QED
    BY <1>9
<1>11. QED
  BY <1>4, <1>5, <1>8, <1>10

(* The sequences that count on from a number. *)
LEMMA CountsOn ==
  ASSUME NEW m \in Nat, NEW n \in Nat, NEW s \in Seq(Nat), s = [i \in 1..n |-> m + i]
  PROVE  Append(s, m + n + 1) = [i \in 1..(n + 1) |-> m + i]
<1>1. Len(s) = n /\ \A i \in 1..n : s[i] = m + i
  OBVIOUS
<1>2. /\ Append(s, m + n + 1) \in Seq(Nat) /\ DOMAIN Append(s, m + n + 1) = 1..(n + 1)
      /\ \A i \in 1..n : Append(s, m + n + 1)[i] = m + i
      /\ Append(s, m + n + 1)[n + 1] = m + n + 1
  BY <1>1
<1>3. \A i \in 1..(n + 1) : Append(s, m + n + 1)[i] = m + i
  BY <1>2
<1>4. QED
  BY <1>2, <1>3

(* An event moves from the front of one sequence to the back of the other. *)
LEMMA Handover ==
  ASSUME NEW r \in Seq(Nat), NEW q \in Seq(Nat), q # <<>>
  PROVE  Append(r, Head(q)) \o Tail(q) = r \o q
<1>1. /\ q = <<Head(q)>> \o Tail(q) /\ Head(q) \in Nat /\ Tail(q) \in Seq(Nat)
  BY HeadTailProperties, EmptySeq
<1>2. Append(r, Head(q)) = r \o <<Head(q)>>
  BY <1>1, AppendIsConcat
<1>3. <<Head(q)>> \in Seq(Nat)
  BY <1>1
<1>4. (r \o <<Head(q)>>) \o Tail(q) = r \o (<<Head(q)>> \o Tail(q))
  BY <1>1, <1>3, ConcatAssociative
<1>5. QED
  BY <1>1, <1>2, <1>4

LEMMA AppendBehind ==
  ASSUME NEW r \in Seq(Nat), NEW q \in Seq(Nat), NEW e \in Nat
  PROVE  r \o Append(q, e) = Append(r \o q, e) /\ r \o q \in Seq(Nat) /\ Len(r \o q) = Len(r) + Len(q)
<1>1. r \o q \in Seq(Nat) /\ <<e>> \in Seq(Nat) /\ Len(r \o q) = Len(r) + Len(q)
  BY ConcatProperties
<1>2. Append(q, e) = q \o <<e>> /\ Append(r \o q, e) = (r \o q) \o <<e>>
  BY <1>1, AppendIsConcat
<1>3. QED
  BY <1>1, <1>2, ConcatAssociative

LEMMA RangeOfConcat ==
  ASSUME NEW r \in Seq(Nat), NEW q \in Seq(Nat), NEW e \in Range(r) \union Range(q)
  PROVE  \E i \in DOMAIN (r \o q) : (r \o q)[i] = e
<1>1. /\ r \o q \in Seq(Nat) /\ Len(r) \in Nat /\ Len(q) \in Nat /\ DOMAIN r = 1..Len(r) /\ DOMAIN q = 1..Len(q)
      /\ DOMAIN (r \o q) = 1..(Len(r) + Len(q))
      /\ \A i \in 1..(Len(r) + Len(q)) : (r \o q)[i] = IF i <= Len(r) THEN r[i] ELSE q[i - Len(r)]
  BY ConcatProperties, LenProperties
<1>2. CASE e \in Range(r)
  <2>1. PICK i \in 1..Len(r) : r[i] = e
    BY <1>1, <1>2, Zenon DEF Range
  <2>2. i \in 1..(Len(r) + Len(q)) /\ i <= Len(r)
    BY <1>1
  <2>3. QED
    BY <1>1, <2>1, <2>2
<1>3. CASE e \in Range(q)
  <2>1. PICK i \in 1..Len(q) : q[i] = e
    BY <1>1, <1>3, Zenon DEF Range
  <2>2. Len(r) + i \in 1..(Len(r) + Len(q)) /\ ~(Len(r) + i <= Len(r)) /\ (Len(r) + i) - Len(r) = i
    BY <1>1
  <2>3. (r \o q)[Len(r) + i] = q[i]
    BY <1>1, <2>2
  <2>4. QED
    BY <1>1, <2>1, <2>2, <2>3
<1>4. QED
  BY <1>2, <1>3

(* What Min and Max of FiniteSetsExt choose. *)
LEMMA MinOfNats ==
  ASSUME NEW S, S \subseteq Nat, S # {}
  PROVE  Min(S) \in S /\ \A y \in S : Min(S) <= y
<1> DEFINE R == OpToRel(<, Nat)
<1>1. IsWellFoundedOn(R, Nat)
  BY NatLessThanWellFounded
<1>2. \A x, y \in Nat : x < y => <<x, y>> \in R
  BY DEF OpToRel
<1> HIDE DEF R
<1>3. PICK m \in S : \A y \in S : ~(<<y, m>> \in R)
  BY <1>1, WFMin
<1>4. \A y \in S : ~(y < m)
  BY <1>2, <1>3
<1>5. m \in S /\ \A y \in S : m <= y
  BY <1>4
<1>6. QED
  BY <1>5, Zenon DEF Min

LEMMA MaxOfNats ==
  ASSUME NEW S, NEW n \in Nat, S \subseteq 1..n, S # {}
  PROVE  Max(S) \in S /\ \A y \in S : y <= Max(S)
<1> DEFINE U == {u \in Nat : \A y \in S : y <= u}
<1>1. n \in U
  OBVIOUS
<1>2. Min(U) \in U /\ \A u \in U : Min(U) <= u
  BY <1>1, MinOfNats
<1> DEFINE m == Min(U)
<1> HIDE DEF m
<1>3. m \in Nat /\ (\A y \in S : y <= m) /\ \A u \in Nat : (\A y \in S : y <= u) => m <= u
  BY <1>2 DEF m
<1>4. m \in S
  <2>1. SUFFICES ASSUME m \notin S PROVE FALSE
    OBVIOUS
  <2>2. PICK z \in S : TRUE
    OBVIOUS
  <2>3. z \in Nat /\ z >= 1 /\ z <= m
    BY <1>3
  <2>4. m - 1 \in Nat
    BY <1>3, <2>3
  <2>5. \A y \in S : y <= m - 1
    BY <1>3, <2>1
  <2>6. m <= m - 1
    BY <1>3, <2>4, <2>5
  <2>7. QED
    BY <1>3, <2>6
<1>5. \E x \in S : \A y \in S : x >= y
  BY <1>3, <1>4
<1>6. Max(S) \in S /\ \A y \in S : Max(S) >= y
  BY <1>5, Zenon DEF Max
<1>7. QED
  BY <1>6


-----------------------------------------------------------------------------
(* push. *)

LEMMA CapacityPositive == Capacity \in Nat /\ Capacity >= 2 /\ ExtensionCapacity \in Nat
BY EventBusAssumption DEF Capacity, ExtensionCapacity, Clamp

(* The kinds after one more event. *)
LEMMA OneMore ==
  ASSUME NEW kinds \in Seq(Kinds), NEW kind \in Kinds
  PROVE  /\ Len(kinds) \in Nat /\ Append(kinds, kind) \in Seq(Kinds)
         /\ Len(Append(kinds, kind)) = Len(kinds) + 1
         /\ Append(kinds, kind)[Len(kinds) + 1] = kind
         /\ \A i \in 1..Len(kinds) : Append(kinds, kind)[i] = kinds[i]
OBVIOUS

(* What is in the queue when push has taken the event: room was made at the cost of an *)
(* update, or of the oldest event where the new one is a terminal.                     *)
LEMMA PushedQueue ==
  ASSUME NEW K, NEW e \in Nat, NEW q \in Seq(Nat),
         ~(Full(q) /\ Updates(q, K) = {} /\ ~IsRunTerminal(K[e]))
  PROVE  /\ Append(MakeRoom(q, K), e) \in Seq(Nat)
         /\ Range(Append(MakeRoom(q, K), e)) \subseteq Range(q) \union {e}
         /\ e \in Range(Append(MakeRoom(q, K), e))
         /\ ~Full(q) => Append(MakeRoom(q, K), e) = Append(q, e)
         /\ \A t \in Range(q) : K[t] \in Terminals /\ K[e] \notin Terminals => t \in Range(Append(MakeRoom(q, K), e))
<1> DEFINE room == MakeRoom(q, K)
<1>1. /\ room \in Seq(Nat) /\ Range(room) \subseteq Range(q)
      /\ \A t \in Range(q) : K[t] \in Terminals /\ K[e] \notin Terminals => t \in Range(room)
  <2>1. CASE ~Full(q)
    BY <2>1 DEF MakeRoom
  <2>2. CASE Full(q) /\ Updates(q, K) # {}
    <3>1. DOMAIN q = 1..Len(q) /\ Updates(q, K) \subseteq 1..Len(q)
      BY HeldBySeq DEF Updates
    <3>2. Updates(q, K) \subseteq Nat
      BY <3>1
    <3>3. Min(Updates(q, K)) \in Updates(q, K)
      BY <2>2, <3>2, MinOfNats
    <3>4. PICK i \in 1..Len(q) : i = Min(Updates(q, K)) /\ K[q[i]] = "update"
      BY <3>1, <3>3 DEF Updates
    <3>5. room = RemoveAt(q, i)
      BY <2>2, <3>4 DEF MakeRoom
    <3>6. /\ room \in Seq(Nat) /\ Range(room) \subseteq Range(q)
          /\ Range(q) \subseteq {q[i]} \union Range(room)
      BY <3>5, RangeOfRemoval
    <3>7. \A t \in Range(q) : K[t] \in Terminals => t # q[i]
      BY <3>4 DEF Terminals
    <3>8. QED
      BY <3>6, <3>7
  <2>3. CASE Full(q) /\ Updates(q, K) = {}
    <3>1. q # <<>>
      BY <2>3, CapacityPositive DEF Full
    <3>2. room = Tail(q)
      BY <2>3 DEF MakeRoom
    <3>3. K[e] \in Terminals
      BY <2>3 DEF IsRunTerminal, Terminals
    <3>4. QED
      BY <3>1, <3>2, <3>3, RangeOfTail
  <2>4. QED
    BY <2>1, <2>2, <2>3
<1>2. ~Full(q) => room = q
  BY DEF MakeRoom
<1> HIDE DEF room
<1>3. Append(room, e) \in Seq(Nat) /\ Range(Append(room, e)) = Range(room) \union {e}
  BY <1>1, RangeOfAppend
<1>4. SUFFICES /\ Append(room, e) \in Seq(Nat)
               /\ Range(Append(room, e)) \subseteq Range(q) \union {e}
               /\ e \in Range(Append(room, e))
               /\ ~Full(q) => Append(room, e) = Append(q, e)
               /\ \A t \in Range(q) : K[t] \in Terminals /\ K[e] \notin Terminals => t \in Range(Append(room, e))
  BY DEF room
<1>5. QED
  BY <1>1, <1>2, <1>3

(* The fields push writes. *)
LEMMA PushFields ==
  ASSUME NEW r \in Subscriber, NEW e, NEW K
  PROVE  LET refused == Full(r.queue) /\ Updates(r.queue, K) = {} /\ ~IsRunTerminal(K[e])
             p == Push(r, e, K)
         IN /\ p.state = r.state /\ p.from = r.from /\ p.received = r.received /\ p.recv = r.recv
            /\ p.lagged = (r.lagged \/ Full(r.queue))
            /\ p.queue = IF refused THEN r.queue ELSE Append(MakeRoom(r.queue, K), e)
            /\ p.queue \in Seq(Nat) => p \in Subscriber
BY DEF Push, Notified, Loses, Subscriber

LEMMA PushKeeps ==
  ASSUME NEW kinds \in Seq(Kinds), NEW kind \in Kinds, NEW r, SubscriberInv(r, kinds), r.state = "open"
  PROVE  SubscriberInv(Push(r, Len(kinds) + 1, Append(kinds, kind)), Append(kinds, kind))
<1> DEFINE n == Len(kinds)
           e == n + 1
           K == Append(kinds, kind)
           p == Push(r, e, K)
           refused == Full(r.queue) /\ Updates(r.queue, K) = {} /\ ~IsRunTerminal(K[e])
<1>1. /\ n \in Nat /\ e \in Nat /\ Len(K) = e /\ K[e] = kind /\ \A i \in 1..n : K[i] = kinds[i]
  BY OneMore
<1>2. /\ r \in Subscriber /\ r.queue \in Seq(Nat) /\ r.received \in Seq(Nat) /\ r.from \in 0..n
      /\ Range(r.queue) \subseteq 1..n /\ Complete(r, n) /\ Newest(r, kinds)
  BY DEF SubscriberInv, Subscriber, Bounded
<1>3. /\ p.state = r.state /\ p.from = r.from /\ p.received = r.received /\ p.recv = r.recv
      /\ p.lagged = (r.lagged \/ Full(r.queue))
      /\ p.queue = IF refused THEN r.queue ELSE Append(MakeRoom(r.queue, K), e)
      /\ p.queue \in Seq(Nat) => p \in Subscriber
  BY <1>2, PushFields
<1>4. ~refused => /\ p.queue \in Seq(Nat) /\ Range(p.queue) \subseteq Range(r.queue) \union {e}
                  /\ e \in Range(p.queue) /\ (~Full(r.queue) => p.queue = Append(r.queue, e))
                  /\ \A t \in Range(r.queue) : K[t] \in Terminals /\ K[e] \notin Terminals => t \in Range(p.queue)
  <2>1. SUFFICES ASSUME ~refused
                 PROVE  /\ p.queue \in Seq(Nat) /\ Range(p.queue) \subseteq Range(r.queue) \union {e}
                        /\ e \in Range(p.queue) /\ (~Full(r.queue) => p.queue = Append(r.queue, e))
                        /\ \A t \in Range(r.queue) : K[t] \in Terminals /\ K[e] \notin Terminals => t \in Range(p.queue)
    BY Zenon
  <2>2. p.queue = Append(MakeRoom(r.queue, K), e)
    BY <1>3, <2>1
  <2> HIDE DEF p, K
  <2>3. /\ Append(MakeRoom(r.queue, K), e) \in Seq(Nat)
        /\ Range(Append(MakeRoom(r.queue, K), e)) \subseteq Range(r.queue) \union {e}
        /\ e \in Range(Append(MakeRoom(r.queue, K), e))
        /\ ~Full(r.queue) => Append(MakeRoom(r.queue, K), e) = Append(r.queue, e)
        /\ \A t \in Range(r.queue) : K[t] \in Terminals /\ K[e] \notin Terminals => t \in Range(Append(MakeRoom(r.queue, K), e))
    BY <1>1, <1>2, <2>1, PushedQueue
  <2>4. QED
    BY <2>2, <2>3, Zenon
<1>5. refused => p.queue = r.queue /\ Full(r.queue) /\ K[e] \notin Terminals
  BY <1>3 DEF IsRunTerminal, Terminals
<1> HIDE DEF p, K, e, n, refused
<1>6. p \in Subscriber
  BY <1>2, <1>3, <1>4, <1>5
<1>7. Bounded(p, e)
  <2>1. Range(p.queue) \subseteq Range(r.queue) \union {e}
    BY <1>4, <1>5
  <2>2. e = n + 1
    BY DEF e
  <2>3. \A i \in 1..n : i \in 1..e
    BY <1>1, <2>2
  <2>4. e \in 1..e /\ r.from \in 0..e
    BY <1>1, <1>2, <2>2
  <2>5. Range(p.queue) \subseteq 1..e
    BY <1>2, <2>1, <2>3, <2>4
  <2>6. QED
    BY <1>3, <2>4, <2>5 DEF Bounded
<1>8. Complete(p, e)
  <2>1. SUFFICES ASSUME ~p.lagged PROVE p.received \o p.queue = [i \in 1..(e - p.from) |-> p.from + i]
    BY DEF Complete
  <2>2. ~r.lagged /\ ~Full(r.queue)
    BY <1>2, <1>3, <2>1 DEF Subscriber
  <2>3. p.queue = Append(r.queue, e)
    BY <1>4, <1>5, <2>2
  <2>4. r.received \o r.queue = [i \in 1..(n - r.from) |-> r.from + i]
    BY <1>2, <2>2 DEF Complete
  <2>5. p.received \o p.queue = Append(r.received \o r.queue, e) /\ r.received \o r.queue \in Seq(Nat)
    BY <1>1, <1>2, <1>3, <2>3, AppendBehind
  <2>6. r.from \in Nat /\ n - r.from \in Nat /\ e = r.from + (n - r.from) + 1 /\ e - r.from = (n - r.from) + 1
    BY <1>1, <1>2 DEF e
  <2>7. Append(r.received \o r.queue, r.from + (n - r.from) + 1) = [i \in 1..((n - r.from) + 1) |-> r.from + i]
    BY <2>4, <2>5, <2>6, CountsOn
  <2>8. QED
    BY <1>3, <2>5, <2>6, <2>7
<1>9. Newest(p, K)
  <2>1. SUFFICES ASSUME NEW t \in (p.from + 1)..Len(K), K[t] \in Terminals,
                        \A u \in (t + 1)..Len(K) : K[u] \notin Terminals
                 PROVE  t \in Held(p)
    BY Zenon DEF Newest
  <2>2. CASE t = e
    BY <1>4, <1>5, <2>1, <2>2 DEF Held
  <2>3. CASE t # e
    <3>1. t \in (r.from + 1)..n /\ t \in 1..n /\ e \in (t + 1)..Len(K) /\ \A u \in (t + 1)..n : u \in (t + 1)..Len(K) /\ u \in 1..n
      BY <1>1, <1>2, <1>3, <2>3 DEF e
    <3>2. K[e] \notin Terminals /\ kinds[t] \in Terminals /\ \A u \in (t + 1)..n : kinds[u] \notin Terminals
      BY <1>1, <2>1, <3>1
    <3>3. t \in Held(r)
      BY <1>2, <3>1, <3>2 DEF Newest, n
    <3>4. t \in Range(r.queue) => t \in Range(p.queue)
      BY <1>4, <1>5, <2>1, <3>2
    <3>5. QED
      BY <1>3, <3>3, <3>4 DEF Held
  <2>4. QED
    BY <2>2, <2>3
<1>10. QED
  BY <1>1, <1>6, <1>7, <1>8, <1>9 DEF SubscriberInv, p, K, e, n


-----------------------------------------------------------------------------
(* The other steps of a subscriber. *)

(* A step that touches neither the queue nor what was received. *)
LEMMA SameDelivery ==
  ASSUME NEW kinds, NEW r, NEW p \in Subscriber, SubscriberInv(r, kinds),
         p.queue = r.queue, p.received = r.received, p.from = r.from, p.lagged = r.lagged,
         p.state = "open" => r.state = "open"
  PROVE  SubscriberInv(p, kinds)
BY DEF SubscriberInv, Bounded, Complete, Newest, Held

(* Once the sender or the handle is gone only the bounds matter. *)
LEMMA NotOpen ==
  ASSUME NEW kinds \in Seq(Kinds), NEW more \in Seq(Kinds), Len(kinds) <= Len(more),
         NEW r, SubscriberInv(r, kinds), r.state # "open"
  PROVE  SubscriberInv(r, more)
<1>1. Len(kinds) \in Nat /\ Len(more) \in Nat
  OBVIOUS
<1>2. 1..Len(kinds) \subseteq 1..Len(more) /\ 0..Len(kinds) \subseteq 0..Len(more)
  BY <1>1
<1>3. QED
  BY <1>2 DEF SubscriberInv, Bounded, Complete, Newest

LEMMA NewSubInv ==
  ASSUME NEW kinds \in Seq(Kinds)
  PROVE  SubscriberInv(NewSub(Len(kinds)), kinds)
<1>1. Len(kinds) \in Nat
  OBVIOUS
<1>2. NewSub(Len(kinds)) \in Subscriber
  BY <1>1 DEF NewSub, Subscriber
<1>3. Range(<<>>) = {}
  BY DEF Range
<1>4. Bounded(NewSub(Len(kinds)), Len(kinds))
  BY <1>1, <1>3 DEF Bounded, NewSub
<1>5. Complete(NewSub(Len(kinds)), Len(kinds))
  <2>1. <<>> \o <<>> = <<>>
    OBVIOUS
  <2>2. 1..(Len(kinds) - Len(kinds)) = {}
    BY <1>1
  <2>3. [i \in 1..(Len(kinds) - Len(kinds)) |-> Len(kinds) + i] = <<>>
    BY <2>2
  <2>4. QED
    BY <2>1, <2>3 DEF Complete, NewSub
<1>6. (Len(kinds) + 1)..Len(kinds) = {}
  BY <1>1
<1>7. Newest(NewSub(Len(kinds)), kinds)
  BY <1>6 DEF Newest, NewSub
<1>8. QED
  BY <1>2, <1>4, <1>5, <1>7 DEF SubscriberInv

(* The oldest event moves from the queue to what was received. *)
LEMMA TakeKeeps ==
  ASSUME NEW kinds, NEW r, SubscriberInv(r, kinds), r.queue # <<>>, NEW p,
         p = [r EXCEPT !.queue = Tail(@), !.recv = "out", !.received = Append(@, Head(r.queue))]
  PROVE  SubscriberInv(p, kinds)
<1>1. r \in Subscriber /\ r.queue \in Seq(Nat) /\ r.received \in Seq(Nat)
  BY DEF SubscriberInv, Subscriber
<1>2. /\ Tail(r.queue) \in Seq(Nat) /\ Head(r.queue) \in Nat
      /\ Range(r.queue) = {Head(r.queue)} \union Range(Tail(r.queue))
  BY <1>1, RangeOfTail
<1>3. /\ Append(r.received, Head(r.queue)) \in Seq(Nat)
      /\ Range(Append(r.received, Head(r.queue))) = Range(r.received) \union {Head(r.queue)}
  BY <1>1, <1>2, RangeOfAppend
<1>4. /\ p.queue = Tail(r.queue) /\ p.received = Append(r.received, Head(r.queue)) /\ p.from = r.from
      /\ p.state = r.state /\ p.lagged = r.lagged /\ p \in Subscriber
  BY <1>1, <1>2, <1>3 DEF Subscriber
<1>5. p.received \o p.queue = r.received \o r.queue
  BY <1>1, <1>4, Handover
<1>6. Held(p) = Held(r) /\ Range(p.queue) \subseteq Range(r.queue)
  BY <1>2, <1>3, <1>4 DEF Held
<1>7. QED
  BY <1>4, <1>5, <1>6 DEF SubscriberInv, Bounded, Complete, Newest

(* close_receiver empties the queue. *)
LEMMA GoneKeeps ==
  ASSUME NEW kinds, NEW r, SubscriberInv(r, kinds), NEW p \in Subscriber,
         p.state = "gone", p.queue = <<>>, p.from = r.from
  PROVE  SubscriberInv(p, kinds)
<1>1. Range(<<>>) = {}
  BY DEF Range
<1>2. QED
  BY <1>1 DEF SubscriberInv, Bounded, Complete, Newest

-----------------------------------------------------------------------------
(* Extensions. *)


LEMMA ExtensionTyped ==
  ASSUME NEW x, NEW n, NEW open, ExtensionInv(x, n, open)
  PROVE  /\ x \in Extension /\ x.buffer \in Seq(Nat) /\ x.received \in Seq(Nat) /\ x.from \in Nat
         /\ x.tx \in BOOLEAN /\ x.rx \in BOOLEAN /\ x.lagged \in BOOLEAN /\ x.ended \in BOOLEAN
         /\ x.emittedLag \in BOOLEAN /\ x.lags \in Nat
         /\ Got(x) \in Seq(Nat) /\ Len(Got(x)) \in Nat
<1>1. x \in Extension
  BY DEF ExtensionInv
<1>2. /\ x.buffer \in Seq(Nat) /\ x.received \in Seq(Nat) /\ x.from \in Nat
      /\ x.tx \in BOOLEAN /\ x.rx \in BOOLEAN /\ x.lagged \in BOOLEAN /\ x.ended \in BOOLEAN
      /\ x.emittedLag \in BOOLEAN /\ x.lags \in Nat
  BY <1>1 DEF Extension
<1>3. Got(x) \in Seq(Nat) /\ Len(Got(x)) \in Nat
  BY <1>2, ConcatProperties, LenProperties DEF Got
<1>4. QED
  BY <1>1, <1>2, <1>3

LEMMA NewExtInv ==
  ASSUME NEW n \in Nat
  PROVE  ExtensionInv(NewExt(n), n, TRUE)
<1>1. NewExt(n) \in Extension
  BY DEF NewExt, Extension
<1>2. Got(NewExt(n)) = <<>> /\ Len(<<>>) = 0
  BY DEF Got, NewExt
<1>3. [i \in 1..0 |-> n + i] = <<>>
  OBVIOUS
<1>4. QED
  BY <1>1, <1>2, <1>3 DEF ExtensionInv, NewExt, OwesLag

LEMMA TrySendKeeps ==
  ASSUME NEW n \in Nat, NEW x, ExtensionInv(x, n, TRUE), NEW y, y = TrySend(x, n + 1)
  PROVE  ExtensionInv(y, n + 1, TRUE)
<1>1. /\ x \in Extension /\ x.buffer \in Seq(Nat) /\ x.received \in Seq(Nat) /\ x.from \in Nat
      /\ x.tx \in BOOLEAN /\ x.rx \in BOOLEAN /\ x.lagged \in BOOLEAN /\ x.ended \in BOOLEAN
      /\ x.emittedLag \in BOOLEAN /\ x.lags \in Nat
      /\ Got(x) \in Seq(Nat) /\ Len(Got(x)) \in Nat
  BY ExtensionTyped
<1>2. CASE ~x.tx
  <2>1. y = x
    BY <1>2 DEF TrySend
  <2>2. x.rx => x.lagged /\ x.from + Len(Got(x)) < n
    BY <1>1, <1>2 DEF ExtensionInv
  <2>3. x.rx => x.lagged /\ x.from + Len(Got(x)) < n + 1 /\ x.from + Len(Got(x)) <= n + 1
    BY <1>1, <2>2
  <2>4. QED
    BY <1>2, <2>1, <2>3 DEF ExtensionInv
<1>3. CASE x.tx /\ ~x.rx
  <2>1. y = [x EXCEPT !.tx = FALSE]
    BY <1>3 DEF TrySend
  <2>2. y \in Extension /\ ~y.rx /\ ~y.tx
    BY <1>1, <1>3, <2>1 DEF Extension
  <2>3. QED
    BY <2>2 DEF ExtensionInv
<1>4. CASE x.tx /\ x.rx /\ Len(x.buffer) = ExtensionCapacity
  <2>1. y = [x EXCEPT !.lagged = TRUE, !.tx = FALSE]
    BY <1>4 DEF TrySend
  <2>2. /\ y \in Extension /\ y.rx /\ ~y.tx /\ y.lagged /\ y.buffer = x.buffer /\ y.received = x.received
        /\ y.from = x.from /\ y.emittedLag = x.emittedLag /\ y.lags = x.lags /\ y.ended = x.ended
    BY <1>1, <1>4, <2>1 DEF Extension
  <2>3. Got(y) = Got(x)
    BY <2>2 DEF Got
  <2>4. /\ ~x.lagged /\ ~x.ended /\ ~x.emittedLag /\ x.lags \in {0, 1} /\ (x.lags = 1 <=> x.emittedLag)
        /\ Got(x) = [i \in 1..Len(Got(x)) |-> x.from + i] /\ x.from + Len(Got(x)) <= n
    BY <1>4 DEF ExtensionInv
  <2>5. x.from + Len(Got(x)) <= n + 1 /\ x.from + Len(Got(x)) < n + 1
    BY <1>1, <2>4
  <2>6. QED
    BY <2>2, <2>3, <2>4, <2>5 DEF ExtensionInv
<1>5. CASE x.tx /\ x.rx /\ Len(x.buffer) # ExtensionCapacity
  <2>1. y = [x EXCEPT !.buffer = Append(x.buffer, n + 1)]
    BY <1>5 DEF TrySend
  <2>2. Append(x.buffer, n + 1) \in Seq(Nat)
    BY <1>1
  <2>3. /\ y \in Extension /\ y.rx /\ y.tx /\ y.lagged = x.lagged /\ y.buffer = Append(x.buffer, n + 1) /\ y.received = x.received
        /\ y.from = x.from /\ y.emittedLag = x.emittedLag /\ y.lags = x.lags /\ y.ended = x.ended
    BY <1>1, <1>5, <2>1, <2>2 DEF Extension
  <2>4. /\ ~x.lagged /\ ~x.ended /\ ~x.emittedLag /\ x.lags \in {0, 1} /\ (x.lags = 1 <=> x.emittedLag)
        /\ Got(x) = [i \in 1..Len(Got(x)) |-> x.from + i] /\ x.from + Len(Got(x)) <= n
        /\ ~(x.from + Len(Got(x)) < n)
    BY <1>1, <1>5 DEF ExtensionInv
  <2>5. Got(y) = Append(Got(x), n + 1)
    <3>1. n + 1 \in Nat
      OBVIOUS
    <3>2. x.received \o Append(x.buffer, n + 1) = Append(x.received \o x.buffer, n + 1)
      BY <1>1, <3>1, AppendBehind, Zenon
    <3>3. QED
      BY <2>3, <3>2 DEF Got
  <2>6. n + 1 = x.from + Len(Got(x)) + 1
    BY <1>1, <2>4
  <2>7. Append(Got(x), x.from + Len(Got(x)) + 1) = [i \in 1..(Len(Got(x)) + 1) |-> x.from + i]
    BY <1>1, <2>4, CountsOn
  <2>8. Len(Got(y)) = Len(Got(x)) + 1
    BY <1>1, <2>5
  <2>9. Got(y) = [i \in 1..Len(Got(y)) |-> y.from + i]
    BY <2>3, <2>5, <2>6, <2>7, <2>8
  <2>10. y.from + Len(Got(y)) <= n + 1 /\ ~(y.from + Len(Got(y)) < n + 1)
    BY <1>1, <2>3, <2>6, <2>8
  <2>11. QED
    BY <2>3, <2>4, <2>9, <2>10 DEF ExtensionInv
<1>6. QED
  BY <1>2, <1>3, <1>4, <1>5

LEMMA SenderDropped ==
  ASSUME NEW n \in Nat, NEW x, ExtensionInv(x, n, TRUE)
  PROVE  ExtensionInv([x EXCEPT !.tx = FALSE], n, FALSE)
<1> DEFINE y == [x EXCEPT !.tx = FALSE]
<1>1. /\ y \in Extension /\ ~y.tx /\ y.rx = x.rx /\ y.lagged = x.lagged /\ y.buffer = x.buffer /\ y.received = x.received
      /\ y.from = x.from /\ y.emittedLag = x.emittedLag /\ y.lags = x.lags /\ y.ended = x.ended
  BY DEF ExtensionInv, Extension
<1> HIDE DEF y
<1>2. Got(y) = Got(x) /\ OwesLag(y) = OwesLag(x)
  BY <1>1 DEF Got, OwesLag
<1>3. QED
  <2>1. ExtensionInv(y, n, FALSE)
    BY <1>1, <1>2 DEF ExtensionInv
  <2>2. QED
    BY <2>1 DEF y

LEMMA ExtRecvKeeps ==
  ASSUME NEW n \in Nat, NEW open \in BOOLEAN, NEW x, ExtensionInv(x, n, open), x.rx, x.buffer # <<>>,
         NEW y, y = [x EXCEPT !.buffer = Tail(@), !.received = Append(@, Head(x.buffer))]
  PROVE  ExtensionInv(y, n, open)
<1>1. x \in Extension /\ x.buffer \in Seq(Nat) /\ x.received \in Seq(Nat)
  BY ExtensionTyped
<1>2. Tail(x.buffer) \in Seq(Nat) /\ Head(x.buffer) \in Nat
  BY <1>1, RangeOfTail
<1>3. Append(x.received, Head(x.buffer)) \in Seq(Nat)
  BY <1>1, <1>2
<1>4. /\ y \in Extension /\ y.rx = x.rx /\ y.tx = x.tx /\ y.lagged = x.lagged
      /\ y.buffer = Tail(x.buffer) /\ y.received = Append(x.received, Head(x.buffer))
      /\ y.from = x.from /\ y.emittedLag = x.emittedLag /\ y.lags = x.lags /\ y.ended = x.ended
  BY <1>1, <1>2, <1>3 DEF Extension
<1>5. Got(y) = Got(x)
  BY <1>1, <1>4, Handover DEF Got
<1>6. ~x.emittedLag /\ ~x.ended
  BY DEF ExtensionInv
<1>7. QED
  BY <1>4, <1>5, <1>6 DEF ExtensionInv

LEMMA ExtEndKeeps ==
  ASSUME NEW n \in Nat, NEW open \in BOOLEAN, NEW x, ExtensionInv(x, n, open), x.rx, MayEnd(x), NEW y,
         \/ OwesLag(x) /\ y = [x EXCEPT !.emittedLag = TRUE, !.lags = @ + 1]
         \/ ~OwesLag(x) /\ y = [x EXCEPT !.ended = TRUE]
  PROVE  ExtensionInv(y, n, open)
<1>1. x \in Extension /\ x.lags \in Nat /\ x.lagged \in BOOLEAN /\ x.emittedLag \in BOOLEAN
  BY ExtensionTyped
<1>2. ~x.tx /\ x.buffer = <<>>
  BY DEF MayEnd
<1>3. CASE OwesLag(x) /\ y = [x EXCEPT !.emittedLag = TRUE, !.lags = @ + 1]
  <2>1. x.lagged /\ ~x.emittedLag /\ x.lags = 0 /\ ~x.ended
    BY <1>1, <1>3 DEF ExtensionInv, OwesLag
  <2>2. x.lags + 1 = 1 /\ y = [x EXCEPT !.emittedLag = TRUE, !.lags = x.lags + 1]
    BY <1>3, <2>1
  <2>3. y = [x EXCEPT !.emittedLag = TRUE, !.lags = 1]
    BY <2>2
  <2>4. /\ y \in Extension /\ y.rx = x.rx /\ ~y.tx /\ y.lagged /\ y.buffer = x.buffer /\ y.received = x.received
        /\ y.from = x.from /\ y.emittedLag /\ y.lags = 1 /\ y.ended = x.ended
    BY <1>1, <1>2, <2>1, <2>3 DEF Extension
  <2>5. Got(y) = Got(x)
    BY <2>4 DEF Got
  <2>6. QED
    BY <1>2, <2>1, <2>4, <2>5 DEF ExtensionInv
<1>4. CASE ~OwesLag(x) /\ y = [x EXCEPT !.ended = TRUE]
  <2>1. /\ y \in Extension /\ y.rx = x.rx /\ ~y.tx /\ y.lagged = x.lagged /\ y.buffer = x.buffer /\ y.received = x.received
        /\ y.from = x.from /\ y.emittedLag = x.emittedLag /\ y.lags = x.lags /\ y.ended
    BY <1>1, <1>2, <1>4 DEF Extension
  <2>2. Got(y) = Got(x) /\ ~OwesLag(y)
    BY <1>4, <2>1 DEF Got, OwesLag
  <2>3. QED
    BY <1>2, <2>1, <2>2 DEF ExtensionInv
<1>5. QED
  BY <1>3, <1>4

LEMMA ExtGoneKeeps ==
  ASSUME NEW n, NEW open, NEW x, ExtensionInv(x, n, open),
         NEW y \in Extension, ~y.rx, y.tx = x.tx
  PROVE  ExtensionInv(y, n, open)
BY DEF ExtensionInv


-----------------------------------------------------------------------------
(* The steps. *)

LEMMA InitKeeps == Init => BusInv
<1>1. SUFFICES ASSUME Init PROVE BusInv
  OBVIOUS
<1>2. emitted \in Seq(Kinds) /\ Len(emitted) = 0
  BY <1>1 DEF Init
<1>3. NoSub \in Subscriber /\ NoSub.state = "none" /\ NoSub.queue = <<>> /\ NoSub.from = 0
  <2>1. <<>> \in Seq(Nat)
    OBVIOUS
  <2>2. NewSub(0) \in Subscriber /\ NewSub(0).queue = <<>> /\ NewSub(0).from = 0
    BY <2>1 DEF NewSub, Subscriber
  <2>3. QED
    BY <2>2 DEF NoSub, Subscriber
<1>4. NoExt \in Extension /\ ~NoExt.rx /\ ~NoExt.tx
  <2>1. <<>> \in Seq(Nat)
    OBVIOUS
  <2>2. NewExt(0) \in Extension
    BY <2>1 DEF NewExt, Extension
  <2>3. QED
    BY <2>2 DEF NoExt, Extension
<1>5. Range(<<>>) = {}
  BY DEF Range
<1>6. SubscriberInv(NoSub, emitted)
  BY <1>2, <1>3, <1>5 DEF SubscriberInv, Bounded, Complete, Newest
<1>7. ExtensionInv(NoExt, Len(emitted), sinkOpen)
  BY <1>4 DEF ExtensionInv
<1>8. TypeOK
  BY <1>1, <1>2, <1>3, <1>4 DEF Init, TypeOK, LoopPhases
<1>9. QED
  BY <1>1, <1>6, <1>7, <1>8 DEF Init, BusInv

(* A step of one subscriber. *)
LEMMA OneSubscriber ==
  ASSUME BusInv, NEW s \in Subs, NEW p, SubscriberInv(p, emitted), sub' = [sub EXCEPT ![s] = p],
         UNCHANGED <<emitted, phase, sinkOpen, ext>>
  PROVE  BusInv'
<1>1. sub \in [Subs -> Subscriber] /\ p \in Subscriber
  BY DEF BusInv, TypeOK, SubscriberInv
<1>2. sub' \in [Subs -> Subscriber] /\ \A z \in Subs : sub'[z] = IF z = s THEN p ELSE sub[z]
  BY <1>1
<1>3. \A z \in Subs : SubscriberInv(sub'[z], emitted)
  BY <1>2 DEF BusInv
<1>4. QED
  BY <1>2, <1>3 DEF BusInv, TypeOK

(* A step of one extension. *)
LEMMA OneExtension ==
  ASSUME BusInv, NEW x \in Exts, NEW p, ExtensionInv(p, Len(emitted), sinkOpen), ext' = [ext EXCEPT ![x] = p],
         UNCHANGED <<emitted, phase, sinkOpen, sub>>
  PROVE  BusInv'
<1>1. ext \in [Exts -> Extension] /\ p \in Extension
  BY DEF BusInv, TypeOK, ExtensionInv
<1>2. ext' \in [Exts -> Extension] /\ \A z \in Exts : ext'[z] = IF z = x THEN p ELSE ext[z]
  BY <1>1
<1>3. \A z \in Exts : ExtensionInv(ext'[z], Len(emitted), sinkOpen)
  BY <1>2 DEF BusInv
<1>4. QED
  BY <1>2, <1>3 DEF BusInv, TypeOK

LEMMA SubscriberStepKeeps ==
  ASSUME BusInv, NEW s \in Subs,
         Subscribe(s) \/ RecvTake(s) \/ RecvNone(s) \/ RecvWait(s) \/ RecvWake(s) \/ RecvCancel(s) \/ Unsubscribe(s)
  PROVE  BusInv'
<1> DEFINE r == sub[s]
<1>1. emitted \in Seq(Kinds) /\ sub \in [Subs -> Subscriber] /\ r \in Subscriber /\ SubscriberInv(r, emitted)
  BY DEF BusInv, TypeOK
<1>2. CASE Subscribe(s)
  <2>1. SubscriberInv(NewSub(Len(emitted)), emitted)
    BY <1>1, NewSubInv
  <2>2. QED
    BY <1>2, <2>1, OneSubscriber DEF Subscribe
<1>3. CASE RecvTake(s)
  <2>1. PICK p : p = [r EXCEPT !.queue = Tail(@), !.recv = "out", !.received = Append(@, Head(r.queue))]
    OBVIOUS
  <2>2. sub' = [sub EXCEPT ![s] = p] /\ r.queue # <<>>
    BY <1>1, <1>3, <2>1 DEF RecvTake
  <2>3. SubscriberInv(p, emitted)
    BY <1>1, <2>1, <2>2, TakeKeeps
  <2>4. QED
    BY <1>3, <2>2, <2>3, OneSubscriber DEF RecvTake
<1>4. CASE RecvNone(s) \/ RecvWait(s) \/ RecvWake(s) \/ RecvCancel(s)
  <2>1. PICK c \in {"out", "check", "await"}, b \in BOOLEAN : sub' = [sub EXCEPT ![s] = [r EXCEPT !.recv = c, !.permit = b]]
    <3>1. r.permit \in BOOLEAN /\ \A c : [r EXCEPT !.recv = c] = [r EXCEPT !.recv = c, !.permit = r.permit]
      BY <1>1 DEF Subscriber
    <3>2. CASE RecvNone(s)
      BY <3>1, <3>2 DEF RecvNone
    <3>3. CASE RecvWait(s)
      BY <3>1, <3>3 DEF RecvWait
    <3>4. CASE RecvWake(s)
      BY <1>1, <3>4 DEF RecvWake
    <3>5. CASE RecvCancel(s)
      BY <3>1, <3>5 DEF RecvCancel
    <3>6. QED
      BY <1>4, <3>2, <3>3, <3>4, <3>5
  <2>2. PICK p : p = [r EXCEPT !.recv = c, !.permit = b]
    OBVIOUS
  <2>3. /\ p \in Subscriber /\ p.queue = r.queue /\ p.received = r.received /\ p.from = r.from
        /\ p.lagged = r.lagged /\ p.state = r.state
    BY <1>1, <2>2 DEF Subscriber
  <2>4. SubscriberInv(p, emitted)
    BY <1>1, <2>3, SameDelivery
  <2>5. UNCHANGED <<emitted, phase, sinkOpen, ext>>
    BY <1>4 DEF RecvNone, RecvWait, RecvWake, RecvCancel
  <2>6. QED
    BY <2>1, <2>2, <2>4, <2>5, OneSubscriber
<1>5. CASE Unsubscribe(s)
  <2>1. PICK p : p = [r EXCEPT !.state = "gone", !.queue = <<>>, !.permit = TRUE]
    OBVIOUS
  <2>2. p \in Subscriber /\ p.state = "gone" /\ p.queue = <<>> /\ p.from = r.from
    <3>1. <<>> \in Seq(Nat)
      OBVIOUS
    <3>2. QED
      BY <1>1, <2>1, <3>1 DEF Subscriber
  <2>3. sub' = [sub EXCEPT ![s] = p]
    BY <1>1, <1>5, <2>1 DEF Unsubscribe
  <2>4. SubscriberInv(p, emitted)
    BY <1>1, <2>2, GoneKeeps
  <2>5. QED
    BY <1>5, <2>3, <2>4, OneSubscriber DEF Unsubscribe
<1>6. QED
  BY <1>2, <1>3, <1>4, <1>5

LEMMA ExtensionStepKeeps ==
  ASSUME BusInv, NEW x \in Exts,
         SubscribeExtension(x) \/ ExtRecv(x) \/ ExtEnd(x) \/ ExtUnsubscribe(x)
  PROVE  BusInv'
<1> DEFINE r == ext[x]
           n == Len(emitted)
<1>1. /\ ext \in [Exts -> Extension] /\ r \in Extension /\ ExtensionInv(r, n, sinkOpen)
      /\ n \in Nat /\ sinkOpen \in BOOLEAN
  BY DEF BusInv, TypeOK
<1>2. CASE SubscribeExtension(x)
  <2>1. sinkOpen = TRUE /\ ExtensionInv(NewExt(n), n, TRUE)
    BY <1>1, <1>2, NewExtInv DEF SubscribeExtension
  <2>2. QED
    BY <1>2, <2>1, OneExtension DEF SubscribeExtension
<1>3. CASE ExtRecv(x)
  <2>1. PICK p : p = [r EXCEPT !.buffer = Tail(@), !.received = Append(@, Head(r.buffer))]
    OBVIOUS
  <2>2. ext' = [ext EXCEPT ![x] = p] /\ r.rx /\ r.buffer # <<>>
    BY <1>1, <1>3, <2>1 DEF ExtRecv
  <2>3. ExtensionInv(p, n, sinkOpen)
    BY <1>1, <2>1, <2>2, ExtRecvKeeps
  <2>4. QED
    BY <1>3, <2>2, <2>3, OneExtension DEF ExtRecv
<1>4. CASE ExtEnd(x)
  <2>1. PICK p : /\ \/ OwesLag(r) /\ p = [r EXCEPT !.emittedLag = TRUE, !.lags = @ + 1]
                    \/ ~OwesLag(r) /\ p = [r EXCEPT !.ended = TRUE]
                 /\ ext' = [ext EXCEPT ![x] = p]
    BY <1>1, <1>4 DEF ExtEnd
  <2>2. r.rx /\ MayEnd(r)
    BY <1>4 DEF ExtEnd
  <2>3. ExtensionInv(p, n, sinkOpen)
    BY <1>1, <2>1, <2>2, ExtEndKeeps
  <2>4. QED
    BY <1>4, <2>1, <2>3, OneExtension DEF ExtEnd
<1>5. CASE ExtUnsubscribe(x)
  <2>1. PICK p : p = [r EXCEPT !.rx = FALSE, !.buffer = <<>>]
    OBVIOUS
  <2>2. p \in Extension /\ ~p.rx /\ p.tx = r.tx
    <3>1. <<>> \in Seq(Nat)
      OBVIOUS
    <3>2. QED
      BY <1>1, <2>1, <3>1 DEF Extension
  <2>3. ext' = [ext EXCEPT ![x] = p]
    BY <1>1, <1>5, <2>1 DEF ExtUnsubscribe
  <2>4. ExtensionInv(p, n, sinkOpen)
    BY <1>1, <2>2, ExtGoneKeeps
  <2>5. QED
    BY <1>5, <2>3, <2>4, OneExtension DEF ExtUnsubscribe
<1>6. QED
  BY <1>2, <1>3, <1>4, <1>5

LEMMA EmitKeeps ==
  ASSUME BusInv, NEW t \in Protocol, Emit(t[2], t[3])
  PROVE  BusInv'
<1>1. t[2] \in Kinds /\ t[3] \in LoopPhases
  BY DEF Protocol, Kinds, LoopPhases
<1> DEFINE kind == t[2]
           n == Len(emitted)
           K == Append(emitted, kind)
<1>2. /\ emitted \in Seq(Kinds) /\ sub \in [Subs -> Subscriber] /\ ext \in [Exts -> Extension] /\ n \in Nat
      /\ sinkOpen = TRUE
  BY DEF BusInv, TypeOK, Emit
<1>3. K \in Seq(Kinds) /\ Len(K) = n + 1
  BY <1>1, <1>2, OneMore
<1>4. /\ emitted' = K /\ phase' = t[3] /\ sinkOpen' = sinkOpen
      /\ sub' = [s \in Subs |-> IF sub[s].state = "open" THEN Push(sub[s], n + 1, K) ELSE sub[s]]
      /\ ext' = [x \in Exts |-> TrySend(ext[x], n + 1)]
  BY DEF Emit
<1>5. ASSUME NEW s \in Subs PROVE SubscriberInv(sub'[s], K)
  <2>1. SubscriberInv(sub[s], emitted)
    BY DEF BusInv
  <2>2. CASE sub[s].state = "open"
    <3>1. SubscriberInv(Push(sub[s], n + 1, K), K)
      BY <1>1, <1>2, <2>1, <2>2, PushKeeps
    <3>2. QED
      BY <1>4, <2>2, <3>1
  <2>3. CASE sub[s].state # "open"
    <3>1. n <= Len(K)
      BY <1>2, <1>3
    <3>2. SubscriberInv(sub[s], K)
      BY <1>2, <1>3, <2>1, <2>3, <3>1, NotOpen
    <3>3. QED
      BY <1>4, <2>3, <3>2
  <2>4. QED
    BY <2>2, <2>3
<1>6. ASSUME NEW x \in Exts PROVE ExtensionInv(ext'[x], n + 1, TRUE)
  <2>1. ExtensionInv(ext[x], n, TRUE)
    BY <1>2 DEF BusInv
  <2>2. ext'[x] = TrySend(ext[x], n + 1)
    BY <1>4
  <2>3. QED
    BY <1>2, <2>1, <2>2, TrySendKeeps
<1>7. sub' \in [Subs -> Subscriber] /\ ext' \in [Exts -> Extension]
  <2>1. (\A s \in Subs : sub'[s] \in Subscriber) /\ \A x \in Exts : ext'[x] \in Extension
    BY <1>5, <1>6 DEF SubscriberInv, ExtensionInv
  <2>2. QED
    BY <1>4, <2>1
<1>8. TypeOK'
  BY <1>1, <1>2, <1>3, <1>4, <1>7 DEF TypeOK
<1>9. QED
  BY <1>2, <1>3, <1>4, <1>5, <1>6, <1>8 DEF BusInv

LEMMA DropSinkKeeps ==
  ASSUME BusInv, DropSink
  PROVE  BusInv'
<1> DEFINE n == Len(emitted)
<1>1. /\ emitted \in Seq(Kinds) /\ sub \in [Subs -> Subscriber] /\ ext \in [Exts -> Extension] /\ n \in Nat
      /\ sinkOpen = TRUE
  BY DEF BusInv, TypeOK, DropSink
<1>2. /\ emitted' = emitted /\ phase' = phase /\ sinkOpen' = FALSE
      /\ sub' = [s \in Subs |-> IF sub[s].state = "open" THEN Closed(sub[s]) ELSE sub[s]]
      /\ ext' = [x \in Exts |-> [ext[x] EXCEPT !.tx = FALSE]]
  BY DEF DropSink
<1>3. ASSUME NEW s \in Subs PROVE SubscriberInv(sub'[s], emitted)
  <2>1. SubscriberInv(sub[s], emitted) /\ sub[s] \in Subscriber
    BY <1>1 DEF BusInv
  <2>2. PICK p : p = Closed(sub[s])
    OBVIOUS
  <2>3. /\ p \in Subscriber /\ p.queue = sub[s].queue /\ p.received = sub[s].received /\ p.from = sub[s].from
        /\ p.lagged = sub[s].lagged /\ p.state = "closed"
    BY <2>1, <2>2 DEF Closed, Notified, Subscriber
  <2>4. SubscriberInv(p, emitted)
    BY <2>1, <2>3, SameDelivery
  <2>5. QED
    BY <1>2, <2>1, <2>2, <2>4
<1>4. ASSUME NEW x \in Exts PROVE ExtensionInv(ext'[x], n, FALSE)
  <2>1. ExtensionInv(ext[x], n, TRUE)
    BY <1>1 DEF BusInv
  <2>2. ext'[x] = [ext[x] EXCEPT !.tx = FALSE]
    BY <1>2
  <2>3. QED
    BY <1>1, <2>1, <2>2, SenderDropped
<1>5. sub' \in [Subs -> Subscriber] /\ ext' \in [Exts -> Extension]
  <2>1. (\A s \in Subs : sub'[s] \in Subscriber) /\ \A x \in Exts : ext'[x] \in Extension
    BY <1>3, <1>4 DEF SubscriberInv, ExtensionInv
  <2>2. QED
    BY <1>2, <2>1
<1>6. QED
  BY <1>2, <1>3, <1>4, <1>5 DEF BusInv, TypeOK

LEMMA StepKeeps == BusInv /\ [Next]_vars => BusInv'
<1>1. SUFFICES ASSUME BusInv, [Next]_vars PROVE BusInv'
  OBVIOUS
<1>2. CASE \E t \in Protocol : Emit(t[2], t[3])
  BY <1>1, <1>2, EmitKeeps
<1>3. CASE DropSink
  BY <1>1, <1>3, DropSinkKeeps
<1>4. CASE \E s \in Subs : \/ Subscribe(s) \/ RecvTake(s) \/ RecvNone(s) \/ RecvWait(s)
                           \/ RecvWake(s) \/ RecvCancel(s) \/ Unsubscribe(s)
  BY <1>1, <1>4, SubscriberStepKeeps
<1>5. CASE \E x \in Exts : SubscribeExtension(x) \/ ExtRecv(x) \/ ExtEnd(x) \/ ExtUnsubscribe(x)
  BY <1>1, <1>5, ExtensionStepKeeps
<1>6. CASE UNCHANGED vars
  BY <1>1, <1>6 DEF vars, BusInv, TypeOK
<1>7. QED
  BY <1>1, <1>2, <1>3, <1>4, <1>5, <1>6 DEF Next

LEMMA BusInvariant == Spec => []BusInv
BY InitKeeps, StepKeeps, PTL DEF Spec

-----------------------------------------------------------------------------
(* What the invariant says. *)

LEMMA NewestFromInv ==
  ASSUME BusInv, NEW s \in Subs, sub[s].state = "open"
  PROVE  NewestRetained(s, Terminals)
<1> DEFINE r == sub[s]
           n == Len(emitted)
           since == Since(s, Terminals)
<1>1. /\ r \in Subscriber /\ r.queue \in Seq(Nat) /\ r.received \in Seq(Nat) /\ r.from \in 0..n /\ n \in Nat
      /\ Newest(r, emitted)
  BY DEF BusInv, TypeOK, SubscriberInv, Subscriber, Bounded
<1>2. SUFFICES ASSUME since # {} PROVE \E i \in DOMAIN Delivered(s) : Delivered(s)[i] = Max(since)
  BY DEF NewestRetained
<1>3. since = {i \in (r.from + 1)..n : emitted[i] \in Terminals}
  BY DEF Since
<1>4. since \subseteq 1..n
  BY <1>1, <1>3
<1>5. Max(since) \in since /\ \A y \in since : y <= Max(since)
  BY <1>1, <1>2, <1>4, MaxOfNats
<1> DEFINE m == Max(since)
<1> HIDE DEF m, since
<1>6. m \in since /\ \A y \in since : y <= m
  BY <1>5 DEF m
<1>7. m \in (r.from + 1)..n /\ emitted[m] \in Terminals
  BY <1>3, <1>6
<1>8. ASSUME NEW u \in (m + 1)..n PROVE emitted[u] \notin Terminals
  <2>1. u \in (r.from + 1)..n /\ ~(u <= m)
    BY <1>1, <1>7
  <2>2. QED
    BY <1>3, <1>6, <2>1
<1>9. m \in Held(r)
  BY <1>1, <1>7, <1>8 DEF Newest
<1>10. \E i \in DOMAIN (r.received \o r.queue) : (r.received \o r.queue)[i] = m
  <2>1. m \in Range(r.received) \union Range(r.queue)
    BY <1>9 DEF Held
  <2>2. \A a, b \in Seq(Nat) : \A e \in Range(a) \union Range(b) : \E i \in DOMAIN (a \o b) : (a \o b)[i] = e
    BY RangeOfConcat, Zenon
  <2>3. PICK a \in Seq(Nat), b \in Seq(Nat) : a = r.received /\ b = r.queue
    BY <1>1
  <2>4. \E i \in DOMAIN (a \o b) : (a \o b)[i] = m
    <3>1. m \in Range(a) \union Range(b)
      BY <2>1, <2>3
    <3>2. QED
      BY <2>2, <3>1, Zenon
  <2>5. QED
    BY <2>3, <2>4
<1>11. QED
  BY <1>10 DEF Delivered, m

LEMMA ExtensionFromInv ==
  ASSUME BusInv
  PROVE  ExtensionContract
<1>1. SUFFICES ASSUME NEW x \in Exts, ext[x].rx
               PROVE  /\ Got(ext[x]) = [i \in 1..Len(Got(ext[x])) |-> ext[x].from + i]
                      /\ ext[x].lags <= 1
                      /\ ext[x].lags = 1 => ext[x].buffer = <<>> /\ ext[x].from + Len(Got(ext[x])) < Len(emitted)
                      /\ ext[x].ended => (ext[x].lags = 1 <=> ext[x].from + Len(Got(ext[x])) < Len(emitted))
  BY DEF ExtensionContract, Got
<1>2. ExtensionInv(ext[x], Len(emitted), sinkOpen)
  BY DEF BusInv
<1>3. QED
  BY <1>1, <1>2 DEF ExtensionInv, OwesLag

-----------------------------------------------------------------------------
(* Every variable of the bus keeps its type. *)
THEOREM BusTypeCorrect == Spec => []TypeOK
<1>1. BusInv => TypeOK
  BY DEF BusInv
<1>2. QED
  BY <1>1, BusInvariant, PTL

(* A subscriber that push has not marked as lagged has every event emitted since it     *)
(* subscribed, in order, whatever the capacity and whoever else subscribes or leaves.   *)
THEOREM LossIsObservableHolds == Spec => []LossIsObservable
<1>1. BusInv => LossIsObservable
  BY DEF BusInv, SubscriberInv, Complete, LossIsObservable, Delivered
<1>2. QED
  BY <1>1, BusInvariant, PTL

(* However far a consumer lags, the newest MessageEnd or AgentEnd since its subscription *)
(* was handed to it or is in its queue.                                                  *)
THEOREM NewestTerminalRetainedHolds == Spec => []NewestTerminalRetained
<1>1. BusInv => NewestTerminalRetained
  BY NewestFromInv DEF NewestTerminalRetained, Terminals
<1>2. QED
  BY <1>1, BusInvariant, PTL

(* An extension gets an unbroken run of events; what it is told at its end, a lag or none, *)
(* is true of what it got, and a lag is reported once and last.                            *)
THEOREM ExtensionContractHolds == Spec => []ExtensionContract
<1>1. BusInv => ExtensionContract
  BY ExtensionFromInv
<1>2. QED
  BY <1>1, BusInvariant, PTL

=============================================================================
