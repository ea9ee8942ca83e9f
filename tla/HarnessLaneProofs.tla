-------------------------- MODULE HarnessLaneProofs --------------------------
(* Theorems about HarnessLane for any set of clients, any kinds of queued messages, either queue *)
(* mode, and any number of entries, operations and crashes.                                      *)
EXTENDS HarnessLane, Integers, FiniteSetTheorems, FunctionTheorems, SequenceTheorems, TLAPS

ItemKinds == {"steer", "follow", "next", "write"}
Items(n) == [id: 1..n, kind: ItemKinds]
Distinct(items) == \A j, k \in DOMAIN items : items[j].id = items[k].id => j = k
Boxes(n) == {items \in Seq(Items(n)) : Distinct(items)}
Lanes(n) == [cur: Nat, last: Nat, inbox: Boxes(n)]

Applying(n) == [at: {"apply"}, base: Lanes(n), next: Lanes(n)]
Admission(n) == [at: {"admit", "undo"}, op: Nat \ {0}, tip: Nat, selected: Boxes(n)]
Admissions(n) == [at: {"admitted"}, op: Nat \ {0}, base: Lanes(n), next: Lanes(n), tip: Nat]
ClientStates(n) ==
  [at: {"idle", "late"}] \union Applying(n) \union Admission(n) \union Admissions(n)
    \union [at: {"abort"}, op: Nat]

Disks(n) == [lane: Lanes(n), pending: SUBSET (1..n), log: Seq(1..n), ops: SUBSET Nat,
             metas: SUBSET Nat, cancelled: SUBSET Nat, results: SUBSET Nat]
Memories(n) == [lane: Lanes(n), op: Nat, tip: Nat]

(* Every variable but the flags has its type.  Each copy of the inbox, in the store, in memory  *)
(* and in the hands of a client, lists ids that have been reserved, each at most once.          *)
TypeOK ==
  /\ entries \in Nat
  /\ disk \in Disks(entries) /\ mem \in Memories(entries)
  /\ client \in [Clients -> ClientStates(entries)]
  /\ drive \in {"none", "driving", "ending"} /\ driven \in Nat
  /\ gone \subseteq 1..entries

-----------------------------------------------------------------------------
(* Sequences of items. *)

(* The positions are numbered in their order: each number has a position, and only one. *)
LEMMA NthPosition ==
  ASSUME NEW ks, ks \subseteq Nat, IsFiniteSet(ks), NEW n \in 1..Cardinality(ks)
  PROVE  Nth(ks, n) \in ks /\ Cardinality({j \in ks : j <= Nth(ks, n)}) = n
<1> DEFINE Upto(k) == {j \in ks : j <= k}
           rank == [k \in ks |-> Cardinality(Upto(k))]
<1>1. ASSUME NEW k \in ks
      PROVE  IsFiniteSet(Upto(k)) /\ Cardinality(Upto(k)) \in 1..Cardinality(ks)
  <2>1. Upto(k) \in SUBSET ks /\ k \in Upto(k)
    BY <1>1
  <2>2. IsFiniteSet(Upto(k)) /\ Cardinality(Upto(k)) <= Cardinality(ks)
    BY <2>1, FS_Subset
  <2>3. Cardinality(Upto(k)) # 0 /\ Cardinality(Upto(k)) \in Nat /\ Cardinality(ks) \in Nat
    BY <2>1, <2>2, FS_EmptySet, FS_CardinalityType
  <2>4. QED
    BY <2>2, <2>3
<1>2. ASSUME NEW j \in ks, NEW k \in ks, rank[j] = rank[k]
      PROVE  j = k
  <2>1. ASSUME NEW a \in ks, NEW b \in ks, a < b, Cardinality(Upto(a)) = Cardinality(Upto(b))
        PROVE  FALSE
    <3>1. Upto(a) \in SUBSET Upto(b) /\ b \in Upto(b) /\ b \notin Upto(a)
      <4>1. a \in Nat /\ b \in Nat /\ \A i \in ks : i \in Nat
        OBVIOUS
      <4>2. \A i \in ks : i <= a => i <= b
        BY <2>1, <4>1
      <4>3. b <= b /\ ~(b <= a)
        BY <2>1, <4>1
      <4>4. QED
        BY <4>2, <4>3
    <3>2. Upto(b) = Upto(a)
      BY <1>1, <2>1, <3>1, FS_Subset
    <3>3. QED
      BY <3>1, <3>2
  <2>2. Cardinality(Upto(j)) = Cardinality(Upto(k))
    BY <1>2
  <2> HIDE DEF Upto
  <2>3. QED
    BY <2>1, <2>2
<1>3. rank \in Injection(ks, 1..Cardinality(ks))
  BY <1>1, <1>2, Fun_IsInj
<1>4. IsFiniteSet(1..Cardinality(ks)) /\ Cardinality(1..Cardinality(ks)) = Cardinality(ks)
  BY FS_CardinalityType, FS_Interval
<1>5. rank \in Surjection(ks, 1..Cardinality(ks))
  BY <1>3, <1>4, FS_Injection
<1>6. \E k \in ks : Cardinality(Upto(k)) = n
  <2>1. \E k \in ks : rank[k] = n
    BY <1>5 DEF Surjection
  <2>2. QED
    BY <2>1
<1>7. QED
  BY <1>6 DEF Nth

(* The items at some positions of a sequence, each from a position of its own. *)
LEMMA ItemsAtPositions ==
  ASSUME NEW S, NEW items \in Seq(S), NEW ks \in SUBSET DOMAIN items
  PROVE  /\ ItemsAt(items, ks) \in Seq(S)
         /\ \A n \in DOMAIN ItemsAt(items, ks) :
              Nth(ks, n) \in ks /\ ItemsAt(items, ks)[n] = items[Nth(ks, n)]
         /\ \A m, n \in DOMAIN ItemsAt(items, ks) : Nth(ks, m) = Nth(ks, n) => m = n
<1>1. DOMAIN items = 1..Len(items) /\ Len(items) \in Nat /\ \A k \in DOMAIN items : items[k] \in S
  OBVIOUS
<1>2. ks \subseteq Nat /\ IsFiniteSet(ks)
  <2>1. IsFiniteSet(1..Len(items))
    BY <1>1, FS_Interval
  <2>2. QED
    BY <1>1, <2>1, FS_Subset
<1>3. Cardinality(ks) \in Nat
  BY <1>2, FS_CardinalityType
<1>4. DOMAIN ItemsAt(items, ks) = 1..Cardinality(ks)
  BY DEF ItemsAt
<1>5. \A n \in 1..Cardinality(ks) :
        /\ Nth(ks, n) \in ks /\ Cardinality({j \in ks : j <= Nth(ks, n)}) = n
        /\ ItemsAt(items, ks)[n] = items[Nth(ks, n)]
  BY <1>2, NthPosition DEF ItemsAt
<1>6. ItemsAt(items, ks) \in [1..Cardinality(ks) -> S]
  BY <1>1, <1>5 DEF ItemsAt
<1>7. ItemsAt(items, ks) \in Seq(S)
  BY <1>3, <1>6, IsASeq
<1>8. ASSUME NEW m \in 1..Cardinality(ks), NEW n \in 1..Cardinality(ks), Nth(ks, m) = Nth(ks, n)
      PROVE  m = n
  BY <1>5, <1>8
<1>9. QED
  BY <1>4, <1>5, <1>7, <1>8

(* What is taken from an inbox is an inbox. *)
LEMMA ItemsAtBox ==
  ASSUME NEW n \in Nat, NEW items \in Boxes(n), NEW ks \in SUBSET DOMAIN items
  PROVE  ItemsAt(items, ks) \in Boxes(n)
<1>1. items \in Seq(Items(n)) /\ Distinct(items)
  BY DEF Boxes
<1>2. ItemsAt(items, ks) \in Seq(Items(n))
  BY <1>1, ItemsAtPositions
<1>3. Distinct(ItemsAt(items, ks))
  BY <1>1, ItemsAtPositions DEF Distinct
<1>4. QED
  BY <1>2, <1>3 DEF Boxes

LEMMA Subboxes ==
  ASSUME NEW n \in Nat, NEW items \in Boxes(n)
  PROVE  /\ \A ids : Without(items, ids) \in Boxes(n)
         /\ \A inbox : Listed(items, inbox) \in Boxes(n)
         /\ Selected(items) \in Boxes(n)
<1>1. \A ks \in SUBSET DOMAIN items : ItemsAt(items, ks) \in Boxes(n)
  BY ItemsAtBox
<1>2. QED
  BY <1>1 DEF Without, Listed, Selected

(* The entries that the items become. *)
LEMMA BoxIds ==
  ASSUME NEW n \in Nat, NEW items \in Boxes(n)
  PROVE  /\ Ids(items) \subseteq 1..n
         /\ IdsOf(items) \in Seq(1..n) /\ Range(IdsOf(items)) = Ids(items)
         /\ IsInjective(IdsOf(items)) /\ (items # <<>> => IdsOf(items) # <<>>)
<1>1. /\ items \in Seq(Items(n)) /\ Len(items) \in Nat /\ DOMAIN items = 1..Len(items)
      /\ \A k \in DOMAIN items : items[k].id \in 1..n
  <2>1. /\ items \in Seq(Items(n)) /\ Len(items) \in Nat /\ DOMAIN items = 1..Len(items)
        /\ \A k \in DOMAIN items : items[k] \in Items(n)
    BY DEF Boxes
  <2>2. QED
    BY <2>1 DEF Items
<1>2. IdsOf(items) \in [1..Len(items) -> 1..n]
  BY <1>1 DEF IdsOf
<1>3. IdsOf(items) \in Seq(1..n) /\ Len(IdsOf(items)) = Len(items)
  BY <1>1, <1>2, IsASeq, LenProperties
<1>4. IsInjective(IdsOf(items))
  BY <1>1 DEF IdsOf, IsInjective, Boxes, Distinct
<1>5. Ids(items) \subseteq 1..n /\ Range(IdsOf(items)) = Ids(items)
  BY <1>1 DEF Ids, IdsOf, Range
<1>6. items # <<>> => IdsOf(items) # <<>>
  BY <1>1, <1>3
<1>7. QED
  BY <1>3, <1>4, <1>5, <1>6

(* A new item in an inbox. *)
LEMMA BoxAppend ==
  ASSUME NEW n \in Nat, NEW items \in Boxes(n), NEW kind \in ItemKinds
  PROVE  Append(items, Item(n + 1, kind)) \in Boxes(n + 1)
<1> DEFINE more == Append(items, Item(n + 1, kind))
<1>1. /\ items \in Seq(Items(n)) /\ Len(items) \in Nat /\ Distinct(items)
      /\ DOMAIN items = 1..Len(items)
  BY DEF Boxes
<1>2. Items(n) \subseteq Items(n + 1) /\ Item(n + 1, kind) \in Items(n + 1)
  BY DEF Items, Item
<1>3. more \in Seq(Items(n + 1)) /\ DOMAIN more = 1..(Len(items) + 1)
  BY <1>1, <1>2
<1>4. /\ \A k \in 1..Len(items) : more[k] = items[k] /\ items[k].id \in 1..n
      /\ more[Len(items) + 1].id = n + 1
  <2>1. \A k \in 1..Len(items) : more[k] = items[k] /\ items[k] \in Items(n)
    BY <1>1
  <2>2. more[Len(items) + 1] = Item(n + 1, kind)
    BY <1>1
  <2>3. QED
    BY <2>1, <2>2 DEF Items, Item
<1> HIDE DEF more
<1>5. Distinct(more)
  <2> SUFFICES ASSUME NEW j \in 1..(Len(items) + 1), NEW k \in 1..(Len(items) + 1),
                      more[j].id = more[k].id
               PROVE  j = k
    BY <1>3 DEF Distinct
  <2>1. \A i \in 1..(Len(items) + 1) : i \in 1..Len(items) \/ i = Len(items) + 1
    BY <1>1
  <2>2. CASE j \in 1..Len(items) /\ k \in 1..Len(items)
    BY <1>1, <1>4, <2>2 DEF Distinct
  <2>3. CASE j = Len(items) + 1 /\ k \in 1..Len(items)
    BY <1>4, <2>3
  <2>4. CASE k = Len(items) + 1 /\ j \in 1..Len(items)
    BY <1>4, <2>4
  <2>5. QED
    BY <2>1, <2>2, <2>3, <2>4
<1>6. QED
  BY <1>3, <1>5 DEF Boxes, more

(* More ids have been reserved. *)
LEMMA MoreIds ==
  ASSUME NEW n \in Nat
  PROVE  /\ Boxes(n) \subseteq Boxes(n + 1) /\ Lanes(n) \subseteq Lanes(n + 1)
         /\ ClientStates(n) \subseteq ClientStates(n + 1) /\ Disks(n) \subseteq Disks(n + 1)
         /\ Memories(n) \subseteq Memories(n + 1)
<1>1. Items(n) \subseteq Items(n + 1) /\ 1..n \subseteq 1..(n + 1)
  BY DEF Items
<1>2. Boxes(n) \subseteq Boxes(n + 1) /\ Seq(1..n) \subseteq Seq(1..(n + 1))
  BY <1>1, SeqMonotonic DEF Boxes
<1>3. Lanes(n) \subseteq Lanes(n + 1)
  BY <1>2 DEF Lanes
<1>4. /\ Applying(n) \subseteq Applying(n + 1) /\ Admission(n) \subseteq Admission(n + 1)
      /\ Admissions(n) \subseteq Admissions(n + 1)
  BY <1>2, <1>3 DEF Applying, Admission, Admissions
<1>5. ClientStates(n) \subseteq ClientStates(n + 1)
  BY <1>4 DEF ClientStates
<1>6. SUBSET (1..n) \subseteq SUBSET (1..(n + 1))
  BY <1>1
<1>7. Disks(n) \subseteq Disks(n + 1)
  BY <1>2, <1>3, <1>6 DEF Disks
<1>8. Memories(n) \subseteq Memories(n + 1)
  BY <1>3 DEF Memories
<1>9. QED
  BY <1>2, <1>3, <1>5, <1>7, <1>8

(* Entries put on the branch. *)
LEMMA LogGrows ==
  ASSUME NEW n \in Nat, NEW log \in Seq(1..n), NEW more \in Seq(1..n)
  PROVE  /\ log \o more \in Seq(1..n) /\ Range(log \o more) = Range(log) \union Range(more)
         /\ log \o <<>> = log
         /\ more # <<>> => Tip(log \o more) = Last(more)
         /\ IsInjective(log) /\ IsInjective(more) /\ Range(log) \intersect Range(more) = {} =>
              IsInjective(log \o more)
<1>1. /\ log \o more \in Seq(1..n) /\ log \o <<>> = log
      /\ Len(log \o more) = Len(log) + Len(more) /\ Len(log) \in Nat /\ Len(more) \in Nat
      /\ \A k \in 1..Len(log) : (log \o more)[k] = log[k]
      /\ \A k \in 1..Len(more) : (log \o more)[Len(log) + k] = more[k]
      /\ DOMAIN log = 1..Len(log) /\ DOMAIN more = 1..Len(more)
      /\ DOMAIN (log \o more) = 1..(Len(log) + Len(more))
  OBVIOUS
<1> DEFINE both == log \o more
<1>2. \A k \in DOMAIN both : \/ k \in 1..Len(log) /\ both[k] = log[k]
                             \/ /\ k - Len(log) \in 1..Len(more) /\ both[k] = more[k - Len(log)]
                                /\ Len(log) + (k - Len(log)) = k
  <2> SUFFICES ASSUME NEW k \in 1..(Len(log) + Len(more)), k \notin 1..Len(log)
               PROVE  /\ k - Len(log) \in 1..Len(more) /\ both[k] = more[k - Len(log)]
                      /\ Len(log) + (k - Len(log)) = k
    BY <1>1
  <2>1. k - Len(log) \in 1..Len(more) /\ Len(log) + (k - Len(log)) = k
    BY <1>1
  <2>2. both[Len(log) + (k - Len(log))] = more[k - Len(log)]
    BY <1>1, <2>1
  <2>3. QED
    BY <2>1, <2>2
<1>3. \A k \in 1..Len(log) : k \in DOMAIN both
  BY <1>1
<1>4. \A k \in 1..Len(more) : Len(log) + k \in DOMAIN both
  BY <1>1
<1>5. Range(both) = Range(log) \union Range(more)
  <2>1. Range(both) \subseteq Range(log) \union Range(more)
    BY <1>1, <1>2 DEF Range
  <2>2. Range(log) \subseteq Range(both)
    BY <1>1, <1>3 DEF Range
  <2>3. Range(more) \subseteq Range(both)
    BY <1>1, <1>4 DEF Range
  <2>4. QED
    BY <2>1, <2>2, <2>3
<1>6. more # <<>> => Tip(both) = Last(more)
  <2> SUFFICES ASSUME more # <<>> PROVE Tip(both) = Last(more)
    OBVIOUS
  <2>1. Len(more) \in 1..Len(more) /\ both # <<>>
    BY <1>1
  <2>2. both[Len(both)] = more[Len(more)]
    BY <1>1, <2>1
  <2>3. QED
    BY <2>1, <2>2 DEF Tip, Last
<1>7. ASSUME IsInjective(log), IsInjective(more), Range(log) \intersect Range(more) = {}
      PROVE  IsInjective(both)
  <2> SUFFICES ASSUME NEW j \in DOMAIN both, NEW k \in DOMAIN both, both[j] = both[k]
               PROVE  j = k
    BY DEF IsInjective
  <2>1. \A i \in 1..Len(log) : log[i] \in Range(log)
    BY <1>1 DEF Range
  <2>2. \A i \in 1..Len(more) : more[i] \in Range(more)
    BY <1>1 DEF Range
  <2>3. CASE j \in 1..Len(log) /\ k \in 1..Len(log)
    BY <1>1, <1>7, <2>3 DEF IsInjective
  <2>4. CASE j \notin 1..Len(log) /\ k \notin 1..Len(log)
    <3>1. /\ j - Len(log) \in 1..Len(more) /\ k - Len(log) \in 1..Len(more)
          /\ more[j - Len(log)] = more[k - Len(log)]
      BY <1>2, <2>4
    <3>2. j - Len(log) = k - Len(log)
      BY <1>1, <1>7, <3>1 DEF IsInjective
    <3>3. Len(log) + (j - Len(log)) = j /\ Len(log) + (k - Len(log)) = k
      BY <1>2, <2>4
    <3>4. QED
      BY <3>2, <3>3
  <2>5. CASE j \in 1..Len(log) /\ k \notin 1..Len(log)
    BY <1>2, <1>7, <2>1, <2>2, <2>5
  <2>6. CASE k \in 1..Len(log) /\ j \notin 1..Len(log)
    BY <1>2, <1>7, <2>1, <2>2, <2>6
  <2>7. QED
    BY <2>3, <2>4, <2>5, <2>6
<1>8. QED
  BY <1>1, <1>5, <1>6, <1>7

(* One entry put on the branch. *)
LEMMA SingleEntry ==
  ASSUME NEW n \in Nat, NEW e \in 1..n
  PROVE  /\ <<e>> \in Seq(1..n) /\ <<e>> # <<>> /\ Last(<<e>>) = e
         /\ Range(<<e>>) = {e} /\ IsInjective(<<e>>)
         /\ \A log \in Seq(1..n) : Append(log, e) = log \o <<e>>
BY DEF Last, Range, IsInjective

-----------------------------------------------------------------------------
(* The parts of a state. *)

LEMMA Parts ==
  ASSUME TypeOK
  PROVE  /\ entries \in Nat /\ entries + 1 \in 1..(entries + 1)
         /\ disk.lane \in Lanes(entries) /\ disk.pending \subseteq 1..entries
         /\ disk.log \in Seq(1..entries) /\ disk.ops \subseteq Nat /\ disk.cancelled \subseteq Nat /\ disk.metas \subseteq Nat
         /\ disk.results \subseteq Nat
         /\ mem.lane \in Lanes(entries) /\ mem.op \in Nat /\ mem.tip \in Nat
         /\ disk.lane.inbox \in Boxes(entries) /\ mem.lane.inbox \in Boxes(entries)
         /\ disk.lane.cur \in Nat /\ disk.lane.last \in Nat /\ mem.lane.last \in Nat /\ mem.lane.cur \in Nat
         /\ driven \in Nat
<1>1. disk \in Disks(entries) /\ mem \in Memories(entries) /\ entries \in Nat /\ driven \in Nat
  BY DEF TypeOK
<1>2. /\ disk.lane \in Lanes(entries) /\ disk.pending \subseteq 1..entries
      /\ disk.log \in Seq(1..entries) /\ disk.ops \subseteq Nat /\ disk.cancelled \subseteq Nat /\ disk.metas \subseteq Nat
      /\ disk.results \subseteq Nat
  BY <1>1 DEF Disks
<1>3. mem.lane \in Lanes(entries) /\ mem.op \in Nat /\ mem.tip \in Nat
  BY <1>1 DEF Memories
<1>4. QED
  BY <1>1, <1>2, <1>3 DEF Lanes

LEMMA ClientParts ==
  ASSUME NEW n \in Nat, NEW st \in ClientStates(n)
  PROVE  /\ st.at \in {"idle", "late", "apply", "admit", "undo", "admitted", "abort"}
         /\ st.at = "apply" => st.base \in Lanes(n) /\ st.next \in Lanes(n)
         /\ st.at \in {"admit", "undo"} =>
              /\ st.op \in Nat \ {0} /\ st.tip \in Nat /\ st.selected \in Boxes(n)
              /\ [st EXCEPT !.at = "undo"] \in ClientStates(n)
              /\ [st EXCEPT !.at = "undo"].at = "undo" /\ [st EXCEPT !.at = "undo"].op = st.op
         /\ st.at = "admitted" =>
              /\ st.op \in Nat \ {0} /\ st.tip \in Nat
              /\ st.base \in Lanes(n) /\ st.next \in Lanes(n)
         /\ st.at = "abort" => st.op \in Nat
<1>1. CASE st \in [at: {"idle", "late"}]
  BY <1>1
<1>2. CASE st \in Applying(n)
  BY <1>2 DEF Applying
<1>3. CASE st \in Admission(n)
  <2>1. /\ st.at \in {"admit", "undo"} /\ st.op \in Nat \ {0} /\ st.tip \in Nat /\ st.selected \in Boxes(n)
        /\ [st EXCEPT !.at = "undo"] \in Admission(n)
        /\ [st EXCEPT !.at = "undo"].at = "undo" /\ [st EXCEPT !.at = "undo"].op = st.op
    BY <1>3 DEF Admission
  <2>2. QED
    BY <2>1 DEF ClientStates
<1>4. CASE st \in Admissions(n)
  BY <1>4 DEF Admissions
<1>5. CASE st \in [at: {"abort"}, op: Nat]
  BY <1>5
<1>6. QED
  BY <1>1, <1>2, <1>3, <1>4, <1>5 DEF ClientStates

LEMMA ClientMakes ==
  ASSUME NEW n \in Nat
  PROVE  /\ Idle \in ClientStates(n) /\ [at |-> "late"] \in ClientStates(n)
         /\ \A base, next \in Lanes(n) :
              [at |-> "apply", base |-> base, next |-> next] \in ClientStates(n)
         /\ \A op \in Nat \ {0}, tip \in Nat, selected \in Boxes(n) :
              [at |-> "admit", op |-> op, tip |-> tip, selected |-> selected] \in ClientStates(n)
         /\ \A op \in Nat \ {0}, base, next \in Lanes(n), tip \in Nat :
              [at |-> "admitted", op |-> op, base |-> base, next |-> next, tip |-> tip]
                \in ClientStates(n)
         /\ \A op \in Nat : [at |-> "abort", op |-> op] \in ClientStates(n)
<1>1. Idle \in [at: {"idle", "late"}] /\ [at |-> "late"] \in [at: {"idle", "late"}]
  BY DEF Idle
<1>2. \A base, next \in Lanes(n) : [at |-> "apply", base |-> base, next |-> next] \in Applying(n)
  BY DEF Applying
<1>3. \A op \in Nat \ {0}, tip \in Nat, selected \in Boxes(n) :
        [at |-> "admit", op |-> op, tip |-> tip, selected |-> selected] \in Admission(n)
  BY DEF Admission
<1>4. \A op \in Nat \ {0}, base, next \in Lanes(n), tip \in Nat :
        [at |-> "admitted", op |-> op, base |-> base, next |-> next, tip |-> tip] \in Admissions(n)
  BY DEF Admissions
<1>5. QED
  BY <1>1, <1>2, <1>3, <1>4 DEF ClientStates

(* The states of the lane that the steps write. *)
LEMMA LaneMakes ==
  ASSUME NEW n \in Nat
  PROVE  /\ \A lane \in Lanes(n), inbox \in Boxes(n) : [lane EXCEPT !.inbox = inbox] \in Lanes(n)
         /\ \A cur, last \in Nat, inbox \in Boxes(n) : LaneState(cur, last, inbox) \in Lanes(n)
BY DEF Lanes, LaneState

-----------------------------------------------------------------------------
(* The steps, with one for each branch, and without the wake-ups of wait_for_idle. *)

Queued(kind) == [disk.lane EXCEPT !.inbox = Append(disk.lane.inbox, Item(entries + 1, kind))]
Written == [mem.lane EXCEPT !.inbox = Append(mem.lane.inbox, Item(entries + 1, "write"))]
Shortened(ids) == [disk.lane EXCEPT !.inbox = Without(disk.lane.inbox, ids)]
Applies(next) == [at |-> "apply", base |-> disk.lane, next |-> next]
Forks(parent) == forked' => forked \/ parent # Tip(disk.log)

Enqueues(c, kind) ==
  /\ Calls(c) /\ entries' = entries + 1
  /\ disk' = [disk EXCEPT !.lane = Queued(kind), !.pending = disk.pending \union {entries + 1}]
  /\ client' = [client EXCEPT ![c] = Applies(Queued(kind))]
  /\ UNCHANGED <<mem, drive, sealed, down, gone, forked>>

Cancels(c, id) ==
  /\ Calls(c) /\ id \in Ids(disk.lane.inbox)
  /\ disk' = [disk EXCEPT !.lane = Shortened({id}), !.pending = disk.pending \ {id}]
  /\ client' = [client EXCEPT ![c] = Applies(Shortened({id}))]
  /\ gone' = gone \union {id}
  /\ UNCHANGED <<mem, drive, sealed, down, entries, forked>>

QueuesWrite(c) ==
  /\ Calls(c) /\ mem.op # 0 /\ entries' = entries + 1
  /\ disk' = [disk EXCEPT !.lane = Written, !.pending = disk.pending \union {entries + 1}]
  /\ mem' = [mem EXCEPT !.lane = Written]
  /\ client' = [client EXCEPT ![c] = Idle]
  /\ UNCHANGED <<drive, sealed, down, gone, forked>>

AppendsEntry(c) ==
  /\ Calls(c) /\ mem.op = 0 /\ entries' = entries + 1
  /\ disk' = [disk EXCEPT !.log = disk.log \o <<entries + 1>>]
  /\ mem' = [mem EXCEPT !.tip = entries + 1]
  /\ Forks(mem.tip)
  /\ client' = [client EXCEPT ![c] = Idle]
  /\ UNCHANGED <<drive, sealed, down, gone>>

Accepts(c, op) ==
  /\ ~down /\ Working(c, "idle") /\ mem.op = 0
  /\ client' = [client EXCEPT ![c] =
       [at |-> "admit", op |-> op, tip |-> mem.tip, selected |-> Selected(mem.lane.inbox)]]
  /\ mem' = [mem EXCEPT !.op = op]
  /\ UNCHANGED <<disk, drive, sealed, down, entries, gone, forked>>

Chosen(c) == Listed(client[c].selected, disk.lane.inbox)
Opened(c) == LaneState(client[c].op, disk.lane.last, Without(disk.lane.inbox, Ids(Chosen(c))))

Refuses(c) ==
  /\ ~down /\ Working(c, "admit")
  /\ client' = [client EXCEPT ![c] = [client[c] EXCEPT !.at = "undo"]]
  /\ UNCHANGED <<disk, mem, drive, sealed, down, entries, gone, forked>>

Commits(c) ==
  /\ ~down /\ Working(c, "admit") /\ Ids(Chosen(c)) \subseteq disk.pending
  /\ disk' = [disk EXCEPT !.lane = Opened(c), !.pending = disk.pending \ Ids(Chosen(c)),
                          !.log = (disk.log \o IdsOf(Chosen(c))) \o <<entries + 1>>,
                          !.ops = disk.ops \union {client[c].op},
                          !.metas = disk.metas \union {client[c].op}]
  /\ entries' = entries + 1
  /\ Forks(client[c].tip)
  /\ client' = [client EXCEPT ![c] = [at |-> "admitted", op |-> client[c].op, base |-> disk.lane,
                                      next |-> Opened(c), tip |-> entries + 1]]
  /\ UNCHANGED <<mem, drive, sealed, down, gone>>

IsRejected(c) ==
  /\ ~down /\ Working(c, "admitted") /\ (sealed \/ mem.op # client[c].op)
  /\ client' = [client EXCEPT ![c] = Idle]
  /\ UNCHANGED <<disk, mem, drive, sealed, down, entries, gone, forked>>

Opens(c) ==
  /\ ~down /\ Working(c, "admitted") /\ mem.op = client[c].op
  /\ mem' = [lane |-> Converged(client[c].base, client[c].next), op |-> client[c].op,
             tip |-> client[c].tip]
  /\ client' = [client EXCEPT ![c] = Idle]
  /\ UNCHANGED <<disk, drive, sealed, down, entries, gone, forked>>

AbortsNothing(c) ==
  /\ ~down /\ Working(c, "abort") /\ client' = [client EXCEPT ![c] = Idle]
  /\ UNCHANGED <<disk, mem, drive, sealed, down, entries, gone, forked>>

Aborts(c, ids) ==
  /\ ~down /\ Working(c, "abort") /\ ids \subseteq Ids(disk.lane.inbox)
  /\ LET next == LaneState(client[c].op, disk.lane.last, Without(disk.lane.inbox, ids)) IN
     /\ disk' = [disk EXCEPT !.lane = next, !.pending = disk.pending \ ids,
                             !.cancelled = disk.cancelled \union {client[c].op}]
     /\ client' = [client EXCEPT ![c] = Applies(next)]
  /\ gone' = gone \union ids
  /\ UNCHANGED <<mem, drive, sealed, down, entries, forked>>

Drained == Selected(mem.lane.inbox)
Emptied == LaneState(driven, mem.lane.last, Without(mem.lane.inbox, Ids(Drained)))

Drains ==
  /\ Driving /\ Drained # <<>> /\ Ids(Drained) \subseteq disk.pending
  /\ disk' = [disk EXCEPT !.lane = Emptied, !.pending = disk.pending \ Ids(Drained),
                          !.log = disk.log \o IdsOf(Drained)]
  /\ mem' = [mem EXCEPT !.lane = Emptied, !.tip = Last(IdsOf(Drained))]
  /\ Forks(mem.tip)
  /\ drive' \in {"driving", "ending"}
  /\ UNCHANGED <<client, sealed, down, entries, gone>>

Responds ==
  /\ Driving /\ entries' = entries + 1
  /\ disk' = [disk EXCEPT !.log = disk.log \o <<entries + 1>>]
  /\ mem' = [mem EXCEPT !.tip = entries + 1]
  /\ Forks(mem.tip)
  /\ drive' \in {"driving", "ending"}
  /\ UNCHANGED <<client, sealed, down, gone>>

Ended == LaneState(0, driven, mem.lane.inbox)
SettlesOperation ==
  /\ Driving
  /\ disk' = [disk EXCEPT !.lane = Ended, !.ops = disk.ops \ {driven}, !.metas = disk.metas \ {driven},
                          !.cancelled = disk.cancelled \ {driven}, !.results = disk.results \union {driven}]
  /\ mem' = [mem EXCEPT !.lane = Ended, !.op = 0]
  /\ drive' = "ending"
  /\ UNCHANGED <<client, sealed, down, entries, gone, forked>>

(* The state of the operation is stored by its drive. *)
Begins ==
  /\ Driving /\ disk' = [disk EXCEPT !.ops = disk.ops \union {driven}]
  /\ drive' \in {"driving", "ending"}
  /\ UNCHANGED <<mem, client, sealed, down, entries, gone, forked>>

(* A drive ends, with or without an error. *)
StopsDriving ==
  /\ ~down /\ drive # "none" /\ drive' \in {"none", "ending"}
  /\ UNCHANGED <<disk, mem, client, sealed, down, entries, gone, forked>>

Faults ==
  /\ ~down /\ ~sealed /\ sealed' = TRUE
  /\ \E late \in SUBSET {c \in Clients : Working(c, "idle")} :
       client' = [c \in Clients |-> IF c \in late THEN [at |-> "late"] ELSE client[c]]
  /\ UNCHANGED <<disk, mem, drive, down, entries, gone, forked>>

Waiting == UNCHANGED <<disk, mem, client, drive, sealed, down, entries, gone, forked>>

Steps ==
  \/ \E c \in Clients :
       \/ \E kind \in Kinds : Enqueues(c, kind)
       \/ \E id \in Entries : Cancels(c, id)
       \/ QueuesWrite(c) \/ AppendsEntry(c) \/ (\E op \in Ops : Accepts(c, op)) \/ RequestAbort(c)
       \/ Apply(c) \/ Refuses(c) \/ Commits(c) \/ IsRejected(c) \/ Opens(c) \/ UndoPendingAdmission(c)
       \/ AbortsNothing(c) \/ (\E ids \in SUBSET Ids(disk.lane.inbox) : Aborts(c, ids))
  \/ DriveStart \/ Begins \/ Drains \/ Responds \/ SettlesOperation \/ StopsDriving
  \/ Faults \/ Crash \/ Restore \/ Waiting

LEMMA NothingAppended == ASSUME TypeOK PROVE disk.log \o <<>> = disk.log
BY Parts, EmptySeq, LogGrows

LEMMA QueueKinds ==
  ASSUME TypeOK, NEW c \in Clients
  PROVE  /\ \A kind : Enqueue(c, kind) => Enqueues(c, kind)
         /\ \A id : CancelQueued(c, id) => Cancels(c, id)
<1> USE NothingAppended
<1>1. ASSUME NEW kind, Enqueue(c, kind) PROVE Enqueues(c, kind)
  BY <1>1 DEF Enqueue, Enqueues, Commit, Queued, Applies, faults
<1>2. ASSUME NEW id, CancelQueued(c, id) PROVE Cancels(c, id)
  BY <1>2 DEF CancelQueued, Cancels, Commit, Shortened, Applies, faults
<1>3. QED
  BY <1>1, <1>2

(* A parent that is not the tip is what forks the branch. *)
LEMMA FollowsForks == ASSUME NEW parent, Follows(parent) PROVE Forks(parent)
BY Zenon DEF Follows, Forks

LEMMA AppendKinds ==
  ASSUME TypeOK, NEW c \in Clients, AppendMessage(c)
  PROVE  QueuesWrite(c) \/ AppendsEntry(c)
<1>1. /\ Calls(c) /\ entries' = entries + 1 /\ client' = [client EXCEPT ![c] = Idle]
      /\ UNCHANGED <<drive, sealed, down, gone>>
  BY DEF AppendMessage, faults
<1>2. CASE mem.op # 0
  <2>1. /\ Commit(Written, disk.pending \union {entries + 1}, <<>>)
        /\ mem' = [mem EXCEPT !.lane = Written] /\ UNCHANGED forked
    BY ONLY <1>2, AppendMessage(c) DEF AppendMessage, Written
  <2>2. QED
    BY <1>1, <1>2, <2>1, NothingAppended DEF QueuesWrite, Commit
<1>3. CASE mem.op = 0
  <2>1. /\ Commit(disk.lane, disk.pending, <<entries + 1>>)
        /\ mem' = [mem EXCEPT !.tip = entries + 1] /\ Follows(mem.tip)
    BY ONLY <1>3, AppendMessage(c) DEF AppendMessage
  <2>2. disk' = [disk EXCEPT !.log = disk.log \o <<entries + 1>>]
    BY <2>1 DEF Commit, TypeOK, Disks
  <2>3. Forks(mem.tip)
    BY <2>1, FollowsForks
  <2>4. QED
    BY <1>1, <1>3, <2>1, <2>2, <2>3 DEF AppendsEntry
<1>4. QED
  BY <1>2, <1>3

LEMMA AcceptKinds ==
  ASSUME TypeOK, NEW c \in Clients, NEW op, Accept(c, op)
  PROVE  Accepts(c, op)
<1>1. client'[c].op = op
  BY DEF Accept, TypeOK
<1>2. QED
  BY <1>1 DEF Accept, Accepts, Reserved, Open, Up, faults, ghosts

LEMMA AdmitKinds ==
  ASSUME TypeOK, NEW c \in Clients, Admit(c)
  PROVE  Refuses(c) \/ Commits(c)
<1>1. ~down /\ Working(c, "admit") /\ UNCHANGED <<mem, drive, sealed, down, gone>>
  BY DEF Admit, Up, faults
<1>2. CASE OperationIdUsed(client[c].op) \/ Missing(Ids(Chosen(c)))
  <2>1. client' = [client EXCEPT ![c].at = "undo"] /\ UNCHANGED <<disk, entries, forked>>
    BY ONLY <1>2, Admit(c) DEF Admit, Chosen
  <2>2. QED
    BY <1>1, <2>1 DEF Refuses
<1>3. CASE ~(OperationIdUsed(client[c].op) \/ Missing(Ids(Chosen(c))))
  <2>1. /\ disk' = [disk EXCEPT !.lane = Opened(c), !.pending = @ \ Ids(Chosen(c)),
                                !.log = Append(@ \o IdsOf(Chosen(c)), entries + 1),
                                !.ops = @ \union {client[c].op}, !.metas = @ \union {client[c].op}]
        /\ entries' = entries + 1 /\ Follows(client[c].tip)
        /\ client' = [client EXCEPT ![c] = [at |-> "admitted", op |-> client[c].op, base |-> disk.lane,
                                            next |-> Opened(c), tip |-> entries + 1]]
    BY ONLY <1>3, Admit(c) DEF Admit, Chosen, Opened
  <2>2. Forks(client[c].tip) /\ Ids(Chosen(c)) \subseteq disk.pending
    BY <1>3, <2>1, FollowsForks DEF Missing
  <2>3. Append(disk.log \o IdsOf(Chosen(c)), entries + 1) = (disk.log \o IdsOf(Chosen(c))) \o <<entries + 1>>
    <3>1. Chosen(c) \in Boxes(entries)
      BY <1>1, Parts, ClientParts, Subboxes DEF Chosen, Working, TypeOK
    <3>2. disk.log \o IdsOf(Chosen(c)) \in Seq(1..entries)
      BY <3>1, Parts, BoxIds, LogGrows
    <3>3. disk.log \o IdsOf(Chosen(c)) \in Seq(Nat) /\ entries + 1 \in Nat
      BY <3>2, Parts
    <3>4. QED
      BY <3>3, AppendIsConcat
  <2>4. QED
    BY <1>1, <2>1, <2>2, <2>3 DEF Commits
<1>4. QED
  BY <1>2, <1>3

LEMMA AdmittedKinds ==
  ASSUME TypeOK, NEW c \in Clients, Admitted(c)
  PROVE  IsRejected(c) \/ Opens(c)
<1>1. /\ ~down /\ Working(c, "admitted") /\ client' = [client EXCEPT ![c] = Idle]
      /\ UNCHANGED <<disk, drive, sealed, down, entries, gone, forked>>
  BY DEF Admitted, Up, faults, ghosts
<1>2. CASE sealed \/ mem.op # client[c].op
  <2>1. mem' = mem
    BY <1>2 DEF Admitted
  <2>2. QED
    BY <1>1, <1>2, <2>1 DEF IsRejected
<1>3. CASE ~(sealed \/ mem.op # client[c].op)
  <2>1. mem' = [lane |-> Converged(client[c].base, client[c].next), op |-> client[c].op,
                tip |-> client[c].tip]
    BY <1>3 DEF Admitted
  <2>2. QED
    BY <1>1, <1>3, <2>1 DEF Opens
<1>4. QED
  BY <1>2, <1>3

LEMMA AbortKinds ==
  ASSUME TypeOK, NEW c \in Clients, CommitAbort(c)
  PROVE  AbortsNothing(c) \/ \E ids \in SUBSET Ids(disk.lane.inbox) : Aborts(c, ids)
<1> DEFINE ids == {i.id : i \in {j \in Range(disk.lane.inbox) : j.kind \in {"steer", "follow"}}}
           next == LaneState(client[c].op, disk.lane.last, Without(disk.lane.inbox, ids))
<1>1. ~down /\ Working(c, "abort") /\ UNCHANGED <<mem, drive, sealed, down, entries, forked>>
  BY DEF CommitAbort, Up, faults
<1>2. \/ client' = [client EXCEPT ![c] = Idle] /\ UNCHANGED <<disk, gone>>
      \/ /\ disk' = [disk EXCEPT !.lane = next, !.pending = disk.pending \ ids,
                                 !.cancelled = disk.cancelled \union {client[c].op}]
         /\ gone' = gone \union ids
         /\ client' = [client EXCEPT ![c] = [at |-> "apply", base |-> disk.lane, next |-> next]]
  BY DEF CommitAbort
<1>3. ids \in SUBSET Ids(disk.lane.inbox)
  BY DEF Ids, Range
<1> HIDE DEF ids
<1>4. QED
  BY <1>1, <1>2, <1>3 DEF AbortsNothing, Aborts, Applies

LEMMA DriveKinds ==
  ASSUME TypeOK, Driver
  PROVE  Begins \/ Drains \/ Responds \/ SettlesOperation \/ StopsDriving
<1>1. ASSUME DrainInbox PROVE Drains \/ StopsDriving
  <2>1. Driving /\ Drained # <<>> /\ UNCHANGED <<client, sealed, down, entries, gone>>
    BY <1>1 DEF DrainInbox, Drained, faults
  <2>2. CASE ~Missing(Ids(Drained))
    <3>1. /\ Commit(Emptied, disk.pending \ Ids(Drained), IdsOf(Drained)) /\ Follows(mem.tip)
          /\ mem' = [mem EXCEPT !.lane = Emptied, !.tip = Last(IdsOf(Drained))] /\ GoesOn
      BY ONLY <1>1, <2>2 DEF DrainInbox, Drained, Emptied
    <3>2. Forks(mem.tip) /\ Ids(Drained) \subseteq disk.pending /\ drive' \in {"driving", "ending"}
      BY <2>2, <3>1, FollowsForks DEF Missing, GoesOn
    <3>3. QED
      BY <2>1, <3>1, <3>2 DEF Drains, Commit
  <2>3. CASE Missing(Ids(Drained))
    <3>1. drive' = "ending" /\ UNCHANGED <<disk, mem, forked>>
      BY ONLY <1>1, <2>3 DEF DrainInbox, Drained
    <3>2. QED
      BY <2>1, <3>1 DEF StopsDriving, Driving, Up
  <2>4. QED
    BY <2>2, <2>3
<1>2. ASSUME Respond PROVE Responds
  <2>1. /\ Driving /\ UNCHANGED <<client, sealed, down, gone>> /\ entries' = entries + 1
        /\ Commit(disk.lane, disk.pending, <<entries + 1>>) /\ Follows(mem.tip)
        /\ mem' = [mem EXCEPT !.tip = entries + 1] /\ drive' \in {"driving", "ending"}
    BY <1>2 DEF Respond, GoesOn, faults
  <2>2. disk' = [disk EXCEPT !.log = disk.log \o <<entries + 1>>]
    BY <2>1 DEF Commit, TypeOK, Disks
  <2>3. Forks(mem.tip)
    BY <2>1, FollowsForks
  <2>4. QED
    BY <2>1, <2>2, <2>3 DEF Responds
<1>3. ASSUME Settle PROVE SettlesOperation
  <2>1. /\ Driving /\ UNCHANGED <<client, sealed, down, entries, gone, forked>> /\ drive' = "ending"
        /\ disk' = [disk EXCEPT !.lane = Ended, !.ops = disk.ops \ {driven},
                                !.metas = disk.metas \ {driven},
                                !.cancelled = disk.cancelled \ {driven},
                                !.results = disk.results \union {driven}]
        /\ mem' = [mem EXCEPT !.lane = Ended, !.op = 0]
    BY ONLY <1>3 DEF Settle, Ended, faults, ghosts
  <2>2. QED
    BY <2>1 DEF SettlesOperation
<1>4. ASSUME DriveReturn PROVE StopsDriving
  BY <1>4 DEF DriveReturn, StopsDriving, Up, faults, ghosts
<1>5. ASSUME Transition PROVE Begins \/ StopsDriving
  BY <1>5 DEF Transition, Begins, StopsDriving, Driving, GoesOn, Up, faults, ghosts
<1>6. QED
  BY <1>1, <1>2, <1>3, <1>4, <1>5 DEF Driver

LEMMA WaitKinds ==
  ASSUME NotifyIdle \/ WaitArm \/ Waiter \/ UNCHANGED vars
  PROVE  Waiting
BY DEF NotifyIdle, WaitArm, Waiter, WaitReadOperation, WaitReadDrive, WaitWake, Waits, Waiting, vars,
       locals, faults, ghosts

LEMMA StepKinds ==
  ASSUME TypeOK, [Next]_vars
  PROVE  Steps
<1>1. ASSUME NEW c \in Clients, Request(c) PROVE Steps
  BY <1>1, QueueKinds, AppendKinds, AcceptKinds, Zenon DEF Request, Steps
<1>2. ASSUME NEW c \in Clients, Finish(c) PROVE Steps
  BY <1>2, AdmitKinds, AdmittedKinds, AbortKinds, Zenon DEF Finish, Steps
<1>3. ASSUME Fault PROVE Faults
  BY <1>3 DEF Fault, Faults, Open, Up, ghosts
<1>4. QED
  BY <1>1, <1>2, <1>3, DriveKinds, WaitKinds, Zenon DEF Next, Steps

LEMMA KindsKnown == Kinds \subseteq ItemKinds /\ "write" \in ItemKinds
BY HarnessLaneAssumption DEF ItemKinds

(* The drive has the id of an operation, or none. *)
LEMMA DrivenStep ==
  ASSUME TypeOK, [Next]_vars
  PROVE  driven' \in Nat
<1>1. driven \in Nat /\ mem.op \in Nat
  BY Parts
<1>2. ASSUME NEW c \in Clients, Request(c) \/ Finish(c) PROVE driven' = driven
  BY <1>2 DEF Request, Finish, Enqueue, CancelQueued, AppendMessage, Accept, RequestAbort, Apply,
              Admit, Admitted, UndoPendingAdmission, CommitAbort
<1>3. CASE Driver \/ NotifyIdle
  BY <1>1, <1>3 DEF Driver, Transition, DrainInbox, Respond, Settle, DriveReturn, NotifyIdle
<1>4. CASE DriveStart \/ WaitArm \/ Waiter
  BY <1>1, <1>4 DEF DriveStart, WaitArm, Waiter, WaitReadOperation, WaitReadDrive, WaitWake, Waits
<1>5. CASE Fault \/ Crash \/ Restore \/ UNCHANGED vars
  BY <1>1, <1>5 DEF Fault, Crash, Restore, vars, locals
<1>6. QED
  BY <1>1, <1>2, <1>3, <1>4, <1>5, Zenon DEF Next

(* Once a drive has begun during an admission, that remains so. *)
LEMMA EarlyStays ==
  ASSUME [Next]_vars, ~early'
  PROVE  ~early
<1>1. ASSUME NEW c \in Clients, Request(c) \/ Finish(c) PROVE early' = early
  BY <1>1 DEF Request, Finish, Enqueue, CancelQueued, AppendMessage, Accept, RequestAbort, Apply,
              Admit, Admitted, UndoPendingAdmission, CommitAbort, ghosts
<1>2. CASE DriveStart
  BY <1>2, Zenon DEF DriveStart
<1>3. ASSUME Driver \/ NotifyIdle \/ WaitArm \/ Waiter PROVE early' = early
  BY <1>3 DEF Driver, Transition, DrainInbox, Respond, Settle, DriveReturn, NotifyIdle, WaitArm, Waiter,
              WaitReadOperation, WaitReadDrive, WaitWake, Waits, ghosts
<1>4. ASSUME Fault \/ Crash \/ Restore \/ UNCHANGED vars PROVE early' = early
  BY <1>4 DEF Fault, Crash, Restore, vars, ghosts
<1>5. QED
  BY <1>1, <1>2, <1>3, <1>4, Zenon DEF Next

(* Every step keeps the types. *)
LEMMA TypeStep ==
  ASSUME TypeOK, [Next]_vars
  PROVE  TypeOK'
<1>0. Steps
  BY StepKinds
<1>d. driven' \in Nat
  BY DrivenStep
<1> USE Parts, <1>d
<1>1. ASSUME NEW c \in Clients, NEW kind \in Kinds, Enqueues(c, kind) PROVE TypeOK'
  <2>1. Append(disk.lane.inbox, Item(entries + 1, kind)) \in Boxes(entries + 1)
    BY KindsKnown, BoxAppend
  <2>2. Queued(kind) \in Lanes(entries + 1)
    <3>1. disk.lane \in Lanes(entries + 1) /\ entries + 1 \in Nat
      BY MoreIds
    <3>2. QED
      BY <2>1, <3>1, LaneMakes DEF Queued
  <2>3. disk' \in Disks(entries + 1)
    BY <1>1, <2>2, MoreIds DEF Enqueues, TypeOK, Disks
  <2>4. Applies(Queued(kind)) \in ClientStates(entries + 1)
    BY <2>2, MoreIds, ClientMakes, SMTT(40) DEF Applies
  <2>5. client' \in [Clients -> ClientStates(entries + 1)]
    BY <1>1, <2>4, MoreIds DEF Enqueues, TypeOK
  <2>6. mem' \in Memories(entries + 1) /\ drive' = drive /\ gone' = gone /\ entries' = entries + 1
    BY <1>1, MoreIds DEF Enqueues, TypeOK
  <2>7. QED
    BY <2>3, <2>5, <2>6 DEF TypeOK
<1>2. ASSUME NEW c \in Clients, NEW id \in Entries, Cancels(c, id) PROVE TypeOK'
  <2>1. Shortened({id}) \in Lanes(entries)
    BY Subboxes, LaneMakes DEF Shortened
  <2>2. disk' \in Disks(entries)
    BY <1>2, <2>1 DEF Cancels, TypeOK, Disks
  <2>3. Applies(Shortened({id})) \in ClientStates(entries)
    BY <2>1, ClientMakes DEF Applies
  <2>4. id \in 1..entries
    BY <1>2, BoxIds DEF Cancels
  <2>5. QED
    BY <1>2, <2>2, <2>3, <2>4 DEF Cancels, TypeOK
<1>3. ASSUME NEW c \in Clients, QueuesWrite(c) PROVE TypeOK'
  <2>1. Append(mem.lane.inbox, Item(entries + 1, "write")) \in Boxes(entries + 1)
    BY KindsKnown, BoxAppend
  <2>2. Written \in Lanes(entries + 1)
    <3>1. mem.lane \in Lanes(entries + 1) /\ entries + 1 \in Nat
      BY MoreIds
    <3>2. QED
      BY <2>1, <3>1, LaneMakes DEF Written
  <2>3. disk' \in Disks(entries + 1)
    BY <1>3, <2>2, MoreIds DEF QueuesWrite, TypeOK, Disks
  <2>4. mem' \in Memories(entries + 1)
    BY <1>3, <2>2, MoreIds DEF QueuesWrite, TypeOK, Memories
  <2>5. client' \in [Clients -> ClientStates(entries + 1)]
    BY <1>3, ClientMakes, MoreIds DEF QueuesWrite, TypeOK
  <2>6. drive' = drive /\ gone' = gone /\ entries' = entries + 1
    BY <1>3 DEF QueuesWrite
  <2>7. QED
    BY <2>3, <2>4, <2>5, <2>6 DEF TypeOK
<1>4. ASSUME NEW c \in Clients, AppendsEntry(c) PROVE TypeOK'
  <2>1. <<entries + 1>> \in Seq(1..(entries + 1)) /\ disk \in Disks(entries + 1)
    BY SingleEntry, MoreIds DEF TypeOK
  <2>2. disk.log \o <<entries + 1>> \in Seq(1..(entries + 1))
    BY <2>1, LogGrows DEF Disks
  <2>3. disk' \in Disks(entries + 1)
    BY <1>4, <2>1, <2>2 DEF AppendsEntry, Disks
  <2>4. mem' \in Memories(entries + 1)
    <3>1. mem \in Memories(entries + 1) /\ entries + 1 \in Nat
      BY MoreIds DEF TypeOK
    <3>2. QED
      BY <1>4, <3>1 DEF AppendsEntry, Memories
  <2>5. client' \in [Clients -> ClientStates(entries + 1)]
    BY <1>4, ClientMakes, MoreIds DEF AppendsEntry, TypeOK
  <2>6. drive' \in {"none", "driving", "ending"} /\ gone' = gone /\ entries' = entries + 1
    BY <1>4 DEF AppendsEntry, TypeOK
  <2>7. QED
    BY <2>3, <2>4, <2>5, <2>6 DEF TypeOK
<1>5. ASSUME NEW c \in Clients, NEW op \in Ops, Accepts(c, op) PROVE TypeOK'
  <2>1. op \in Nat \ {0}
    BY HarnessLaneAssumption DEF Ops
  <2>2. [at |-> "admit", op |-> op, tip |-> mem.tip, selected |-> Selected(mem.lane.inbox)]
          \in ClientStates(entries)
    BY <2>1, Subboxes, ClientMakes
  <2>3. mem' \in Memories(entries)
    BY <1>5, <2>1 DEF Accepts, TypeOK, Memories
  <2>4. QED
    BY <1>5, <2>2, <2>3 DEF Accepts, TypeOK
<1>6. ASSUME NEW c \in Clients, RequestAbort(c) PROVE TypeOK'
  BY <1>6, ClientMakes DEF RequestAbort, TypeOK, faults, ghosts
<1>7. ASSUME NEW c \in Clients, Apply(c) PROVE TypeOK'
  <2>1. client[c].next \in Lanes(entries)
    BY <1>7, ClientParts DEF Apply, Working, TypeOK
  <2>2. Converged(client[c].base, client[c].next) \in Lanes(entries)
    BY <2>1 DEF Converged
  <2>3. mem' \in Memories(entries)
    BY <1>7, <2>2 DEF Apply, TypeOK, Memories
  <2>4. QED
    BY <1>7, <2>3, ClientMakes DEF Apply, TypeOK, ghosts
<1>8. ASSUME NEW c \in Clients, Refuses(c) PROVE TypeOK'
  <2>1. [client[c] EXCEPT !.at = "undo"] \in ClientStates(entries)
    BY <1>8, ClientParts DEF Refuses, Working, TypeOK
  <2>2. QED
    BY <1>8, <2>1 DEF Refuses, TypeOK
<1>9. ASSUME NEW c \in Clients, Commits(c) PROVE TypeOK'
  <2>1. client[c].op \in Nat \ {0} /\ client[c].selected \in Boxes(entries)
    BY <1>9, ClientParts DEF Commits, Working, TypeOK
  <2>2. Chosen(c) \in Boxes(entries)
    BY <2>1, Subboxes DEF Chosen
  <2>3. Opened(c) \in Lanes(entries + 1) /\ disk.lane \in Lanes(entries + 1)
    BY <2>1, Subboxes, LaneMakes, MoreIds DEF Opened
  <2>4. disk.log \o IdsOf(Chosen(c)) \in Seq(1..(entries + 1)) /\ disk \in Disks(entries + 1)
    BY <2>2, BoxIds, LogGrows, MoreIds, SeqMonotonic DEF TypeOK
  <2>5. (disk.log \o IdsOf(Chosen(c))) \o <<entries + 1>> \in Seq(1..(entries + 1))
    BY <2>4, SingleEntry, LogGrows
  <2>6. disk' \in Disks(entries + 1)
    BY <1>9, <2>1, <2>3, <2>4, <2>5 DEF Commits, Disks
  <2>7. [at |-> "admitted", op |-> client[c].op, base |-> disk.lane, next |-> Opened(c),
         tip |-> entries + 1] \in ClientStates(entries + 1)
    BY <2>1, <2>3, ClientMakes
  <2>8. client' \in [Clients -> ClientStates(entries + 1)]
    BY <1>9, <2>7, MoreIds DEF Commits, TypeOK
  <2>9. mem' \in Memories(entries + 1) /\ drive' = drive /\ gone' = gone /\ entries' = entries + 1
    BY <1>9, MoreIds DEF Commits, TypeOK
  <2>10. QED
    BY <2>6, <2>8, <2>9 DEF TypeOK
<1>10. ASSUME NEW c \in Clients, IsRejected(c) PROVE TypeOK'
  BY <1>10, ClientMakes DEF IsRejected, TypeOK
<1>11. ASSUME NEW c \in Clients, Opens(c) PROVE TypeOK'
  <2>1. client[c].next \in Lanes(entries) /\ client[c].op \in Nat /\ client[c].tip \in Nat
    BY <1>11, ClientParts DEF Opens, Working, TypeOK
  <2>2. Converged(client[c].base, client[c].next) \in Lanes(entries)
    BY <2>1 DEF Converged
  <2>3. mem' \in Memories(entries)
    BY <1>11, <2>1, <2>2 DEF Opens, Memories
  <2>4. QED
    BY <1>11, <2>3, ClientMakes DEF Opens, TypeOK
<1>12. ASSUME NEW c \in Clients, UndoPendingAdmission(c) PROVE TypeOK'
  <2>1. mem' \in Memories(entries)
    BY <1>12 DEF UndoPendingAdmission, TypeOK, Memories
  <2>2. QED
    BY <1>12, <2>1, ClientMakes DEF UndoPendingAdmission, TypeOK
<1>13. ASSUME NEW c \in Clients, AbortsNothing(c) PROVE TypeOK'
  BY <1>13, ClientMakes DEF AbortsNothing, TypeOK
<1>14. ASSUME NEW c \in Clients, NEW ids \in SUBSET Ids(disk.lane.inbox), Aborts(c, ids) PROVE TypeOK'
  <2> DEFINE next == LaneState(client[c].op, disk.lane.last, Without(disk.lane.inbox, ids))
  <2>1. client[c].op \in Nat
    BY <1>14, ClientParts DEF Aborts, Working, TypeOK
  <2>2. next \in Lanes(entries)
    BY <2>1, Subboxes, LaneMakes
  <2> HIDE DEF next
  <2>3. disk' \in Disks(entries)
    BY <1>14, <2>1, <2>2 DEF Aborts, TypeOK, Disks, next
  <2>4. Applies(next) \in ClientStates(entries)
    BY <2>2, ClientMakes DEF Applies
  <2>5. ids \subseteq 1..entries
    BY BoxIds
  <2>6. QED
    BY <1>14, <2>3, <2>4, <2>5 DEF Aborts, TypeOK, next
<1>15. CASE DriveStart
  BY <1>15 DEF DriveStart, TypeOK, ghosts
<1>16. CASE Drains
  <2>1. Drained \in Boxes(entries) /\ Emptied \in Lanes(entries)
    BY Subboxes, LaneMakes DEF Drained, Emptied
  <2>2. IdsOf(Drained) \in Seq(1..entries) /\ IdsOf(Drained) # <<>>
    BY <1>16, <2>1, BoxIds DEF Drains
  <2>3. disk.log \o IdsOf(Drained) \in Seq(1..entries) /\ Last(IdsOf(Drained)) \in Nat
    BY <2>2, LogGrows DEF Last
  <2>4. disk' \in Disks(entries)
    BY <1>16, <2>1, <2>3 DEF Drains, TypeOK, Disks
  <2>5. mem' \in Memories(entries)
    BY <1>16, <2>1, <2>3 DEF Drains, TypeOK, Memories
  <2>6. QED
    BY <1>16, <2>4, <2>5 DEF Drains, TypeOK
<1>17. CASE Responds
  <2>1. <<entries + 1>> \in Seq(1..(entries + 1)) /\ disk \in Disks(entries + 1)
    BY SingleEntry, MoreIds DEF TypeOK
  <2>2. disk.log \o <<entries + 1>> \in Seq(1..(entries + 1))
    BY <2>1, LogGrows DEF Disks
  <2>3. disk' \in Disks(entries + 1)
    BY <1>17, <2>1, <2>2 DEF Responds, Disks
  <2>4. mem' \in Memories(entries + 1)
    <3>1. mem \in Memories(entries + 1) /\ entries + 1 \in Nat
      BY MoreIds DEF TypeOK
    <3>2. QED
      BY <1>17, <3>1 DEF Responds, Memories
  <2>5. client' \in [Clients -> ClientStates(entries + 1)]
    BY <1>17, ClientMakes, MoreIds DEF Responds, TypeOK
  <2>6. drive' \in {"none", "driving", "ending"} /\ gone' = gone /\ entries' = entries + 1
    BY <1>17 DEF Responds, TypeOK
  <2>7. QED
    BY <2>3, <2>4, <2>5, <2>6 DEF TypeOK
<1>18. CASE SettlesOperation
  <2>1. Ended \in Lanes(entries)
    BY LaneMakes DEF Ended
  <2>2. disk' \in Disks(entries)
    BY <1>18, <2>1 DEF SettlesOperation, TypeOK, Disks
  <2>3. mem' \in Memories(entries)
    BY <1>18, <2>1 DEF SettlesOperation, TypeOK, Memories
  <2>4. QED
    BY <1>18, <2>2, <2>3 DEF SettlesOperation, TypeOK
<1>19. CASE StopsDriving
  BY <1>19 DEF StopsDriving, TypeOK
<1>20. CASE Faults
  BY <1>20, ClientMakes DEF Faults, TypeOK
<1>21. CASE Crash
  BY <1>21, ClientMakes DEF Crash, TypeOK, ghosts
<1>22. CASE Restore
  <2>1. Tip(disk.log) \in Nat
    BY DEF Tip, Last
  <2>2. mem' \in Memories(entries)
    BY <1>22, <2>1 DEF Restore, Memories
  <2>3. QED
    BY <1>22, <2>2 DEF Restore, TypeOK, locals, ghosts
<1>23. CASE Waiting
  BY <1>23 DEF Waiting, TypeOK
<1>24. CASE Begins
  <2>1. disk' \in Disks(entries)
    BY <1>24 DEF Begins, TypeOK, Disks
  <2>2. QED
    BY <1>24, <2>1 DEF Begins, TypeOK
<1>25. QED
  BY <1>0, <1>1, <1>2, <1>3, <1>4, <1>5, <1>6, <1>7, <1>8, <1>9, <1>10, <1>11, <1>12, <1>13, <1>14,
     <1>15, <1>16, <1>17, <1>18, <1>19, <1>20, <1>21, <1>22, <1>23, <1>24, Zenon DEF Steps

LEMMA InitTypes == Init => TypeOK
<1> SUFFICES ASSUME Init PROVE TypeOK
  OBVIOUS
<1>1. <<>> \in Boxes(0) /\ <<>> \in Seq(1..0)
  BY EmptySeq DEF Boxes, Distinct
<1>2. disk.lane \in Lanes(0)
  BY <1>1, LaneMakes DEF Init
<1>3. disk \in Disks(0)
  BY <1>1, <1>2 DEF Init, Disks
<1>4. mem \in Memories(0)
  BY <1>2 DEF Init, Memories
<1>5. QED
  BY <1>3, <1>4, ClientMakes DEF Init, TypeOK

-----------------------------------------------------------------------------
(* Reservations and tips. *)

InAdmission(c) == client[c].at \in {"admit", "admitted", "undo"}

(* An admission in progress owns the lane: it is the only one, its reservation stands and     *)
(* nothing is driven.                                                                         *)
ReserveInv ==
  /\ down => drive = "none" /\ \A c \in Clients : client[c].at = "idle"
  /\ drive = "driving" => mem.op # 0
  /\ \A c \in Clients : InAdmission(c) => mem.op = client[c].op /\ drive # "driving"
  /\ \A c, d \in Clients : InAdmission(c) /\ InAdmission(d) => c = d

(* The copy of the tip is stale only after an admission has committed, until it is published; *)
(* in a lane that was sealed before that nobody commits below the copy any more.              *)
TipInv ==
  /\ ~down => \/ mem.tip = Tip(disk.log)
              \/ sealed /\ mem.op # 0 /\ drive # "driving" /\ \A c \in Clients : ~InAdmission(c)
              \/ \E c \in Clients : client[c].at = "admitted"
  /\ \A c \in Clients :
       /\ client[c].at = "admit" => client[c].tip = mem.tip
       /\ client[c].at = "admitted" => client[c].tip = Tip(disk.log)
  /\ ~forked

(* A waiter that sleeps without a wake-up has somebody to wake it; no call outlives a crash. *)
IdleInv ==
  /\ down => waiter = "out"
  /\ NoLostIdle

(* New entries on the branch leave it without repetition. *)
LEMMA BranchGrows ==
  ASSUME NEW n \in Nat, NEW log \in Seq(1..n), NEW more \in Seq(1..n),
         IsInjective(log), IsInjective(more), Range(log) \intersect Range(more) = {}
  PROVE  /\ log \o more \in Seq(1..n) /\ Range(log \o more) = Range(log) \union Range(more)
         /\ IsInjective(log \o more)
BY LogGrows

LEMMA EntryAdded ==
  ASSUME NEW n \in Nat, NEW log \in Seq(1..n), NEW e \in 1..n, IsInjective(log), e \notin Range(log)
  PROVE  Range(log \o <<e>>) = Range(log) \union {e} /\ IsInjective(log \o <<e>>)
<1>1. <<e>> \in Seq(1..n) /\ Range(<<e>>) = {e} /\ IsInjective(<<e>>)
  BY SingleEntry
<1> DEFINE more == <<e>>
<1> HIDE DEF more
<1>2. more \in Seq(1..n) /\ IsInjective(more) /\ Range(more) = {e} /\ Range(log) \intersect Range(more) = {}
  BY <1>1 DEF more
<1>3. Range(log \o more) = Range(log) \union {e} /\ IsInjective(log \o more)
  BY <1>2, BranchGrows
<1>4. QED
  BY <1>3 DEF more

(* Every step keeps each payload in one place. *)
LEMMA OnceStep ==
  ASSUME TypeOK, ExactlyOnce, [Next]_vars
  PROVE  ExactlyOnce'
<1>0. Steps
  BY StepKinds
<1> USE Parts
<1>1. ASSUME NEW c \in Clients, NEW kind \in Kinds, Enqueues(c, kind) PROVE ExactlyOnce'
  <2>1. /\ disk'.pending = disk.pending \union {entries + 1} /\ disk'.log = disk.log
        /\ entries' = entries + 1 /\ gone' = gone
    BY <1>1 DEF Enqueues, TypeOK, Disks
  <2>2. Range(disk.log) \subseteq 1..entries
    BY DEF Range
  <2>3. 1..(entries + 1) = 1..entries \union {entries + 1} /\ entries + 1 \notin 1..entries
    OBVIOUS
  <2>4. gone \subseteq 1..entries
    BY DEF TypeOK
  <2>5. QED
    BY <2>1, <2>2, <2>3, <2>4 DEF ExactlyOnce, OnBranch
<1>2. ASSUME NEW c \in Clients, NEW id \in Entries, Cancels(c, id) PROVE ExactlyOnce'
  <2>1. /\ disk'.pending = disk.pending \ {id} /\ disk'.log = disk.log
        /\ entries' = entries /\ gone' = gone \union {id}
    BY <1>2 DEF Cancels, TypeOK, Disks
  <2>2. QED
    BY <2>1 DEF ExactlyOnce, OnBranch
<1>3. ASSUME NEW c \in Clients, QueuesWrite(c) PROVE ExactlyOnce'
  <2>1. /\ disk'.pending = disk.pending \union {entries + 1} /\ disk'.log = disk.log
        /\ entries' = entries + 1 /\ gone' = gone
    BY <1>3 DEF QueuesWrite, TypeOK, Disks
  <2>2. Range(disk.log) \subseteq 1..entries
    BY DEF Range
  <2>3. 1..(entries + 1) = 1..entries \union {entries + 1} /\ entries + 1 \notin 1..entries
    OBVIOUS
  <2>4. gone \subseteq 1..entries
    BY DEF TypeOK
  <2>5. QED
    BY <2>1, <2>2, <2>3, <2>4 DEF ExactlyOnce, OnBranch
<1>4. ASSUME NEW c \in Clients, AppendsEntry(c) PROVE ExactlyOnce'
  <2>1. /\ disk'.pending = disk.pending /\ disk'.log = disk.log \o <<entries + 1>>
        /\ entries' = entries + 1 /\ gone' = gone
    BY <1>4 DEF AppendsEntry, TypeOK, Disks
  <2>2. Range(disk.log) \subseteq 1..entries /\ gone \subseteq 1..entries
    BY DEF Range, TypeOK
  <2>3. 1..(entries + 1) = 1..entries \union {entries + 1} /\ entries + 1 \notin 1..entries
    OBVIOUS
  <2>4. disk.log \in Seq(1..(entries + 1)) /\ entries + 1 \in Nat /\ entries + 1 \in 1..(entries + 1)
    BY <2>3, SeqMonotonic
  <2>5. Range(disk'.log) = Range(disk.log) \union {entries + 1} /\ IsInjective(disk'.log)
    <3>1. IsInjective(disk.log) /\ entries + 1 \notin Range(disk.log)
      BY <2>2, <2>3 DEF ExactlyOnce
    <3>2. QED
      BY ONLY <2>1, <2>4, <3>1, EntryAdded
  <2>6. QED
    BY <2>1, <2>2, <2>3, <2>5 DEF ExactlyOnce, OnBranch
<1>5. ASSUME NEW c \in Clients, NEW op \in Ops, Accepts(c, op) PROVE ExactlyOnce'
  BY <1>5 DEF Accepts, ExactlyOnce, OnBranch
<1>6. ASSUME NEW c \in Clients, RequestAbort(c) PROVE ExactlyOnce'
  BY <1>6 DEF RequestAbort, ExactlyOnce, OnBranch, faults, ghosts
<1>7. ASSUME NEW c \in Clients, Apply(c) PROVE ExactlyOnce'
  BY <1>7 DEF Apply, ExactlyOnce, OnBranch, ghosts
<1>8. ASSUME NEW c \in Clients, Refuses(c) PROVE ExactlyOnce'
  BY <1>8 DEF Refuses, ExactlyOnce, OnBranch
<1>9. ASSUME NEW c \in Clients, Commits(c) PROVE ExactlyOnce'
  <2>1. /\ disk'.pending = disk.pending \ Ids(Chosen(c)) /\ disk'.log = (disk.log \o IdsOf(Chosen(c))) \o <<entries + 1>>
        /\ entries' = entries + 1 /\ gone' = gone
    BY <1>9 DEF Commits, TypeOK, Disks
  <2>2. Chosen(c) \in Boxes(entries)
    BY <1>9, ClientParts, Subboxes DEF Commits, Working, TypeOK, Chosen
  <2>3. /\ IdsOf(Chosen(c)) \in Seq(1..entries) /\ Range(IdsOf(Chosen(c))) = Ids(Chosen(c))
        /\ IsInjective(IdsOf(Chosen(c)))
    BY <2>2, BoxIds
  <2>4. Ids(Chosen(c)) \subseteq disk.pending
    BY <1>9 DEF Commits
  <2>5. Range(disk.log) \intersect Range(IdsOf(Chosen(c))) = {}
    BY <2>3, <2>4 DEF ExactlyOnce, OnBranch
  <2> DEFINE log == disk.log \o IdsOf(Chosen(c))
  <2>6. log \in Seq(1..entries) /\ Range(log) = Range(disk.log) \union Ids(Chosen(c)) /\ IsInjective(log)
    <3>1. IsInjective(disk.log) /\ disk.log \in Seq(1..entries) /\ entries \in Nat
      BY DEF ExactlyOnce
    <3>2. QED
      BY ONLY <2>3, <2>5, <3>1, BranchGrows DEF log
  <2> HIDE DEF log
  <2>7. /\ Range(log) \subseteq 1..entries /\ gone \subseteq 1..entries
    BY <2>6 DEF Range, TypeOK
  <2>8. 1..(entries + 1) = 1..entries \union {entries + 1} /\ entries + 1 \notin 1..entries
    OBVIOUS
  <2>9. log \in Seq(1..(entries + 1)) /\ entries + 1 \in Nat /\ entries + 1 \in 1..(entries + 1)
    BY <2>6, <2>8, SeqMonotonic
  <2>10. Range(disk'.log) = Range(log) \union {entries + 1} /\ IsInjective(disk'.log)
    <3>1. disk'.log = log \o <<entries + 1>> /\ entries + 1 \notin Range(log)
      BY <2>1, <2>7, <2>8 DEF log
    <3>2. QED
      BY ONLY <2>6, <2>9, <3>1, EntryAdded
  <2>11. QED
    BY <2>1, <2>4, <2>6, <2>7, <2>8, <2>10 DEF ExactlyOnce, OnBranch
<1>10. ASSUME NEW c \in Clients, IsRejected(c) PROVE ExactlyOnce'
  BY <1>10 DEF IsRejected, ExactlyOnce, OnBranch
<1>11. ASSUME NEW c \in Clients, Opens(c) PROVE ExactlyOnce'
  BY <1>11 DEF Opens, ExactlyOnce, OnBranch
<1>12. ASSUME NEW c \in Clients, UndoPendingAdmission(c) PROVE ExactlyOnce'
  BY <1>12 DEF UndoPendingAdmission, ExactlyOnce, OnBranch
<1>13. ASSUME NEW c \in Clients, AbortsNothing(c) PROVE ExactlyOnce'
  BY <1>13 DEF AbortsNothing, ExactlyOnce, OnBranch
<1>14. ASSUME NEW c \in Clients, NEW ids \in SUBSET Ids(disk.lane.inbox), Aborts(c, ids) PROVE ExactlyOnce'
  <2>1. /\ disk'.pending = disk.pending \ ids /\ disk'.log = disk.log
        /\ entries' = entries /\ gone' = gone \union ids
    BY <1>14 DEF Aborts, TypeOK, Disks
  <2>2. QED
    BY <2>1 DEF ExactlyOnce, OnBranch
<1>15. CASE DriveStart
  BY <1>15 DEF DriveStart, ExactlyOnce, OnBranch, ghosts
<1>16. CASE Drains
  <2>1. /\ disk'.pending = disk.pending \ Ids(Drained) /\ disk'.log = disk.log \o IdsOf(Drained)
        /\ entries' = entries /\ gone' = gone
    BY <1>16 DEF Drains, TypeOK, Disks
  <2>2. Drained \in Boxes(entries)
    BY Subboxes DEF Drained
  <2>3. /\ IdsOf(Drained) \in Seq(1..entries) /\ Range(IdsOf(Drained)) = Ids(Drained)
        /\ IsInjective(IdsOf(Drained))
    BY <2>2, BoxIds
  <2>4. Ids(Drained) \subseteq disk.pending
    BY <1>16 DEF Drains
  <2>5. Range(disk.log) \intersect Range(IdsOf(Drained)) = {}
    BY <2>3, <2>4 DEF ExactlyOnce, OnBranch
  <2>6. Range(disk'.log) = Range(disk.log) \union Ids(Drained) /\ IsInjective(disk'.log)
    <3>1. IsInjective(disk.log) /\ disk.log \in Seq(1..entries) /\ entries \in Nat
      BY DEF ExactlyOnce
    <3>2. QED
      BY ONLY <2>1, <2>3, <2>5, <3>1, BranchGrows
  <2>7. QED
    BY <2>1, <2>4, <2>6 DEF ExactlyOnce, OnBranch
<1>17. CASE Responds
  <2>1. /\ disk'.pending = disk.pending /\ disk'.log = disk.log \o <<entries + 1>>
        /\ entries' = entries + 1 /\ gone' = gone
    BY <1>17 DEF Responds, TypeOK, Disks
  <2>2. Range(disk.log) \subseteq 1..entries /\ gone \subseteq 1..entries
    BY DEF Range, TypeOK
  <2>3. 1..(entries + 1) = 1..entries \union {entries + 1} /\ entries + 1 \notin 1..entries
    OBVIOUS
  <2>4. disk.log \in Seq(1..(entries + 1)) /\ entries + 1 \in Nat /\ entries + 1 \in 1..(entries + 1)
    BY <2>3, SeqMonotonic
  <2>5. Range(disk'.log) = Range(disk.log) \union {entries + 1} /\ IsInjective(disk'.log)
    <3>1. IsInjective(disk.log) /\ entries + 1 \notin Range(disk.log)
      BY <2>2, <2>3 DEF ExactlyOnce
    <3>2. QED
      BY ONLY <2>1, <2>4, <3>1, EntryAdded
  <2>6. QED
    BY <2>1, <2>2, <2>3, <2>5 DEF ExactlyOnce, OnBranch
<1>18. CASE SettlesOperation
  <2>1. /\ disk'.pending = disk.pending /\ disk'.log = disk.log
        /\ entries' = entries /\ gone' = gone
    BY <1>18 DEF SettlesOperation, TypeOK, Disks
  <2>2. QED
    BY <2>1 DEF ExactlyOnce, OnBranch
<1>19. CASE StopsDriving
  BY <1>19 DEF StopsDriving, ExactlyOnce, OnBranch
<1>20. CASE Faults
  BY <1>20 DEF Faults, ExactlyOnce, OnBranch
<1>21. CASE Crash
  BY <1>21 DEF Crash, ExactlyOnce, OnBranch, ghosts
<1>22. CASE Restore
  BY <1>22 DEF Restore, ExactlyOnce, OnBranch, ghosts
<1>23. CASE Waiting
  BY <1>23 DEF Waiting, ExactlyOnce, OnBranch
<1>24. CASE Begins
  <2>1. disk'.pending = disk.pending /\ disk'.log = disk.log /\ entries' = entries /\ gone' = gone
    BY <1>24 DEF Begins, TypeOK, Disks
  <2>2. QED
    BY <2>1 DEF ExactlyOnce, OnBranch
<1>25. QED
  BY <1>0, <1>1, <1>2, <1>3, <1>4, <1>5, <1>6, <1>7, <1>8, <1>9, <1>10, <1>11, <1>12, <1>13, <1>14,
     <1>15, <1>16, <1>17, <1>18, <1>19, <1>20, <1>21, <1>22, <1>23, <1>24, Zenon DEF Steps

(* Every step leaves the lane to the admission that reserved it. *)
LEMMA ReserveStep ==
  ASSUME TypeOK, ReserveInv, ~early', [Next]_vars
  PROVE  ReserveInv'
<1>0. Steps
  BY StepKinds
<1> USE Parts
<1>1. ASSUME NEW c \in Clients, NEW kind \in Kinds, Enqueues(c, kind) PROVE ReserveInv'
  <2>1. client'[c].at = "apply" /\ \A d \in Clients : d # c => client'[d] = client[d]
    BY <1>1 DEF Enqueues, TypeOK, Applies
  <2>2. QED
    BY <1>1, <2>1 DEF Enqueues, ReserveInv, InAdmission, Calls, Working, Up
<1>2. ASSUME NEW c \in Clients, NEW id \in Entries, Cancels(c, id) PROVE ReserveInv'
  <2>1. client'[c].at = "apply" /\ \A d \in Clients : d # c => client'[d] = client[d]
    BY <1>2 DEF Cancels, TypeOK, Applies
  <2>2. QED
    BY <1>2, <2>1 DEF Cancels, ReserveInv, InAdmission, Calls, Working, Up
<1>3. ASSUME NEW c \in Clients, QueuesWrite(c) PROVE ReserveInv'
  <2>1. mem'.op = mem.op /\ client'[c].at = "idle" /\ \A d \in Clients : d # c => client'[d] = client[d]
    BY <1>3 DEF QueuesWrite, TypeOK, Idle, Memories
  <2>2. QED
    BY <1>3, <2>1 DEF QueuesWrite, ReserveInv, InAdmission, Calls, Working, Up
<1>4. ASSUME NEW c \in Clients, AppendsEntry(c) PROVE ReserveInv'
  <2>1. mem'.op = mem.op /\ client'[c].at = "idle" /\ \A d \in Clients : d # c => client'[d] = client[d]
    BY <1>4 DEF AppendsEntry, TypeOK, Idle, Memories
  <2>2. QED
    BY <1>4, <2>1 DEF AppendsEntry, ReserveInv, InAdmission, Calls, Working, Up
<1>5. ASSUME NEW c \in Clients, NEW op \in Ops, Accepts(c, op) PROVE ReserveInv'
  <2>1. op \in Nat \ {0}
    BY HarnessLaneAssumption DEF Ops
  <2>2. \A d \in Clients : ~InAdmission(d)
    BY <1>5, ClientParts DEF Accepts, ReserveInv, InAdmission, TypeOK
  <2>3. mem'.op = op /\ client'[c].op = op /\ \A d \in Clients : d # c => client'[d] = client[d]
    BY <1>5 DEF Accepts, TypeOK, Memories
  <2>4. QED
    BY <1>5, <2>1, <2>2, <2>3 DEF Accepts, ReserveInv, InAdmission
<1>6. ASSUME NEW c \in Clients, RequestAbort(c) PROVE ReserveInv'
  <2>1. client'[c].at = "abort" /\ \A d \in Clients : d # c => client'[d] = client[d]
    BY <1>6 DEF RequestAbort, TypeOK, faults, ghosts
  <2>2. QED
    BY <1>6, <2>1 DEF RequestAbort, ReserveInv, InAdmission, Calls, Working, Up, faults, ghosts
<1>7. ASSUME NEW c \in Clients, Apply(c) PROVE ReserveInv'
  <2>1. mem'.op = mem.op /\ client'[c].at = "idle" /\ \A d \in Clients : d # c => client'[d] = client[d]
    BY <1>7 DEF Apply, TypeOK, Idle, Memories, faults
  <2>2. QED
    BY <1>7, <2>1 DEF Apply, ReserveInv, InAdmission, Calls, Working, Up, faults
<1>8. ASSUME NEW c \in Clients, Refuses(c) PROVE ReserveInv'
  <2>1. client'[c].at = "undo" /\ client'[c].op = client[c].op /\ \A d \in Clients : d # c => client'[d] = client[d]
    BY <1>8, ClientParts DEF Refuses, TypeOK, Working
  <2>2. QED
    BY <1>8, <2>1 DEF Refuses, ReserveInv, InAdmission, Calls, Working, Up
<1>9. ASSUME NEW c \in Clients, Commits(c) PROVE ReserveInv'
  <2>1. client'[c].at = "admitted" /\ client'[c].op = client[c].op /\ \A d \in Clients : d # c => client'[d] = client[d]
    BY <1>9 DEF Commits, TypeOK
  <2>2. QED
    BY <1>9, <2>1 DEF Commits, ReserveInv, InAdmission, Calls, Working, Up
<1>10. ASSUME NEW c \in Clients, IsRejected(c) PROVE ReserveInv'
  <2>1. client'[c].at = "idle" /\ \A d \in Clients : d # c => client'[d] = client[d]
    BY <1>10 DEF IsRejected, TypeOK, Idle
  <2>2. QED
    BY <1>10, <2>1 DEF IsRejected, ReserveInv, InAdmission, Calls, Working, Up
<1>11. ASSUME NEW c \in Clients, Opens(c) PROVE ReserveInv'
  <2>1. mem'.op = mem.op /\ client'[c].at = "idle" /\ \A d \in Clients : d # c => client'[d] = client[d]
    BY <1>11 DEF Opens, TypeOK, Idle
  <2>2. QED
    BY <1>11, <2>1 DEF Opens, ReserveInv, InAdmission, Calls, Working, Up
<1>12. ASSUME NEW c \in Clients, UndoPendingAdmission(c) PROVE ReserveInv'
  <2>1. client'[c].at = "idle" /\ \A d \in Clients : d # c => client'[d] = client[d]
    BY <1>12 DEF UndoPendingAdmission, TypeOK, Idle
  <2>2. QED
    BY <1>12, <2>1 DEF UndoPendingAdmission, ReserveInv, InAdmission, Calls, Working, Up, faults
<1>13. ASSUME NEW c \in Clients, AbortsNothing(c) PROVE ReserveInv'
  <2>1. client'[c].at = "idle" /\ \A d \in Clients : d # c => client'[d] = client[d]
    BY <1>13 DEF AbortsNothing, TypeOK, Idle
  <2>2. QED
    BY <1>13, <2>1 DEF AbortsNothing, ReserveInv, InAdmission, Calls, Working, Up
<1>14. ASSUME NEW c \in Clients, NEW ids \in SUBSET Ids(disk.lane.inbox), Aborts(c, ids) PROVE ReserveInv'
  <2>1. client'[c].at = "apply" /\ \A d \in Clients : d # c => client'[d] = client[d]
    BY <1>14 DEF Aborts, TypeOK, Applies
  <2>2. QED
    BY <1>14, <2>1 DEF Aborts, ReserveInv, InAdmission, Calls, Working, Up
<1>15. CASE DriveStart
  <2>1. ~Accepting
    BY <1>15, Zenon DEF DriveStart
  <2>2. QED
    BY <1>15, <2>1 DEF DriveStart, ReserveInv, InAdmission, Accepting, Open, Up, faults
<1>16. CASE Drains
  <2>1. mem'.op = mem.op
    BY <1>16 DEF Drains, TypeOK, Memories
  <2>2. QED
    BY <1>16, <2>1 DEF Drains, ReserveInv, InAdmission, Driving, Up
<1>17. CASE Responds
  <2>1. mem'.op = mem.op
    BY <1>17 DEF Responds, TypeOK, Memories
  <2>2. QED
    BY <1>17, <2>1 DEF Responds, ReserveInv, InAdmission, Driving, Up
<1>18. CASE SettlesOperation
  BY <1>18 DEF SettlesOperation, ReserveInv, InAdmission, Driving, Up
<1>19. CASE StopsDriving
  BY <1>19 DEF StopsDriving, ReserveInv, InAdmission
<1>20. CASE Faults
  <2>1. \A d \in Clients : \/ client'[d] = client[d]
                           \/ client'[d].at = "late"
    BY <1>20 DEF Faults
  <2>2. QED
    BY <1>20, <2>1 DEF Faults, ReserveInv, InAdmission
<1>21. CASE Crash
  BY <1>21 DEF Crash, ReserveInv, InAdmission, Idle
<1>22. CASE Restore
  BY <1>22 DEF Restore, ReserveInv, InAdmission, locals
<1>23. CASE Waiting
  BY <1>23 DEF Waiting, ReserveInv, InAdmission
<1>24. CASE Begins
  BY <1>24 DEF Begins, ReserveInv, InAdmission, Driving, Up
<1>25. QED
  BY <1>0, <1>1, <1>2, <1>3, <1>4, <1>5, <1>6, <1>7, <1>8, <1>9, <1>10, <1>11, <1>12, <1>13, <1>14,
     <1>15, <1>16, <1>17, <1>18, <1>19, <1>20, <1>21, <1>22, <1>23, <1>24, Zenon DEF Steps

(* The tip after an entry has been put on the branch. *)
LEMMA TipMoves ==
  ASSUME TypeOK, NEW log \in Seq(1..entries)
  PROVE  Tip(log \o <<entries + 1>>) = entries + 1
<1>1. log \in Seq(1..(entries + 1)) /\ entries + 1 \in Nat /\ entries + 1 \in 1..(entries + 1)
  <2>1. entries \in Nat /\ 1..entries \subseteq 1..(entries + 1)
    BY Parts
  <2>2. QED
    BY <2>1, SeqMonotonic
<1>2. QED
  BY <1>1, SingleEntry, LogGrows

(* Every step commits below the tip of the branch. *)
LEMMA TipStep ==
  ASSUME TypeOK, ReserveInv, TipInv, ~early', [Next]_vars
  PROVE  TipInv'
<1>0. Steps
  BY StepKinds
<1> USE Parts
<1>1. ASSUME NEW c \in Clients, NEW kind \in Kinds, Enqueues(c, kind) PROVE TipInv'
  <2>1. /\ client'[c].at = "apply" /\ \A d \in Clients : d # c => client'[d] = client[d]
        /\ disk'.log = disk.log /\ mem'.tip = mem.tip /\ mem'.op = mem.op
    BY <1>1 DEF Enqueues, TypeOK, Disks, Memories, Applies
  <2>2. QED
    BY <1>1, <2>1 DEF Enqueues, TipInv, ReserveInv, InAdmission, Calls, Working, Up
<1>2. ASSUME NEW c \in Clients, NEW id \in Entries, Cancels(c, id) PROVE TipInv'
  <2>1. /\ client'[c].at = "apply" /\ \A d \in Clients : d # c => client'[d] = client[d]
        /\ disk'.log = disk.log /\ mem'.tip = mem.tip /\ mem'.op = mem.op
    BY <1>2 DEF Cancels, TypeOK, Disks, Memories, Applies
  <2>2. QED
    BY <1>2, <2>1 DEF Cancels, TipInv, ReserveInv, InAdmission, Calls, Working, Up
<1>3. ASSUME NEW c \in Clients, QueuesWrite(c) PROVE TipInv'
  <2>1. /\ client'[c].at = "idle" /\ \A d \in Clients : d # c => client'[d] = client[d]
        /\ disk'.log = disk.log /\ mem'.tip = mem.tip /\ mem'.op = mem.op
    BY <1>3 DEF QueuesWrite, TypeOK, Disks, Memories, Idle
  <2>2. QED
    BY <1>3, <2>1 DEF QueuesWrite, TipInv, ReserveInv, InAdmission, Calls, Working, Up
<1>4. ASSUME NEW c \in Clients, AppendsEntry(c) PROVE TipInv'
  <2>1. /\ client'[c].at = "idle" /\ \A d \in Clients : d # c => client'[d] = client[d]
        /\ disk'.log = disk.log \o <<entries + 1>> /\ mem'.tip = entries + 1
    BY <1>4 DEF AppendsEntry, TypeOK, Disks, Memories, Idle
  <2>2. \A d \in Clients : ~InAdmission(d)
    BY <1>4, ClientParts DEF AppendsEntry, ReserveInv, InAdmission, TypeOK
  <2>3. mem.tip = Tip(disk.log)
    BY <1>4, <2>2 DEF AppendsEntry, TipInv, InAdmission, Calls, Up
  <2>4. ~forked'
    BY <1>4, <2>3 DEF AppendsEntry, Forks, TipInv
  <2>5. Tip(disk'.log) = entries + 1
    BY <2>1, TipMoves
  <2>6. QED
    BY <2>1, <2>2, <2>4, <2>5 DEF TipInv, InAdmission
<1>5. ASSUME NEW c \in Clients, NEW op \in Ops, Accepts(c, op) PROVE TipInv'
  <2>1. \A d \in Clients : ~InAdmission(d)
    BY <1>5, ClientParts DEF Accepts, ReserveInv, InAdmission, TypeOK
  <2>2. /\ client'[c].at = "admit" /\ client'[c].tip = mem.tip /\ mem'.tip = mem.tip /\ disk' = disk
        /\ \A d \in Clients : d # c => client'[d] = client[d]
    BY <1>5 DEF Accepts, TypeOK, Memories
  <2>3. mem.tip = Tip(disk.log)
    BY <1>5, <2>1 DEF Accepts, TipInv, InAdmission
  <2>4. ~forked'
    BY <1>5 DEF Accepts, TipInv
  <2>5. QED
    BY <2>1, <2>2, <2>3, <2>4 DEF TipInv, InAdmission
<1>6. ASSUME NEW c \in Clients, RequestAbort(c) PROVE TipInv'
  <2>1. /\ client'[c].at = "abort" /\ \A d \in Clients : d # c => client'[d] = client[d]
        /\ disk'.log = disk.log /\ mem'.tip = mem.tip /\ mem'.op = mem.op
    BY <1>6 DEF RequestAbort, TypeOK, Disks, Memories, faults, ghosts
  <2>2. QED
    BY <1>6, <2>1 DEF RequestAbort, TipInv, ReserveInv, InAdmission, Calls, Working, Up, faults, ghosts
<1>7. ASSUME NEW c \in Clients, Apply(c) PROVE TipInv'
  <2>1. /\ client'[c].at = "idle" /\ \A d \in Clients : d # c => client'[d] = client[d]
        /\ disk'.log = disk.log /\ mem'.tip = mem.tip /\ mem'.op = mem.op
    BY <1>7 DEF Apply, TypeOK, Disks, Memories, Idle
  <2>2. QED
    BY <1>7, <2>1 DEF Apply, TipInv, ReserveInv, InAdmission, Calls, Working, Up, faults, ghosts
<1>8. ASSUME NEW c \in Clients, Refuses(c) PROVE TipInv'
  <2>1. /\ client'[c].at = "undo" /\ \A d \in Clients : d # c => client'[d] = client[d]
        /\ disk'.log = disk.log /\ mem'.tip = mem.tip /\ mem'.op = mem.op
    BY <1>8, ClientParts DEF Refuses, TypeOK, Disks, Memories, Working
  <2>2. QED
    BY <1>8, <2>1 DEF Refuses, TipInv, ReserveInv, InAdmission, Calls, Working, Up
<1>9. ASSUME NEW c \in Clients, Commits(c) PROVE TipInv'
  <2>1. /\ client'[c].at = "admitted" /\ client'[c].tip = entries + 1
        /\ \A d \in Clients : d # c => client'[d] = client[d]
        /\ disk'.log = (disk.log \o IdsOf(Chosen(c))) \o <<entries + 1>>
    BY <1>9 DEF Commits, TypeOK, Disks
  <2>2. InAdmission(c) /\ \A d \in Clients : d # c => ~InAdmission(d)
    BY <1>9 DEF Commits, Working, ReserveInv, InAdmission
  <2>3. client[c].tip = Tip(disk.log)
    BY <1>9, <2>2 DEF Commits, Working, TipInv, InAdmission
  <2>4. ~forked'
    BY <1>9, <2>3 DEF Commits, Forks, TipInv
  <2>5. Tip(disk'.log) = entries + 1
    <3>1. Chosen(c) \in Boxes(entries)
      BY <1>9, ClientParts, Subboxes DEF Commits, Working, TypeOK, Chosen
    <3>2. disk.log \o IdsOf(Chosen(c)) \in Seq(1..entries)
      BY <3>1, BoxIds, LogGrows
    <3>3. QED
      BY <2>1, <3>2, TipMoves
  <2>6. QED
    BY <2>1, <2>2, <2>4, <2>5 DEF TipInv, InAdmission
<1>10. ASSUME NEW c \in Clients, IsRejected(c) PROVE TipInv'
  <2>1. /\ client'[c].at = "idle" /\ \A d \in Clients : d # c => client'[d] = client[d]
        /\ disk' = disk /\ mem' = mem /\ drive' = drive /\ sealed' = sealed /\ ~forked'
    BY <1>10 DEF IsRejected, TypeOK, TipInv, Idle
  <2>2. /\ InAdmission(c) /\ mem.op = client[c].op /\ drive # "driving"
        /\ \A d \in Clients : d # c => ~InAdmission(d)
    BY <1>10 DEF IsRejected, Working, ReserveInv, InAdmission
  <2>3. sealed /\ mem.op # 0
    BY <1>10, <2>2, ClientParts DEF IsRejected, Working, TypeOK
  <2>4. \A d \in Clients : ~InAdmission(d)'
    BY <2>1, <2>2 DEF InAdmission
  <2>5. QED
    BY <2>1, <2>2, <2>3, <2>4 DEF TipInv, InAdmission
<1>11. ASSUME NEW c \in Clients, Opens(c) PROVE TipInv'
  <2>1. /\ client'[c].at = "idle" /\ \A d \in Clients : d # c => client'[d] = client[d]
        /\ disk' = disk /\ mem'.tip = client[c].tip /\ ~forked'
    BY <1>11 DEF Opens, TypeOK, TipInv, Idle
  <2>2. client[c].tip = Tip(disk.log) /\ \A d \in Clients : d # c => ~InAdmission(d)
    BY <1>11 DEF Opens, Working, TipInv, ReserveInv, InAdmission
  <2>3. QED
    BY <2>1, <2>2 DEF TipInv, InAdmission
<1>12. ASSUME NEW c \in Clients, UndoPendingAdmission(c) PROVE TipInv'
  <2>1. /\ client'[c].at = "idle" /\ \A d \in Clients : d # c => client'[d] = client[d]
        /\ disk' = disk /\ mem'.tip = mem.tip /\ ~forked'
    BY <1>12 DEF UndoPendingAdmission, TypeOK, Memories, TipInv, Idle
  <2>2. /\ mem.tip = Tip(disk.log) /\ \A d \in Clients : d # c => ~InAdmission(d)
    BY <1>12 DEF UndoPendingAdmission, Working, Up, TipInv, ReserveInv, InAdmission
  <2>3. QED
    BY <2>1, <2>2 DEF TipInv, InAdmission
<1>13. ASSUME NEW c \in Clients, AbortsNothing(c) PROVE TipInv'
  <2>1. /\ client'[c].at = "idle" /\ \A d \in Clients : d # c => client'[d] = client[d]
        /\ disk'.log = disk.log /\ mem'.tip = mem.tip /\ mem'.op = mem.op
    BY <1>13 DEF AbortsNothing, TypeOK, Disks, Memories, Idle
  <2>2. QED
    BY <1>13, <2>1 DEF AbortsNothing, TipInv, ReserveInv, InAdmission, Calls, Working, Up
<1>14. ASSUME NEW c \in Clients, NEW ids \in SUBSET Ids(disk.lane.inbox), Aborts(c, ids) PROVE TipInv'
  <2>1. /\ client'[c].at = "apply" /\ \A d \in Clients : d # c => client'[d] = client[d]
        /\ disk'.log = disk.log /\ mem'.tip = mem.tip /\ mem'.op = mem.op
    BY <1>14 DEF Aborts, TypeOK, Disks, Memories, Applies
  <2>2. QED
    BY <1>14, <2>1 DEF Aborts, TipInv, ReserveInv, InAdmission, Calls, Working, Up
<1>15. CASE DriveStart
  <2>1. ~Accepting
    BY <1>15, Zenon DEF DriveStart
  <2>2. mem.tip = Tip(disk.log) /\ \A d \in Clients : ~InAdmission(d)
    BY <1>15, <2>1 DEF DriveStart, Open, Up, Accepting, TipInv, InAdmission
  <2>3. QED
    BY <1>15, <2>2 DEF DriveStart, TipInv, InAdmission
<1>16. CASE Drains
  <2>1. /\ disk'.log = disk.log \o IdsOf(Drained) /\ mem'.tip = Last(IdsOf(Drained)) /\ client' = client
    BY <1>16 DEF Drains, TypeOK, Disks, Memories
  <2>2. \A d \in Clients : ~InAdmission(d)
    BY <1>16 DEF Drains, Driving, ReserveInv, InAdmission
  <2>3. mem.tip = Tip(disk.log)
    BY <1>16, <2>2 DEF Drains, TipInv, InAdmission, Driving, Up
  <2>4. ~forked'
    BY <1>16, <2>3 DEF Drains, Forks, TipInv
  <2>5. Tip(disk'.log) = Last(IdsOf(Drained))
    <3>1. Drained \in Boxes(entries) /\ Drained # <<>>
      BY <1>16, Subboxes DEF Drains, Drained
    <3>2. QED
      BY <2>1, <3>1, BoxIds, LogGrows
  <2>6. QED
    BY <2>1, <2>2, <2>4, <2>5 DEF TipInv, InAdmission
<1>17. CASE Responds
  <2>1. disk'.log = disk.log \o <<entries + 1>> /\ mem'.tip = entries + 1 /\ client' = client
    BY <1>17 DEF Responds, TypeOK, Disks, Memories
  <2>2. \A d \in Clients : ~InAdmission(d)
    BY <1>17 DEF Responds, Driving, ReserveInv, InAdmission
  <2>3. mem.tip = Tip(disk.log)
    BY <1>17, <2>2 DEF Responds, TipInv, InAdmission, Driving, Up
  <2>4. ~forked'
    BY <1>17, <2>3 DEF Responds, Forks, TipInv
  <2>5. Tip(disk'.log) = entries + 1
    BY <2>1, TipMoves
  <2>6. QED
    BY <2>1, <2>2, <2>4, <2>5 DEF TipInv, InAdmission
<1>18. CASE SettlesOperation
  <2>1. disk'.log = disk.log /\ mem'.tip = mem.tip
    BY <1>18 DEF SettlesOperation, TypeOK, Disks, Memories
  <2>2. mem.tip = Tip(disk.log)
    BY <1>18 DEF SettlesOperation, Driving, Up, TipInv, ReserveInv, InAdmission
  <2>3. QED
    BY <1>18, <2>1, <2>2 DEF SettlesOperation, TipInv, InAdmission
<1>19. CASE StopsDriving
  BY <1>19 DEF StopsDriving, TipInv, InAdmission
<1>20. CASE Faults
  <2>1. PICK late \in SUBSET {c \in Clients : Working(c, "idle")} :
          client' = [c \in Clients |-> IF c \in late THEN [at |-> "late"] ELSE client[c]]
    BY <1>20 DEF Faults
  <2>2. \A d \in Clients : client'[d] = client[d] \/ (client'[d].at = "late" /\ client[d].at = "idle")
    <3>0. \A d \in Clients : /\ d \in late => client'[d] = [at |-> "late"]
                             /\ d \notin late => client'[d] = client[d]
      BY ONLY <2>1, Zenon
    <3> SUFFICES ASSUME NEW d \in Clients
                 PROVE  client'[d] = client[d] \/ (client'[d].at = "late" /\ client[d].at = "idle")
      OBVIOUS
    <3>1. CASE d \in late
      BY <3>0, <3>1 DEF Working
    <3>2. CASE d \notin late
      BY <3>0, <3>2
    <3>3. QED
      BY <3>1, <3>2
  <2>3. QED
    BY <1>20, <2>2 DEF Faults, TipInv, InAdmission
<1>21. CASE Crash
  BY <1>21 DEF Crash, TipInv, Idle, ghosts
<1>22. CASE Restore
  <2>1. \A d \in Clients : client'[d].at = "idle"
    BY <1>22 DEF Restore, ReserveInv, locals
  <2>2. mem'.tip = Tip(disk.log) /\ disk' = disk /\ ~forked'
    BY <1>22 DEF Restore, TipInv, ghosts
  <2>3. QED
    BY <2>1, <2>2 DEF TipInv
<1>23. CASE Waiting
  BY <1>23 DEF Waiting, TipInv, InAdmission
<1>24. CASE Begins
  <2>1. disk'.log = disk.log
    BY <1>24 DEF Begins, TypeOK, Disks
  <2>2. mem.tip = Tip(disk.log)
    BY <1>24 DEF Begins, Driving, Up, TipInv, ReserveInv, InAdmission
  <2>3. QED
    BY <1>24, <2>1, <2>2 DEF Begins, TipInv, InAdmission
<1>25. QED
  BY <1>0, <1>1, <1>2, <1>3, <1>4, <1>5, <1>6, <1>7, <1>8, <1>9, <1>10, <1>11, <1>12, <1>13, <1>14,
     <1>15, <1>16, <1>17, <1>18, <1>19, <1>20, <1>21, <1>22, <1>23, <1>24, Zenon DEF Steps

-----------------------------------------------------------------------------
(* Wake-ups. *)

(* A step that leaves the waiter alone and closes nothing. *)
LEMMA IdleKept ==
  ASSUME IdleInv, mem.op # 0 => mem'.op # 0,
         UNCHANGED <<waiter, woken, sealed, down, drive, owed, undone>>
  PROVE  IdleInv'
BY DEF IdleInv, NoLostIdle, Open, Up

(* A drive is there, or returns. *)
LEMMA IdleDriven ==
  ASSUME ~down', drive' # "none" \/ owed' = TRUE
  PROVE  IdleInv'
BY DEF IdleInv, NoLostIdle

LEMMA IdleRequest ==
  ASSUME TypeOK, IdleInv, NEW c \in Clients, Request(c)
  PROVE  IdleInv'
<1>1. ASSUME NEW kind \in Kinds, Enqueue(c, kind) PROVE IdleInv'
  BY <1>1, IdleKept DEF Enqueue, faults
<1>2. ASSUME NEW id \in Entries, CancelQueued(c, id) PROVE IdleInv'
  BY <1>2, IdleKept DEF CancelQueued, faults
<1>3. CASE AppendMessage(c)
  <2>1. mem'.op = mem.op
    BY <1>3 DEF AppendMessage, TypeOK, Memories
  <2>2. QED
    BY <1>3, <2>1, IdleKept DEF AppendMessage, faults
<1>4. ASSUME NEW op \in Ops, Accept(c, op) PROVE IdleInv'
  <2>1. mem'.op = op
    BY <1>4, AcceptKinds DEF Accepts, TypeOK, Memories
  <2>2. op # 0
    BY HarnessLaneAssumption DEF Ops
  <2>3. QED
    BY <1>4, <2>1, <2>2, IdleKept DEF Accept, faults, ghosts
<1>5. CASE RequestAbort(c)
  BY <1>5, IdleKept DEF RequestAbort, faults, ghosts
<1>6. QED
  BY <1>1, <1>2, <1>3, <1>4, <1>5 DEF Request

LEMMA IdleFinish ==
  ASSUME TypeOK, IdleInv, NEW c \in Clients, Finish(c)
  PROVE  IdleInv'
<1>1. CASE Apply(c)
  <2>1. mem'.op = mem.op
    BY <1>1 DEF Apply, TypeOK, Memories
  <2>2. QED
    BY <1>1, <2>1, IdleKept DEF Apply, faults, ghosts
<1>2. CASE Admit(c)
  <2>1. UNCHANGED <<mem, drive, owed, waiter, woken, faults, gone, undone>>
    BY <1>2 DEF Admit
  <2>2. QED
    BY <2>1, IdleKept DEF faults
<1>3. CASE Admitted(c)
  <2>1. mem'.op = mem.op
    BY <1>3 DEF Admitted, TypeOK, Memories
  <2>2. QED
    BY <1>3, <2>1, IdleKept DEF Admitted, faults, ghosts
<1>4. CASE UndoPendingAdmission(c)
  BY <1>4 DEF UndoPendingAdmission, faults, Up, IdleInv, NoLostIdle
<1>5. CASE CommitAbort(c)
  <2>1. UNCHANGED <<mem, drive, owed, waiter, woken, faults, entries, forked, undone>>
    BY <1>5 DEF CommitAbort
  <2>2. QED
    BY <2>1, IdleKept DEF faults
<1>6. QED
  BY <1>1, <1>2, <1>3, <1>4, <1>5 DEF Finish

LEMMA IdleDrive ==
  ASSUME IdleInv, DriveStart \/ Driver \/ NotifyIdle
  PROVE  IdleInv'
<1>1. CASE DriveStart
  BY <1>1, IdleDriven DEF DriveStart, Open, Up, faults
<1>2. CASE DrainInbox
  <2>1. drive' # "none" /\ ~down'
    BY <1>2 DEF DrainInbox, GoesOn, Driving, Up, faults
  <2>2. QED
    BY <2>1, IdleDriven
<1>3. CASE Respond
  <2>1. drive' # "none" /\ ~down'
    BY <1>3 DEF Respond, GoesOn, Driving, Up, faults
  <2>2. QED
    BY <2>1, IdleDriven
<1>4. CASE Settle
  BY <1>4, IdleDriven DEF Settle, Driving, Up, faults
<1>5. CASE DriveReturn
  BY <1>5, IdleDriven DEF DriveReturn, Up, faults
<1>t. CASE Transition
  BY <1>t, IdleDriven DEF Transition, GoesOn, Driving, Up, faults
<1>6. CASE NotifyIdle
  <2>1. ~down /\ UNCHANGED <<mem, drive, waiter, sealed, down, undone>>
    BY <1>6 DEF NotifyIdle, Up, faults, ghosts
  <2>2. CASE mem.op = 0
    <3>1. woken' = (waiter # "out")
      BY <1>6, <2>2, Zenon DEF NotifyIdle, WakesIdle, Notify
    <3>2. waiter = "asleep" => woken'
      BY ONLY <3>1
    <3>3. QED
      BY <2>1, <3>2 DEF IdleInv, NoLostIdle
  <2>3. CASE mem.op # 0
    BY <2>1, <2>3 DEF IdleInv, NoLostIdle
  <2>4. QED
    BY <2>2, <2>3
<1>7. QED
  BY <1>1, <1>2, <1>3, <1>4, <1>5, <1>6, <1>t DEF Driver

LEMMA IdleWait ==
  ASSUME IdleInv, WaitArm \/ Waiter
  PROVE  IdleInv'
<1>1. CASE waiter' # "asleep"
  BY <1>1 DEF WaitArm, Waiter, WaitReadOperation, WaitReadDrive, WaitWake, Waits, Up, faults,
              IdleInv, NoLostIdle
<1>2. CASE waiter' = "asleep"
  <2>1. (mem.op # 0 \/ drive # "none") /\ UNCHANGED <<mem, drive>> /\ ~down'
    BY <1>2 DEF WaitArm, Waiter, WaitReadOperation, WaitReadDrive, WaitWake, Waits, Reads, Up, faults
  <2>2. QED
    BY <2>1 DEF IdleInv, NoLostIdle
<1>3. QED
  BY <1>1, <1>2

LEMMA IdleStep ==
  ASSUME TypeOK, IdleInv, [Next]_vars
  PROVE  IdleInv'
<1>1. CASE Fault
  BY <1>1 DEF Fault, Open, Up, IdleInv, NoLostIdle
<1>2. CASE Crash
  BY <1>2 DEF Crash, IdleInv, NoLostIdle
<1>3. CASE Restore
  BY <1>3 DEF Restore, locals, IdleInv, NoLostIdle
<1>4. CASE UNCHANGED vars
  BY <1>4, IdleKept DEF vars, locals, faults, ghosts
<1>5. QED
  BY <1>1, <1>2, <1>3, <1>4, IdleRequest, IdleFinish, IdleDrive, IdleWait, Zenon DEF Next

-----------------------------------------------------------------------------
(* The theorems. *)

(* Reservations and tips are what they should be until a drive begins during an admission. *)
BranchInv == early \/ (ReserveInv /\ TipInv)
LaneInv == TypeOK /\ ExactlyOnce /\ BranchInv /\ IdleInv

LEMMA LaneInit == Init => LaneInv
<1> SUFFICES ASSUME Init PROVE LaneInv
  OBVIOUS
<1>1. TypeOK
  BY InitTypes
<1>2. ExactlyOnce
  <2>1. disk.log = <<>> /\ disk.pending = {} /\ entries = 0 /\ 1..0 = {}
    BY DEF Init
  <2>2. QED
    BY <2>1 DEF ExactlyOnce, OnBranch, IsInjective, Range
<1>3. ReserveInv
  BY DEF Init, ReserveInv, InAdmission, Idle
<1>4. TipInv
  BY DEF Init, TipInv, Tip, Idle
<1>5. IdleInv
  BY DEF Init, IdleInv, NoLostIdle
<1>6. QED
  BY <1>1, <1>2, <1>3, <1>4, <1>5 DEF LaneInv, BranchInv

LEMMA LaneStep == LaneInv /\ [Next]_vars => LaneInv'
<1> SUFFICES ASSUME LaneInv, [Next]_vars PROVE LaneInv'
  OBVIOUS
<1>1. BranchInv'
  <2> SUFFICES ASSUME ~early' PROVE ReserveInv' /\ TipInv'
    BY Zenon DEF BranchInv
  <2>1. TypeOK /\ ReserveInv /\ TipInv
    BY EarlyStays, Zenon DEF LaneInv, BranchInv
  <2>2. QED
    BY <2>1, ReserveStep, TipStep, Zenon
<1>2. QED
  BY <1>1, TypeStep, OnceStep, IdleStep, Zenon DEF LaneInv

LEMMA LaneInvariant == Spec => []LaneInv
BY LaneInit, LaneStep, PTL DEF Spec

(* Every copy of the inbox that the store, memory and the calls under way hold lists reserved  *)
(* ids, each at most once, whatever the order of the commits and of their copies to memory.    *)
THEOREM LaneTypeCorrect == Spec => []TypeOK
BY LaneInvariant, PTL DEF LaneInv

(* However enqueue, cancel_queued, append_message, request_abort, commit_run and drain_inbox   *)
(* race, fault and crash, each reserved entry is pending, on the branch once, or given back,   *)
(* for any number of clients, messages and operations.                                         *)
THEOREM ExactlyOnceHolds == Spec => []ExactlyOnce
BY LaneInvariant, PTL DEF LaneInv

(* Nobody commits below a stale tip: the reservation of accept_run, published before the data  *)
(* lock is released, keeps every other writer of the branch away until the tip is current.     *)
(* The one writer it does not keep away is a drive of the reserved operation itself.           *)
THEOREM NeverForksHolds == Spec => []NeverForks
<1>1. LaneInv => NeverForks
  BY Zenon DEF LaneInv, BranchInv, TipInv, NeverForks
<1>2. QED
  BY <1>1, LaneInvariant, PTL

(* wait_for_idle never sleeps through the wake-up it needs, unless an admission was undone.    *)
THEOREM NoLostIdleHolds == Spec => []NoLostIdle
<1>1. LaneInv => NoLostIdle
  BY DEF LaneInv, IdleInv
<1>2. QED
  BY <1>1, LaneInvariant, PTL

=============================================================================
