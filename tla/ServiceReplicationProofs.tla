----------------------- MODULE ServiceReplicationProofs -----------------------
(* Theorems about ServiceReplication for every set of publishers and every bound. *)
EXTENDS ServiceReplication, Integers, SequenceTheorems, TLAPS

-----------------------------------------------------------------------------
(* Stacks. *)

Frames(s) == {s[k] : k \in DOMAIN s}
Has(s, at, i) == \E f \in Frames(s) : f.at = at /\ f.i = i

Plain ==
  {"user", "drain", "hydrate", "local", "source", "emit", "drainSub", "entries", "register", "flush",
   "deliver", "wipe", "apply"}
StartPoints == {"subscribe", "value", "install"}
StarterPoints == StartPoints \union {"activate", "reap", "revalidate"}
ClosePoints == {"close", "remove"}
RebindPoints == {"bump", "clear", "await", "take", "respawn"}
Points == Plain \union StarterPoints \union ClosePoints \union RebindPoints

(* A frame of a batch has an entry left. *)
Frame ==
  {f \in [at: Points, i: Revisions, n: Nat, rest: Seq(Nat)] : f.at = "entries" => f.rest # <<>>}
Dispatches == [kind: {"publication", "hydration"}, n: Nat]
Subscriber == [active: BOOLEAN, closed: BOOLEAN, owner: Threads \union {NoThread}, buffer: Seq(Nat)]

Typed ==
  /\ stack \in [Threads -> Seq(Frame)]
  /\ seq \in Nat /\ pending \in Seq(Dispatches) /\ drainer \in Threads \union {NoThread}
  /\ subscribers \subseteq Revisions /\ sub \in [Revisions -> Subscriber]
  /\ snap \in [seq: Nat, value: Nat]
  /\ revision \in Revisions /\ cleared \in Revisions /\ subscription \subseteq Revisions
  /\ bound \in BOOLEAN
  /\ replica \in [seq: Nat, value: Nat, torn: BOOLEAN, rev: Nat]
  /\ deliveries \in Seq(Nat) /\ delivering \in BOOLEAN /\ epoch \in Nat

(* Where a rebind is: what is left of it, and the close of the old subscription. *)
Places(s) == [k \in DOMAIN s |-> s[k].at]
Stopped == {<<"take">>, <<"close">>, <<"remove">>, <<"take", "respawn", "await">>, <<"close", "respawn", "await">>,
            <<"remove", "respawn", "await">>, <<"respawn", "await">>}
Stopping == {<<"bump", "clear", "await", "take">>, <<"bump", "clear", "await", "take", "respawn", "await">>,
             <<"clear", "await", "take">>, <<"clear", "await", "take", "respawn", "await">>,
             <<"await", "take">>, <<"await", "take", "respawn", "await">>}
RebindInv ==
  /\ Places(stack[Rebinder]) \in Stopped \union Stopping \union {<<>>, <<"await">>}
  /\ Places(stack[Rebinder]) \in Stopped => Idle(Starter)
  /\ At(Rebinder, "bump") => revision < MaxRebinds

(* Whose the frames are; a start that has not installed its snapshot does nothing else. *)
StartInv ==
  /\ \A t \in Threads : \A f \in Frames(stack[t]) :
       /\ f.at \in StarterPoints => t = Starter
       /\ f.at \in ClosePoints => t \in {Starter, Rebinder}
  /\ \A f \in Frames(stack[Starter]) : f.at \in StartPoints => stack[Starter] = <<f>>

(* The snapshot's value is at least as new as its label. *)
SnapInv ==
  /\ snap.seq <= seq
  /\ \A f \in Frames(stack[Starter]) : f.at = "install" => snap.seq <= snap.value

(* Whoever has the right to drain has the frame that drains. *)
SourceInv ==
  /\ drainer # NoThread => Has(stack[drainer], "drain", 0)
  /\ pending # <<>> => drainer # NoThread
DeliveryInv ==
  /\ delivering => \E t \in Threads : Has(stack[t], "flush", 0)
  /\ deliveries # <<>> => delivering
BufferInv ==
  \A i \in Revisions :
    /\ sub[i].owner # NoThread => Has(stack[sub[i].owner], "drainSub", i)
    /\ sub[i].active /\ sub[i].buffer # <<>> => sub[i].owner # NoThread

ClearInv == cleared <= revision /\ NoResurrection

ReplicationInv ==
  /\ Typed
  /\ RebindInv /\ StartInv
  /\ SourceInv /\ DeliveryInv /\ BufferInv
  /\ SnapInv /\ ClearInv /\ HoldsItsLabel

-----------------------------------------------------------------------------
(* The flow of publications to the current subscription. *)

(* The start's own frames. *)
Own == StarterPoints \union ClosePoints
OwnFrames == {f \in Frames(stack[Starter]) : f.at \in Own}
Closing == {f \in Frames(stack[Rebinder]) : f.at \in ClosePoints}

(* No rebind is under way, or only the wait for its new start; the revision of a rebind under *)
(* way has no start yet.                                                                      *)
Place == Places(stack[Rebinder])
Settled == {<<>>, <<"await">>}
Bumping == {<<"bump", "clear", "await", "take">>, <<"bump", "clear", "await", "take", "respawn", "await">>}
Seen(i) == i < revision \/ (i = revision /\ Place \in Settled \union Bumping)

(* A rebind without a new start leaves the consumer unbound. *)
Unbinding ==
  {<<"bump", "clear", "await", "take">>, <<"clear", "await", "take">>, <<"await", "take">>,
   <<"take">>, <<"close">>, <<"remove">>}
Taken ==
  {<<"close">>, <<"remove">>, <<"close", "respawn", "await">>, <<"remove", "respawn", "await">>, <<"respawn", "await">>}
BoundInv ==
  /\ Place \in Unbinding => ~bound
  /\ Place \in Taken => subscription = {}

(* One start at a time, that of the newest revision unless a rebind is on its way. *)
OwnInv ==
  /\ \A f, g \in OwnFrames : f.i = g.i
  /\ \A f \in OwnFrames :
       /\ Seen(f.i)
       /\ subscription \subseteq {f.i}
       /\ f.at \in StartPoints => subscription = {}
       /\ Place \in Settled => f.i = revision
       /\ Place \in Settled /\ bound => f.at # "close"
  /\ \A i \in subscription : Seen(i) /\ (Place \in Settled => i = revision)
  /\ \A i, j \in subscription : i = j
  /\ \A f \in Closing : Seen(f.i)

(* Before its snapshot a revision's subscriber is as new. *)
New(i) == ~sub[i].closed /\ ~sub[i].active
FreshInv ==
  /\ \A i \in Revisions : ~Seen(i) => New(i)
  /\ \A f \in OwnFrames : f.at \in {"subscribe", "value"} => New(f.i)

(* A registered subscriber that is open is the one a start has, the one recorded, or being closed. *)
Kept(i) ==
  \/ i \in subscription
  \/ \E f \in OwnFrames : f.at \in {"install", "activate", "close"} /\ f.i = i
  \/ \E f \in Closing : f.at = "close" /\ f.i = i
OpenInv ==
  /\ \A i \in subscribers : ~sub[i].closed => Kept(i)
  /\ \A f \in OwnFrames \union Closing : f.at = "remove" => sub[f.i].closed

(* Only an active subscriber is drained. *)
ActiveInv == \A t \in Threads : \A f \in Frames(stack[t]) : f.at = "drainSub" => sub[f.i].active

(* What may travel: publications, and after a withdrawal its notice. *)
Number(n) == n <= seq /\ (withdrawals = 0 => n >= 1)
Carries(f) ==
  /\ f.at \in {"source", "emit", "deliver", "apply"} => Number(f.n)
  /\ f.at = "entries" => \A n \in Frames(f.rest) : Number(n)
  /\ f.at = "wipe" => withdrawals # 0
NumberInv ==
  /\ \A t \in Threads : \A f \in Frames(stack[t]) : Carries(f)
  /\ \A d \in Frames(pending) : d.kind = "publication" => Number(d.n)
  /\ \A i \in Revisions : \A n \in Frames(sub[i].buffer) : Number(n)
  /\ replica.seq <= seq
  /\ withdrawals \in Nat /\ (withdrawals = 0 => instance = "registered")

(* A publication on its way to the subscriber, and from there to the replica. *)
Up(n) ==
  \/ \E d \in Frames(pending) : d.kind = "publication" /\ d.n = n
  \/ \E t \in Threads : \E f \in Frames(stack[t]) : f.at \in {"source", "emit"} /\ f.n = n
Down(n, r) ==
  \/ n \in Frames(sub[r].buffer)
  \/ \E t \in Threads : \E f \in Frames(stack[t]) :
       f.i = r /\ \/ f.at \in {"deliver", "apply"} /\ f.n = n
                  \/ f.at = "entries" /\ n \in Frames(f.rest)
Open(r) == r \in subscribers /\ ~sub[r].closed

(* Where the start of the newest revision is, and that nothing published since is lost. *)
Watched == Place \in Settled /\ bound /\ withdrawals = 0 /\ revision \notin reported
ToStart == Has(stack[Starter], "subscribe", revision)
Reading ==
  /\ Has(stack[Starter], "value", revision) /\ providerLock = Starter
  /\ \A n \in (snap.seq + 1)..seq : Up(n)
Buffering ==
  /\ Has(stack[Starter], "install", revision) /\ Open(revision) /\ ~sub[revision].active
  /\ \A n \in (snap.seq + 1)..seq : Up(n) \/ n \in Frames(sub[revision].buffer)
Following ==
  /\ \A f \in OwnFrames : f.at \notin StartPoints
  /\ ~IsCold /\ Open(revision)
  /\ sub[revision].active \/ Has(stack[Starter], "activate", revision)
  /\ \A n \in (replica.seq + 1)..seq : Up(n) \/ Down(n, revision)
CoverInv == Watched => ToStart \/ Reading \/ Buffering \/ Following

-----------------------------------------------------------------------------
(* What a step does to the stacks: t replaces frames of gone by those of new. *)

Move(t, gone, new) ==
  /\ stack' \in [Threads -> Seq(Frame)]
  /\ \A u \in Threads : u # t => stack'[u] = stack[u]
  /\ \A f \in Frames(stack[t]) : f \in gone \/ f \in Frames(stack'[t])
  /\ \A f \in Frames(stack'[t]) : f \in Frames(stack[t]) \/ f \in new
  /\ \A f \in new : f \in Frames(stack'[t])

LEMMA FramesOfSeq ==
  ASSUME NEW S, NEW s \in Seq(S)
  PROVE  /\ Frames(s) \subseteq S
         /\ s # <<>> => Head(s) \in Frames(s) /\ Head(s) \in S /\ s[1] = Head(s) /\ Tail(s) \in Seq(S)
         /\ s # <<>> => Frames(s) = {Head(s)} \union Frames(Tail(s))
<1>1. Len(s) \in Nat /\ DOMAIN s = 1..Len(s) /\ \A k \in 1..Len(s) : s[k] \in S
  BY LenProperties, ElementOfSeq
<1>2. Frames(s) \subseteq S
  BY <1>1, Zenon DEF Frames
<1>3. ASSUME s # <<>>
      PROVE  /\ Head(s) \in Frames(s) /\ Head(s) \in S /\ s[1] = Head(s) /\ Tail(s) \in Seq(S)
             /\ Frames(s) = {Head(s)} \union Frames(Tail(s))
  <2>1. /\ Tail(s) \in Seq(S) /\ Head(s) = s[1] /\ Head(s) \in S /\ Len(s) \in Nat \ {0} /\ Len(Tail(s)) = Len(s) - 1
        /\ DOMAIN Tail(s) = 1..(Len(s) - 1)
        /\ \A k \in 1..(Len(s) - 1) : Tail(s)[k] = s[k + 1]
    BY <1>3, HeadTailProperties, EmptySeq
  <2>2. 1 \in DOMAIN s
    BY <1>1, <2>1
  <2>3. Head(s) \in Frames(s)
    BY <2>1, <2>2, Zenon DEF Frames
  <2>4. Frames(s) \subseteq {Head(s)} \union Frames(Tail(s))
    <3>1. SUFFICES ASSUME NEW k \in 1..Len(s) PROVE s[k] \in {Head(s)} \union Frames(Tail(s))
      BY <1>1, Zenon DEF Frames
    <3>2. CASE k = 1
      BY <2>1, <3>2
    <3>3. CASE k # 1
      <4>1. k - 1 \in DOMAIN Tail(s) /\ s[k] = Tail(s)[k - 1]
        BY <1>1, <2>1, <3>3
      <4>2. QED
        BY <4>1, Zenon DEF Frames
    <3>4. QED
      BY <3>2, <3>3
  <2>5. Frames(Tail(s)) \subseteq Frames(s)
    <3>1. SUFFICES ASSUME NEW k \in 1..(Len(s) - 1) PROVE Tail(s)[k] \in Frames(s)
      BY <2>1, Zenon DEF Frames
    <3>2. k + 1 \in DOMAIN s /\ Tail(s)[k] = s[k + 1]
      BY <1>1, <2>1
    <3>3. QED
      BY <3>2, Zenon DEF Frames
  <2>6. QED
    BY <2>1, <2>3, <2>4, <2>5
<1>4. QED
  BY <1>2, <1>3

LEMMA FramesOfConcat ==
  ASSUME NEW S, NEW a \in Seq(S), NEW b \in Seq(S)
  PROVE  a \o b \in Seq(S) /\ Frames(a \o b) = Frames(a) \union Frames(b)
<1>1. /\ a \o b \in Seq(S) /\ Len(a) \in Nat /\ Len(b) \in Nat /\ DOMAIN a = 1..Len(a) /\ DOMAIN b = 1..Len(b)
      /\ DOMAIN (a \o b) = 1..(Len(a) + Len(b))
      /\ \A k \in 1..(Len(a) + Len(b)) : (a \o b)[k] = IF k <= Len(a) THEN a[k] ELSE b[k - Len(a)]
  BY ConcatProperties, LenProperties
<1>2. Frames(a \o b) \subseteq Frames(a) \union Frames(b)
  <2>1. SUFFICES ASSUME NEW k \in 1..(Len(a) + Len(b)) PROVE (a \o b)[k] \in Frames(a) \union Frames(b)
    BY <1>1, Zenon DEF Frames
  <2>2. CASE k <= Len(a)
    <3>1. k \in DOMAIN a /\ (a \o b)[k] = a[k]
      BY <1>1, <2>2
    <3>2. QED
      BY <3>1, Zenon DEF Frames
  <2>3. CASE ~(k <= Len(a))
    <3>1. k - Len(a) \in DOMAIN b /\ (a \o b)[k] = b[k - Len(a)]
      BY <1>1, <2>3
    <3>2. QED
      BY <3>1, Zenon DEF Frames
  <2>4. QED
    BY <2>2, <2>3
<1>3. Frames(a) \subseteq Frames(a \o b)
  <2>1. SUFFICES ASSUME NEW k \in 1..Len(a) PROVE a[k] \in Frames(a \o b)
    BY <1>1, Zenon DEF Frames
  <2>2. k \in DOMAIN (a \o b) /\ (a \o b)[k] = a[k]
    BY <1>1
  <2>3. QED
    BY <2>2, Zenon DEF Frames
<1>4. Frames(b) \subseteq Frames(a \o b)
  <2>1. SUFFICES ASSUME NEW k \in 1..Len(b) PROVE b[k] \in Frames(a \o b)
    BY <1>1, Zenon DEF Frames
  <2>2. Len(a) + k \in 1..(Len(a) + Len(b)) /\ ~(Len(a) + k <= Len(a)) /\ (Len(a) + k) - Len(a) = k
    BY <1>1
  <2>3. Len(a) + k \in DOMAIN (a \o b) /\ (a \o b)[Len(a) + k] = b[k]
    BY <1>1, <2>2
  <2>4. QED
    BY <2>3, Zenon DEF Frames
<1>5. QED
  BY <1>1, <1>2, <1>3, <1>4

LEMMA FramesOfTuples ==
  /\ Frames(<<>>) = {}
  /\ \A a : Frames(<<a>>) = {a}
  /\ \A a, b : Frames(<<a, b>>) = {a, b}
  /\ \A a, b, c : Frames(<<a, b, c>>) = {a, b, c}
<1>1. Frames(<<>>) = {}
  BY DEF Frames
<1>2. ASSUME NEW a PROVE Frames(<<a>>) = {a}
  <2>1. DOMAIN <<a>> = {1} /\ <<a>>[1] = a
    OBVIOUS
  <2>2. QED
    BY <2>1 DEF Frames
<1>3. ASSUME NEW a, NEW b PROVE Frames(<<a, b>>) = {a, b}
  <2>1. DOMAIN <<a, b>> = {1, 2} /\ <<a, b>>[1] = a /\ <<a, b>>[2] = b
    OBVIOUS
  <2>2. QED
    BY <2>1 DEF Frames
<1>4. ASSUME NEW a, NEW b, NEW c PROVE Frames(<<a, b, c>>) = {a, b, c}
  <2>1. DOMAIN <<a, b, c>> = {1, 2, 3} /\ <<a, b, c>>[1] = a /\ <<a, b, c>>[2] = b /\ <<a, b, c>>[3] = c
    OBVIOUS
  <2>2. QED
    BY <2>1 DEF Frames
<1>5. QED
  BY <1>1, <1>2, <1>3, <1>4

LEMMA FrameTyped ==
  ASSUME NEW at \in Points, at # "entries", NEW i \in Revisions, NEW n \in Nat
  PROVE  F(at, i, n) \in Frame /\ F(at, i, n).at = at /\ F(at, i, n).i = i /\ F(at, i, n).n = n
<1>1. <<>> \in Seq(Nat)
  OBVIOUS
<1>2. QED
  BY <1>1 DEF F, Frame

LEMMA ZeroTyped == 0 \in Revisions /\ MaxRebinds \in Nat /\ Revisions \subseteq Nat
BY ServiceReplicationAssumption DEF Revisions

LEMMA DoTyped ==
  ASSUME NEW at \in Points, at # "entries"
  PROVE  Do(at) \in Frame /\ Do(at).at = at /\ Do(at).i = 0 /\ Do(at).n = 0
BY ZeroTyped, FrameTyped DEF Do

LEMMA ReplaceTop ==
  ASSUME NEW t \in Threads, stack \in [Threads -> Seq(Frame)], ~Idle(t), NEW frames \in Seq(Frame), Then(t, frames)
  PROVE  /\ Move(t, {Top(t)}, Frames(frames))
         /\ Top(t) \in Frame /\ Top(t) \in Frames(stack[t])
<1>1. stack[t] \in Seq(Frame) /\ stack[t] # <<>>
  BY DEF Idle
<1>2. /\ Top(t) \in Frames(stack[t]) /\ Top(t) \in Frame /\ Tail(stack[t]) \in Seq(Frame)
      /\ Frames(stack[t]) = {Top(t)} \union Frames(Tail(stack[t]))
  BY <1>1, FramesOfSeq DEF Top
<1>3. /\ frames \o Tail(stack[t]) \in Seq(Frame)
      /\ Frames(frames \o Tail(stack[t])) = Frames(frames) \union Frames(Tail(stack[t]))
  <2>1. \A a, b \in Seq(Frame) : a \o b \in Seq(Frame) /\ Frames(a \o b) = Frames(a) \union Frames(b)
    BY FramesOfConcat, Zenon
  <2>2. QED
    BY <1>2, <2>1, Zenon
<1>4. stack' = [stack EXCEPT ![t] = frames \o Tail(stack[t])]
  BY DEF Then
<1>5. /\ stack' \in [Threads -> Seq(Frame)] /\ stack'[t] = frames \o Tail(stack[t])
      /\ \A u \in Threads : u # t => stack'[u] = stack[u]
  BY <1>3, <1>4
<1>6. QED
  BY <1>2, <1>3, <1>5 DEF Move

LEMMA PushOn ==
  ASSUME NEW t \in Threads, stack \in [Threads -> Seq(Frame)], NEW frames \in Seq(Frame),
         stack' = [stack EXCEPT ![t] = frames \o @]
  PROVE  Move(t, {}, Frames(frames))
<1>1. /\ frames \o stack[t] \in Seq(Frame)
      /\ Frames(frames \o stack[t]) = Frames(frames) \union Frames(stack[t])
  BY FramesOfConcat
<1>2. /\ stack' \in [Threads -> Seq(Frame)] /\ stack'[t] = frames \o stack[t]
      /\ \A u \in Threads : u # t => stack'[u] = stack[u]
  BY <1>1
<1>3. QED
  BY <1>1, <1>2 DEF Move

(* The only frame of a thread is replaced. *)
LEMMA ReplaceOnly ==
  ASSUME NEW t \in Threads, stack \in [Threads -> Seq(Frame)], NEW f \in Frame, stack[t] = <<f>>,
         NEW frames \in Seq(Frame), Then(t, frames)
  PROVE  stack'[t] = frames
<1>1. Tail(<<f>>) = <<>>
  OBVIOUS
<1>2. stack'[t] = frames \o Tail(stack[t])
  BY DEF Then
<1>3. frames \o <<>> = frames
  BY ConcatEmptySeq
<1>4. QED
  BY <1>1, <1>2, <1>3

LEMMA StartOn ==
  ASSUME NEW t \in Threads, stack \in [Threads -> Seq(Frame)], Idle(t), NEW frames \in Seq(Frame),
         stack' = [stack EXCEPT ![t] = frames]
  PROVE  Move(t, {}, Frames(frames))
<1>1. /\ stack' \in [Threads -> Seq(Frame)] /\ stack'[t] = frames
      /\ \A u \in Threads : u # t => stack'[u] = stack[u]
  OBVIOUS
<1>2. Frames(stack[t]) = {}
  BY FramesOfTuples DEF Idle
<1>3. QED
  BY <1>1, <1>2 DEF Move

LEMMA Stay ==
  ASSUME NEW t \in Threads, stack \in [Threads -> Seq(Frame)], UNCHANGED stack
  PROVE  Move(t, {}, {})
BY DEF Move

LEMMA Popped ==
  ASSUME NEW t \in Threads, stack \in [Threads -> Seq(Frame)], ~Idle(t), Return(t)
  PROVE  Move(t, {Top(t)}, {}) /\ Top(t) \in Frame /\ Top(t) \in Frames(stack[t])
<1>0. Frames(<<>>) = {}
  BY FramesOfTuples
<1>1. <<>> \in Seq(Frame) /\ Then(t, <<>>)
  BY DEF Return
<1>2. QED
  BY <1>0, <1>1, ReplaceTop

LEMMA Replaced ==
  ASSUME NEW t \in Threads, stack \in [Threads -> Seq(Frame)], ~Idle(t), NEW f \in Frame, Then(t, <<f>>)
  PROVE  Move(t, {Top(t)}, {f}) /\ Top(t) \in Frame /\ Top(t) \in Frames(stack[t])
<1>0. Frames(<<f>>) = {f}
  BY FramesOfTuples
<1>1. <<f>> \in Seq(Frame)
  OBVIOUS
<1>2. QED
  BY <1>0, <1>1, ReplaceTop

LEMMA Replaced2 ==
  ASSUME NEW t \in Threads, stack \in [Threads -> Seq(Frame)], ~Idle(t), NEW f \in Frame, NEW g \in Frame,
         Then(t, <<f, g>>)
  PROVE  Move(t, {Top(t)}, {f, g}) /\ Top(t) \in Frame /\ Top(t) \in Frames(stack[t])
<1>0. Frames(<<f, g>>) = {f, g}
  BY FramesOfTuples
<1>1. <<f, g>> \in Seq(Frame)
  OBVIOUS
<1>2. QED
  BY <1>0, <1>1, ReplaceTop

LEMMA TopTyped ==
  ASSUME NEW t \in Threads, stack \in [Threads -> Seq(Frame)], ~Idle(t)
  PROVE  /\ Top(t) \in Frame /\ Top(t) \in Frames(stack[t]) /\ Top(t) = stack[t][1]
         /\ Top(t).at \in Points /\ Top(t).i \in Revisions /\ Top(t).n \in Nat /\ Top(t).rest \in Seq(Nat)
         /\ Top(t).at = "entries" => Top(t).rest # <<>>
<1>1. stack[t] \in Seq(Frame) /\ stack[t] # <<>>
  BY DEF Idle
<1>2. Top(t) \in Frame /\ Top(t) \in Frames(stack[t]) /\ Top(t) = stack[t][1]
  BY <1>1, FramesOfSeq DEF Top
<1>3. QED
  BY <1>2 DEF Frame

LEMMA HasKept ==
  ASSUME NEW t \in Threads, NEW gone, NEW new, Move(t, gone, new), NEW u \in Threads, NEW at, NEW i,
         Has(stack[u], at, i),
         \A f \in gone : f.at = at /\ f.i = i => \E g \in new : g.at = at /\ g.i = i
  PROVE  Has(stack'[u], at, i)
<1>1. PICK f \in Frames(stack[u]) : f.at = at /\ f.i = i
  BY DEF Has
<1>2. CASE u # t
  BY <1>1, <1>2 DEF Move, Has
<1>3. CASE u = t
  <2>1. f \in gone \/ f \in Frames(stack'[t])
    BY <1>1, <1>3 DEF Move
  <2>2. CASE f \in Frames(stack'[t])
    BY <1>1, <1>3, <2>2 DEF Has
  <2>3. CASE f \in gone
    <3>1. PICK g \in new : g.at = at /\ g.i = i
      BY <1>1, <2>3
    <3>2. g \in Frames(stack'[t])
      BY <3>1 DEF Move
    <3>3. QED
      BY <1>3, <3>1, <3>2 DEF Has
  <2>4. QED
    BY <2>1, <2>2, <2>3
<1>4. QED
  BY <1>2, <1>3

(* A frame of the next state is one of this state's or new. *)
LEMMA FrameFrom ==
  ASSUME NEW t \in Threads, NEW gone, NEW new, Move(t, gone, new), NEW u \in Threads, NEW f \in Frames(stack'[u])
  PROVE  f \in Frames(stack[u]) \/ (u = t /\ f \in new)
BY DEF Move

-----------------------------------------------------------------------------
(* What steps leave alone. *)

(* A gone frame at this point is replaced by one like it. *)
Spares(gone, new, at) == \A f \in gone : f.at = at => \E g \in new : g.at = at /\ g.i = f.i

LEMMA SourceKept ==
  ASSUME Typed, SourceInv, NEW t \in Threads, NEW gone, NEW new, Move(t, gone, new), Spares(gone, new, "drain"),
         UNCHANGED <<drainer, pending>>
  PROVE  SourceInv'
<1>1. ASSUME drainer # NoThread
      PROVE  Has(stack'[drainer], "drain", 0)
  <2>1. drainer \in Threads /\ Has(stack[drainer], "drain", 0)
    BY <1>1 DEF Typed, SourceInv
  <2>2. \A f \in gone : f.at = "drain" /\ f.i = 0 => \E g \in new : g.at = "drain" /\ g.i = 0
    BY DEF Spares
  <2>3. QED
    BY <2>1, <2>2, HasKept
<1>2. QED
  BY <1>1 DEF SourceInv

LEMMA DeliveryKept ==
  ASSUME Typed, DeliveryInv, NEW t \in Threads, NEW gone, NEW new, Move(t, gone, new), Spares(gone, new, "flush"),
         UNCHANGED <<deliveries, delivering>>
  PROVE  DeliveryInv'
<1>1. ASSUME delivering
      PROVE  \E u \in Threads : Has(stack'[u], "flush", 0)
  <2>1. PICK u \in Threads : Has(stack[u], "flush", 0)
    BY <1>1 DEF DeliveryInv
  <2>2. \A f \in gone : f.at = "flush" /\ f.i = 0 => \E g \in new : g.at = "flush" /\ g.i = 0
    BY DEF Spares
  <2>3. Has(stack'[u], "flush", 0)
    BY <2>1, <2>2, HasKept
  <2>4. QED
    BY <2>3
<1>2. QED
  BY <1>1 DEF DeliveryInv

LEMMA OwnerKept ==
  ASSUME Typed, BufferInv, NEW t \in Threads, NEW gone, NEW new, Move(t, gone, new), Spares(gone, new, "drainSub"),
         NEW i \in Revisions, sub[i].owner # NoThread
  PROVE  Has(stack'[sub[i].owner], "drainSub", i)
<1>1. sub[i].owner \in Threads /\ Has(stack[sub[i].owner], "drainSub", i)
  BY DEF Typed, BufferInv, Subscriber
<1>2. \A f \in gone : f.at = "drainSub" /\ f.i = i => \E g \in new : g.at = "drainSub" /\ g.i = i
  BY DEF Spares
<1>3. QED
  BY <1>1, <1>2, HasKept

LEMMA BufferKept ==
  ASSUME Typed, BufferInv, NEW t \in Threads, NEW gone, NEW new, Move(t, gone, new), Spares(gone, new, "drainSub"),
         UNCHANGED sub
  PROVE  BufferInv'
<1>1. \A i \in Revisions : sub[i].owner # NoThread => Has(stack'[sub[i].owner], "drainSub", i)
  BY OwnerKept
<1>2. QED
  BY <1>1 DEF BufferInv

(* The rest of the replica's and the snapshot's invariants. *)
LEMMA ValuesKept ==
  ASSUME Typed, ClearInv, HoldsItsLabel, UNCHANGED <<replica, cleared, revision>>
  PROVE  ClearInv' /\ HoldsItsLabel'
BY DEF ClearInv, NoResurrection, HoldsItsLabel, IsCold, Cold

LEMMA ClearedKept ==
  ASSUME Typed, ClearInv, Cleared, UNCHANGED <<cleared, revision>>
  PROVE  ClearInv' /\ HoldsItsLabel'
<1>1. replica' = Cold /\ Cold.seq = 0 /\ Cold.value = 0
  BY DEF Cleared, Cold
<1>2. QED
  BY <1>1 DEF ClearInv, NoResurrection, HoldsItsLabel, IsCold, Cold

-----------------------------------------------------------------------------
(* Where the rebinder and the starter are. *)

LEMMA PlacesTyped ==
  ASSUME NEW s \in Seq(Frame)
  PROVE  /\ Places(s) \in Seq(Points) /\ DOMAIN Places(s) = DOMAIN s /\ Len(Places(s)) = Len(s)
         /\ \A k \in DOMAIN s : Places(s)[k] = s[k].at
<1>1. Len(s) \in Nat /\ DOMAIN s = 1..Len(s) /\ \A k \in 1..Len(s) : s[k] \in Frame
  BY LenProperties, ElementOfSeq
<1>2. \A k \in 1..Len(s) : s[k].at \in Points
  BY <1>1 DEF Frame
<1>3. Places(s) = [k \in 1..Len(s) |-> s[k].at]
  BY <1>1 DEF Places
<1>4. Places(s) \in Seq(Points) /\ Len(Places(s)) = Len(s)
  <2>1. \A k \in 1..Len(s) : Places(s)[k] \in Points
    BY <1>2, <1>3
  <2>2. Places(s) \in [1..Len(s) -> Points]
    BY <1>2, <1>3
  <2>3. QED
    BY <1>1, <2>2
<1>5. QED
  BY <1>1, <1>3, <1>4

LEMMA PlacesOfThen ==
  ASSUME NEW t \in Threads, stack \in [Threads -> Seq(Frame)], ~Idle(t), NEW frames \in Seq(Frame), Then(t, frames)
  PROVE  /\ Places(stack[t]) # <<>> /\ Head(Places(stack[t])) = Top(t).at
         /\ Places(stack'[t]) = Places(frames) \o Tail(Places(stack[t]))
         /\ \A u \in Threads : u # t => stack'[u] = stack[u]
<1> DEFINE s == stack[t]
<1>1. s \in Seq(Frame) /\ s # <<>> /\ stack'[t] = frames \o Tail(s) /\ \A u \in Threads : u # t => stack'[u] = stack[u]
  BY DEF Idle, Then
<1>2. /\ Tail(s) \in Seq(Frame) /\ Head(s) = s[1] /\ Len(s) \in Nat \ {0} /\ Len(Tail(s)) = Len(s) - 1
      /\ DOMAIN s = 1..Len(s) /\ DOMAIN Tail(s) = 1..(Len(s) - 1)
      /\ \A k \in 1..(Len(s) - 1) : Tail(s)[k] = s[k + 1]
  BY <1>1, HeadTailProperties, EmptySeq, LenProperties
<1>3. PICK b \in Seq(Frame) : b = Tail(s)
  BY <1>2
<1>4. /\ Places(s) \in Seq(Points) /\ DOMAIN Places(s) = 1..Len(s) /\ Len(Places(s)) = Len(s)
      /\ \A k \in 1..Len(s) : Places(s)[k] = s[k].at
  BY <1>1, <1>2, PlacesTyped
<1>5. /\ Places(s) # <<>> /\ Tail(Places(s)) \in Seq(Points) /\ Head(Places(s)) = Places(s)[1]
      /\ Len(Tail(Places(s))) = Len(s) - 1 /\ DOMAIN Tail(Places(s)) = 1..(Len(s) - 1)
      /\ \A k \in 1..(Len(s) - 1) : Tail(Places(s))[k] = s[k + 1].at
  <2>1. Places(s) # <<>>
    BY <1>2, <1>4, EmptySeq
  <2>2. /\ Tail(Places(s)) \in Seq(Points) /\ Head(Places(s)) = Places(s)[1] /\ Len(Tail(Places(s))) = Len(s) - 1
        /\ DOMAIN Tail(Places(s)) = 1..(Len(s) - 1)
        /\ \A k \in 1..(Len(s) - 1) : Tail(Places(s))[k] = Places(s)[k + 1]
    BY <1>4, <2>1, HeadTailProperties, LenProperties
  <2>3. \A k \in 1..(Len(s) - 1) : k + 1 \in 1..Len(s)
    BY <1>2
  <2>4. QED
    BY <1>4, <2>1, <2>2, <2>3
<1>6. Head(Places(s)) = Top(t).at
  BY <1>2, <1>4, <1>5 DEF Top
<1>7. Places(frames \o b) = Places(frames) \o Tail(Places(s))
  <2>1. /\ frames \o b \in Seq(Frame) /\ Len(frames) \in Nat /\ Len(b) = Len(s) - 1 /\ DOMAIN frames = 1..Len(frames)
        /\ Len(frames \o b) = Len(frames) + Len(b) /\ DOMAIN (frames \o b) = 1..(Len(frames) + Len(b))
        /\ \A k \in 1..(Len(frames) + Len(b)) : (frames \o b)[k] = IF k <= Len(frames) THEN frames[k] ELSE b[k - Len(frames)]
    BY <1>2, <1>3, ConcatProperties, LenProperties
  <2>2. /\ Places(frames \o b) \in Seq(Points) /\ Len(Places(frames \o b)) = Len(frames) + Len(b)
        /\ \A k \in 1..(Len(frames) + Len(b)) : Places(frames \o b)[k] = (frames \o b)[k].at
    <3>1. PICK c \in Seq(Frame) : c = frames \o b
      BY <2>1
    <3>2. QED
      BY <2>1, <3>1, PlacesTyped
  <2>3. /\ Places(frames) \in Seq(Points) /\ Len(Places(frames)) = Len(frames)
        /\ \A k \in 1..Len(frames) : Places(frames)[k] = frames[k].at
    BY <2>1, PlacesTyped
  <2>4. PICK d \in Seq(Points) : d = Tail(Places(s))
    BY <1>5
  <2>5. /\ Places(frames) \o d \in Seq(Points) /\ Len(Places(frames) \o d) = Len(frames) + Len(b)
        /\ \A k \in 1..(Len(frames) + Len(b)) :
             (Places(frames) \o d)[k] = IF k <= Len(frames) THEN Places(frames)[k] ELSE d[k - Len(frames)]
    <3>1. PICK e \in Seq(Points) : e = Places(frames)
      BY <2>3
    <3>2. Len(d) = Len(b) /\ Len(e) = Len(frames)
      BY <1>5, <2>1, <2>3, <2>4, <3>1
    <3>3. /\ e \o d \in Seq(Points) /\ Len(e \o d) = Len(e) + Len(d)
          /\ \A k \in 1..(Len(e) + Len(d)) : (e \o d)[k] = IF k <= Len(e) THEN e[k] ELSE d[k - Len(e)]
      BY ConcatProperties
    <3>4. QED
      BY <3>1, <3>2, <3>3, Zenon
  <2>6. ASSUME NEW k \in 1..(Len(frames) + Len(b))
        PROVE  Places(frames \o b)[k] = (Places(frames) \o d)[k]
    <3>1. CASE k <= Len(frames)
      <4>1. k \in 1..Len(frames)
        BY <2>1, <3>1
      <4>2. QED
        BY <2>1, <2>2, <2>3, <2>5, <3>1, <4>1
    <3>2. CASE ~(k <= Len(frames))
      <4>1. k - Len(frames) \in 1..(Len(s) - 1)
        BY <1>2, <2>1, <3>2
      <4>2. b[k - Len(frames)] = s[(k - Len(frames)) + 1]
        BY <1>2, <1>3, <4>1
      <4>3. d[k - Len(frames)] = s[(k - Len(frames)) + 1].at
        BY <1>5, <2>4, <4>1
      <4>4. QED
        BY <2>1, <2>2, <2>5, <3>2, <4>2, <4>3
    <3>3. QED
      BY <3>1, <3>2
  <2>7. Places(frames \o b) = Places(frames) \o d
    <3>1. PICK x \in Seq(Points) : x = Places(frames \o b)
      BY <2>2
    <3>2. PICK y \in Seq(Points) : y = Places(frames) \o d
      BY <2>5
    <3>3. Len(x) = Len(y) /\ \A k \in 1..Len(x) : x[k] = y[k]
      BY <2>1, <2>2, <2>5, <2>6, <3>1, <3>2
    <3>4. x = y
      BY <3>3, SeqEqual
    <3>5. QED
      BY <3>1, <3>2, <3>4
  <2>8. QED
    BY <2>4, <2>7
<1>8. QED
  BY <1>1, <1>3, <1>5, <1>6, <1>7

AllPlaces == Stopped \union Stopping \union {<<>>, <<"await">>}

LEMMA RebinderPlaces ==
  \A p \in AllPlaces : \A k \in DOMAIN p : p[k] \in RebindPoints \union ClosePoints
BY DEF AllPlaces, Stopped, Stopping, RebindPoints, ClosePoints

LEMMA RebinderFrames ==
  ASSUME Typed, RebindInv
  PROVE  \A f \in Frames(stack[Rebinder]) : f.at \in RebindPoints \union ClosePoints
<1>1. stack[Rebinder] \in Seq(Frame)
  BY DEF Typed, Threads
<1>2. \A k \in DOMAIN stack[Rebinder] : stack[Rebinder][k].at \in RebindPoints \union ClosePoints
  BY <1>1, PlacesTyped, RebinderPlaces DEF RebindInv, AllPlaces
<1>3. QED
  BY <1>2 DEF Frames

LEMMA NotRebinder ==
  ASSUME Typed, RebindInv, NEW t \in Threads, ~Idle(t), Top(t).at \in Plain \union StarterPoints
  PROVE  t # Rebinder
<1>1. Top(t) \in Frames(stack[t])
  BY TopTyped DEF Typed
<1>2. QED
  BY <1>1, RebinderFrames DEF Plain, StarterPoints, StartPoints, RebindPoints, ClosePoints

LEMMA TopOfPlaces ==
  ASSUME Typed, NEW t \in Threads, ~Idle(t)
  PROVE  Places(stack[t]) # <<>> /\ Places(stack[t])[1] = Top(t).at
<1>1. stack[t] \in Seq(Frame) /\ stack[t] # <<>>
  BY DEF Typed, Idle
<1>2. Len(stack[t]) \in Nat \ {0} /\ DOMAIN stack[t] = 1..Len(stack[t])
  BY <1>1, LenProperties, EmptySeq
<1>3. 1 \in DOMAIN stack[t] /\ DOMAIN <<>> = {}
  BY <1>2
<1>4. Top(t) = stack[t][1]
  BY TopTyped DEF Typed
<1>5. DOMAIN Places(stack[t]) = DOMAIN stack[t] /\ Places(stack[t])[1] = stack[t][1].at
  BY <1>1, <1>3, PlacesTyped
<1>6. QED
  BY <1>3, <1>4, <1>5

(* Steps that are neither the rebinder's nor the start's before its snapshot. *)
LEMMA StructureKept ==
  ASSUME Typed, RebindInv, StartInv, NEW t \in Threads, t # Rebinder,
         NEW gone, NEW new, Move(t, gone, new), UNCHANGED revision,
         t = Starter => ~Idle(t) /\ Top(t).at \notin StartPoints,
         \A f \in new : \/ f.at \in Plain
                        \/ t = Starter /\ f.at \in (StarterPoints \ StartPoints) \union ClosePoints
  PROVE  RebindInv' /\ StartInv'
<1>1. stack'[Rebinder] = stack[Rebinder] /\ (t # Starter => stack'[Starter] = stack[Starter]) /\ Rebinder \in Threads /\ Starter \in Threads
  BY DEF Move, Threads
<1>2. RebindInv'
  <2>1. Places(stack[Rebinder]) \in Stopped => t # Starter
    BY DEF RebindInv
  <2>2. QED
    BY <1>1, <2>1 DEF RebindInv, Idle, At, Top
<1>3. t = Starter => \A f \in Frames(stack[Starter]) : f.at \notin StartPoints
  <2>1. SUFFICES ASSUME t = Starter, NEW f \in Frames(stack[Starter]), f.at \in StartPoints PROVE FALSE
    OBVIOUS
  <2>2. stack[Starter] = <<f>>
    BY <2>1 DEF StartInv
  <2>3. Top(Starter) = f
    BY <2>2 DEF Top
  <2>4. QED
    BY <2>1, <2>3
<1>4. ASSUME NEW u \in Threads, NEW f \in Frames(stack'[u])
      PROVE  (f.at \in StarterPoints => u = Starter) /\ (f.at \in ClosePoints => u \in {Starter, Rebinder})
  <2>1. f \in Frames(stack[u]) \/ (u = t /\ f \in new)
    BY <1>4, FrameFrom
  <2>2. QED
    BY <2>1 DEF StartInv, Plain, StarterPoints, StartPoints, ClosePoints
<1>5. ASSUME NEW f \in Frames(stack'[Starter]), f.at \in StartPoints
      PROVE  stack'[Starter] = <<f>>
  <2>1. f \in Frames(stack[Starter]) \/ (Starter = t /\ f \in new)
    BY <1>1, <1>5, FrameFrom
  <2>2. t # Starter
    BY <1>3, <1>5, <2>1 DEF Plain, StarterPoints, StartPoints, ClosePoints
  <2>3. QED
    BY <1>1, <1>5, <2>2 DEF StartInv
<1>6. QED
  BY <1>2, <1>4, <1>5 DEF StartInv

LEMMA SnapKept ==
  ASSUME Typed, SnapInv, NEW t \in Threads, NEW gone, NEW new, Move(t, gone, new), UNCHANGED snap,
         seq' \in Nat, seq <= seq', \A f \in new : f.at # "install"
  PROVE  SnapInv'
<1>1. Starter \in Threads /\ snap.seq \in Nat /\ seq \in Nat
  BY DEF Threads, Typed
<1>2. snap'.seq <= seq'
  BY <1>1 DEF SnapInv
<1>3. ASSUME NEW f \in Frames(stack'[Starter]), f.at = "install"
      PROVE  snap'.seq <= snap'.value
  <2>1. f \in Frames(stack[Starter])
    BY <1>1, <1>3, FrameFrom
  <2>2. QED
    BY <1>3, <2>1 DEF SnapInv
<1>4. QED
  BY <1>2, <1>3 DEF SnapInv

(* The start before its snapshot is installed: the starter's only frame is replaced. *)
LEMMA StartStep ==
  ASSUME Typed, StartInv, NEW t \in Threads, ~Idle(t), Top(t).at \in StartPoints, NEW frames \in Seq(Frame), Then(t, frames)
  PROVE  /\ t = Starter /\ stack[t] = <<Top(t)>> /\ stack'[t] = frames
         /\ Move(t, {Top(t)}, Frames(frames))
<1>1. Top(t) \in Frames(stack[t]) /\ Top(t) \in Frame
  BY TopTyped DEF Typed
<1>2. t = Starter /\ stack[t] = <<Top(t)>>
  BY <1>1 DEF StartInv, StarterPoints
<1>3. stack'[t] = frames
  BY <1>1, <1>2, ReplaceOnly DEF Typed
<1>4. QED
  BY <1>2, <1>3, ReplaceTop DEF Typed

LEMMA StartStructure ==
  ASSUME Typed, RebindInv, StartInv, NEW t \in Threads, ~Idle(t), Top(t).at \in StartPoints, NEW frames \in Seq(Frame),
         Then(t, frames), UNCHANGED revision,
         \A f \in Frames(frames) : f.at \in StartPoints => frames = <<f>>
  PROVE  RebindInv' /\ StartInv'
<1>1. /\ t = Starter /\ stack'[t] = frames /\ Starter # Rebinder /\ Rebinder \in Threads
      /\ Move(t, {Top(t)}, Frames(frames))
  BY StartStep, ServiceReplicationAssumption DEF Threads
<1>2. \A u \in Threads : u # Starter => stack'[u] = stack[u]
  BY <1>1 DEF Move
<1>3. RebindInv'
  BY <1>1, <1>2 DEF RebindInv, Idle, At, Top
<1>4. QED
  BY <1>1, <1>2, <1>3 DEF StartInv

-----------------------------------------------------------------------------
(* Steps that only move frames. *)

Quietly(t, gone, new) ==
  /\ t \in Threads /\ t # Rebinder /\ Move(t, gone, new)
  /\ t = Starter => ~Idle(t) /\ Top(t).at \notin StartPoints
  /\ \A f \in gone : f.at \notin {"drain", "flush", "drainSub"}
  /\ \A f \in new : \/ f.at \in Plain
                    \/ t = Starter /\ f.at \in (StarterPoints \ StartPoints) \union ClosePoints
  /\ revision' = revision

LEMMA QuietStep ==
  ASSUME ReplicationInv, NEW t, NEW gone, NEW new, Quietly(t, gone, new),
         UNCHANGED <<seq, snap>>
  PROVE  /\ stack' \in [Threads -> Seq(Frame)]
         /\ RebindInv' /\ StartInv' /\ SnapInv'
         /\ UNCHANGED <<drainer, pending>> => SourceInv'
         /\ UNCHANGED <<deliveries, delivering>> => DeliveryInv'
         /\ UNCHANGED sub => BufferInv'
<1>1. /\ stack' \in [Threads -> Seq(Frame)] /\ t \in Threads /\ Move(t, gone, new)
      /\ Spares(gone, new, "drain") /\ Spares(gone, new, "flush") /\ Spares(gone, new, "drainSub")
      /\ \A f \in new : f.at # "install"
  BY DEF Quietly, Move, Spares, Plain, StarterPoints, StartPoints, ClosePoints
<1>2. RebindInv' /\ StartInv'
  BY StructureKept DEF Quietly, ReplicationInv
<1>3. SnapInv'
  <2>1. seq' \in Nat /\ seq <= seq'
    BY DEF ReplicationInv, Typed
  <2>2. QED
    BY <1>1, <2>1, SnapKept DEF ReplicationInv
<1>4. UNCHANGED <<drainer, pending>> => SourceInv'
  BY <1>1, SourceKept DEF ReplicationInv
<1>5. UNCHANGED <<deliveries, delivering>> => DeliveryInv'
  BY <1>1, DeliveryKept DEF ReplicationInv
<1>6. UNCHANGED sub => BufferInv'
  BY <1>1, BufferKept DEF ReplicationInv
<1>7. QED
  BY <1>1, <1>2, <1>3, <1>4, <1>5, <1>6

Rest == <<seq, pending, drainer, subscribers, sub, snap, revision, bound, subscription, cleared, replica, deliveries,
          delivering, epoch>>

LEMMA OnlyFrames ==
  ASSUME ReplicationInv, NEW t, NEW gone, NEW new, Quietly(t, gone, new), UNCHANGED Rest
  PROVE  ReplicationInv'
<1>1. /\ UNCHANGED <<seq, snap>> /\ UNCHANGED <<drainer, pending>> /\ UNCHANGED <<deliveries, delivering>> /\ UNCHANGED sub
      /\ UNCHANGED <<replica, cleared, revision>>
  BY DEF Rest
<1>2. /\ stack' \in [Threads -> Seq(Frame)] /\ RebindInv' /\ StartInv' /\ SnapInv'
      /\ SourceInv' /\ DeliveryInv' /\ BufferInv'
  BY <1>1, QuietStep
<1>3. ClearInv' /\ HoldsItsLabel'
  BY <1>1, ValuesKept DEF ReplicationInv
<1>4. Typed'
  BY <1>2 DEF ReplicationInv, Typed, Rest
<1>5. QED
  BY <1>2, <1>3, <1>4 DEF ReplicationInv

LEMMA TopPlain ==
  ASSUME ReplicationInv, NEW t \in Threads, NEW at \in Plain, At(t, at)
  PROVE  /\ t # Rebinder /\ ~Idle(t) /\ Top(t).at = at /\ Top(t).at \notin StartPoints
         /\ stack \in [Threads -> Seq(Frame)]
<1>1. ~Idle(t) /\ Top(t).at = at
  BY DEF At
<1>2. t # Rebinder
  BY <1>1, NotRebinder DEF ReplicationInv
<1>3. QED
  BY <1>1, <1>2 DEF ReplicationInv, Typed, Plain, StartPoints

LEMMA PublisherIdle ==
  ASSUME ReplicationInv, NEW t \in Publishers
  PROVE  t \in Threads /\ t # Rebinder /\ t # Starter /\ stack \in [Threads -> Seq(Frame)]
BY ServiceReplicationAssumption DEF Threads, ReplicationInv, Typed

LEMMA UserReturnStep ==
  ASSUME ReplicationInv, NEW t \in Threads, UserReturn(t)
  PROVE  ReplicationInv'
<1>1. "user" \in Plain /\ At(t, "user") /\ Return(t) /\ UNCHANGED Rest
  BY DEF UserReturn, Plain, Rest, source, provider, binding, state, listener
<1>2. /\ t # Rebinder /\ ~Idle(t) /\ Top(t).at = "user" /\ Top(t).at \notin StartPoints
      /\ stack \in [Threads -> Seq(Frame)]
  BY <1>1, TopPlain
<1>3. Move(t, {Top(t)}, {})
  BY <1>1, <1>2, Popped
<1>4. Quietly(t, {Top(t)}, {})
  BY <1>1, <1>2, <1>3 DEF Quietly, Rest
<1>5. QED
  BY <1>1, <1>4, OnlyFrames

LEMMA DispatchHydrationStep ==
  ASSUME ReplicationInv, NEW t \in Threads, DispatchHydration(t)
  PROVE  ReplicationInv'
<1>1. "hydrate" \in Plain /\ At(t, "hydrate") /\ UNCHANGED Rest
  BY DEF DispatchHydration, Plain, Rest, source, provider, binding, state, listener
<1>2. /\ t # Rebinder /\ ~Idle(t) /\ Top(t).at = "hydrate" /\ Top(t).at \notin StartPoints
      /\ stack \in [Threads -> Seq(Frame)]
  BY <1>1, TopPlain
<1>3. CASE Return(t)
  <2>1. Move(t, {Top(t)}, {})
    BY <1>2, <1>3, Popped
  <2>2. Quietly(t, {Top(t)}, {})
    BY <1>1, <1>2, <2>1 DEF Quietly, Rest
  <2>3. QED
    BY <1>1, <2>2, OnlyFrames
<1>4. CASE Then(t, <<Do("user")>>)
  <2>1. Do("user") \in Frame /\ Do("user").at = "user"
    BY DoTyped DEF Points, Plain
  <2>2. Move(t, {Top(t)}, {Do("user")})
    BY <1>2, <1>4, <2>1, Replaced
  <2>3. Quietly(t, {Top(t)}, {Do("user")})
    BY <1>1, <1>2, <2>1, <2>2 DEF Quietly, Rest, Plain
  <2>4. QED
    BY <1>1, <2>3, OnlyFrames
<1>5. QED
  BY <1>3, <1>4 DEF DispatchHydration

LEMMA DispatchLocalStep ==
  ASSUME ReplicationInv, NEW t \in Threads, DispatchLocal(t)
  PROVE  ReplicationInv'
<1>1. "local" \in Plain /\ At(t, "local") /\ UNCHANGED Rest
  BY DEF DispatchLocal, Plain, Rest, source, provider, binding, state, listener
<1>2. /\ t # Rebinder /\ ~Idle(t) /\ Top(t).at = "local" /\ Top(t).at \notin StartPoints
      /\ stack \in [Threads -> Seq(Frame)]
  BY <1>1, TopPlain
<1>3. CASE Return(t)
  <2>1. Move(t, {Top(t)}, {})
    BY <1>2, <1>3, Popped
  <2>2. Quietly(t, {Top(t)}, {})
    BY <1>1, <1>2, <2>1 DEF Quietly, Rest
  <2>3. QED
    BY <1>1, <2>2, OnlyFrames
<1>4. CASE Then(t, <<Do("user")>>)
  <2>1. Do("user") \in Frame /\ Do("user").at = "user"
    BY DoTyped DEF Points, Plain
  <2>2. Move(t, {Top(t)}, {Do("user")})
    BY <1>2, <1>4, <2>1, Replaced
  <2>3. Quietly(t, {Top(t)}, {Do("user")})
    BY <1>1, <1>2, <2>1, <2>2 DEF Quietly, Rest, Plain
  <2>4. QED
    BY <1>1, <2>3, OnlyFrames
<1>5. QED
  BY <1>3, <1>4 DEF DispatchLocal

LEMMA DispatchSourceStep ==
  ASSUME ReplicationInv, NEW t \in Threads, DispatchSource(t)
  PROVE  ReplicationInv'
<1>1. "source" \in Plain /\ At(t, "source") /\ UNCHANGED Rest
  BY DEF DispatchSource, Plain, Rest, source, provider, binding, state, listener
<1>2. /\ t # Rebinder /\ ~Idle(t) /\ Top(t).at = "source" /\ Top(t).at \notin StartPoints
      /\ stack \in [Threads -> Seq(Frame)]
  BY <1>1, TopPlain
<1>3. CASE instance = "none"
  <2>1. Move(t, {Top(t)}, {})
    BY <1>2, <1>3, Popped DEF DispatchSource, Return
  <2>2. Quietly(t, {Top(t)}, {})
    BY <1>1, <1>2, <2>1 DEF Quietly, Rest
  <2>3. QED
    BY <1>1, <2>2, OnlyFrames
<1>4. CASE instance # "none"
  <2> DEFINE f == F("emit", 0, Top(t).n)
  <2>1. f \in Frame /\ f.at = "emit"
    <3>1. Top(t).n \in Nat /\ "emit" \in Points /\ 0 \in Revisions
      BY <1>2, TopTyped, ZeroTyped DEF Points, Plain
    <3>2. QED
      BY <3>1, FrameTyped
  <2>2. Move(t, {Top(t)}, {f})
    <3>1. Then(t, <<f>>)
      BY <1>4 DEF DispatchSource
    <3>2. QED
      BY <1>2, <2>1, <3>1, Replaced
  <2>3. Quietly(t, {Top(t)}, {f})
    BY <1>1, <1>2, <2>1, <2>2 DEF Quietly, Rest, Plain
  <2>4. QED
    BY <1>1, <2>3, OnlyFrames
<1>5. QED
  BY <1>3, <1>4

LEMMA CheckUpdateStep ==
  ASSUME ReplicationInv, NEW t \in Threads, CheckUpdate(t)
  PROVE  ReplicationInv'
<1>1. "deliver" \in Plain /\ At(t, "deliver") /\ UNCHANGED Rest
  BY DEF CheckUpdate, Plain, Rest, source, provider, binding, state, listener
<1>2. /\ t # Rebinder /\ ~Idle(t) /\ Top(t).at = "deliver" /\ Top(t).at \notin StartPoints
      /\ stack \in [Threads -> Seq(Frame)]
  BY <1>1, TopPlain
<1>3. CASE Superseded(Top(t).i)
  <2>1. Move(t, {Top(t)}, {})
    BY <1>2, <1>3, Popped DEF CheckUpdate, Return
  <2>2. Quietly(t, {Top(t)}, {})
    BY <1>1, <1>2, <2>1 DEF Quietly, Rest
  <2>3. QED
    BY <1>1, <2>2, OnlyFrames
<1>4. CASE ~Superseded(Top(t).i)
  <2> DEFINE at == IF Top(t).n = Unavailable THEN "wipe" ELSE "apply"
             f == F(at, Top(t).i, Top(t).n)
  <2>1. f \in Frame /\ f.at \in {"wipe", "apply"}
    <3>1. Top(t).n \in Nat /\ at \in Points /\ at # "entries" /\ at \in {"wipe", "apply"} /\ Top(t).i \in Revisions
      BY <1>2, TopTyped DEF Points, Plain
    <3>2. QED
      BY <3>1, FrameTyped
  <2>2. Move(t, {Top(t)}, {f})
    <3>1. Then(t, <<f>>)
      BY <1>4 DEF CheckUpdate
    <3>2. QED
      BY <1>2, <2>1, <3>1, Replaced
  <2>3. Quietly(t, {Top(t)}, {f})
    BY <1>1, <1>2, <2>1, <2>2 DEF Quietly, Rest, Plain
  <2>4. QED
    BY <1>1, <2>3, OnlyFrames
<1>5. QED
  BY <1>3, <1>4

LEMMA NextEntryStep ==
  ASSUME ReplicationInv, NEW t \in Threads, NextEntry(t)
  PROVE  ReplicationInv'
<1>1. "entries" \in Plain /\ At(t, "entries") /\ UNCHANGED Rest
  BY DEF NextEntry, Plain, Rest, source, provider, binding, state, listener
<1>2. /\ t # Rebinder /\ ~Idle(t) /\ Top(t).at = "entries" /\ Top(t).at \notin StartPoints
      /\ stack \in [Threads -> Seq(Frame)]
  BY <1>1, TopPlain
<1> DEFINE f == Top(t)
           d == F("deliver", f.i, Head(f.rest))
           e == [f EXCEPT !.rest = Tail(@)]
<1>3. f \in Frame /\ f.rest \in Seq(Nat) /\ f.rest # <<>> /\ f.i \in Revisions /\ Head(f.rest) \in Nat /\ Tail(f.rest) \in Seq(Nat)
      /\ Len(f.rest) \in Nat /\ Len(Tail(f.rest)) = Len(f.rest) - 1
  <2>1. f \in Frame /\ f.rest \in Seq(Nat) /\ f.rest # <<>> /\ f.i \in Revisions
    BY <1>2, TopTyped
  <2>2. QED
    BY <2>1, HeadTailProperties, LenProperties
<1>4. d \in Frame /\ d.at = "deliver"
  BY <1>3, FrameTyped DEF Points, Plain
<1>5. CASE Len(f.rest) = 1
  <2>1. Then(t, <<d>>)
    <3>1. Then(t, <<d>> \o <<>>)
      BY <1>5 DEF NextEntry
    <3>2. <<d>> \o <<>> = <<d>>
      OBVIOUS
    <3>3. QED
      BY <3>1, <3>2
  <2>2. Move(t, {Top(t)}, {d})
    BY <1>2, <1>4, <2>1, Replaced
  <2>3. Quietly(t, {Top(t)}, {d})
    BY <1>1, <1>2, <1>4, <2>2 DEF Quietly, Rest, Plain
  <2>4. QED
    BY <1>1, <2>3, OnlyFrames
<1>6. CASE Len(f.rest) # 1
  <2>1. e \in Frame /\ e.at = "entries"
    <3>1. Len(Tail(f.rest)) # 0
      BY <1>3, <1>6
    <3>2. Tail(f.rest) # <<>>
      BY <1>3, <3>1, EmptySeq
    <3>3. e.rest = Tail(f.rest) /\ e.at = "entries"
      BY <1>2, <1>3 DEF Frame
    <3>4. QED
      BY <1>3, <3>2, <3>3 DEF Frame
  <2>2. Then(t, <<d>> \o <<e>>)
    BY <1>6 DEF NextEntry
  <2>3. Move(t, {Top(t)}, {d, e})
    <3>1. \A a, b \in Seq(Frame) : a \o b \in Seq(Frame) /\ Frames(a \o b) = Frames(a) \union Frames(b)
      BY FramesOfConcat, Zenon
    <3>2. /\ <<d>> \in Seq(Frame) /\ <<e>> \in Seq(Frame)
          /\ Frames(<<d>>) = {d} /\ Frames(<<e>>) = {e}
      <4>1. <<d>> \in Seq(Frame) /\ <<e>> \in Seq(Frame)
        BY <1>4, <2>1
      <4>2. Frames(<<d>>) = {d} /\ Frames(<<e>>) = {e}
        BY FramesOfTuples, Zenon
      <4>3. QED
        BY <4>1, <4>2
    <3>3. <<d>> \o <<e>> \in Seq(Frame) /\ Frames(<<d>> \o <<e>>) = {d} \union {e}
      BY <3>1, <3>2, Zenon
    <3>4. {d} \union {e} = {d, e}
      OBVIOUS
    <3>5. PICK fs \in Seq(Frame) : fs = <<d>> \o <<e>>
      BY <3>3
    <3>6. Move(t, {Top(t)}, Frames(fs))
      BY <1>2, <2>2, <3>5, ReplaceTop
    <3>7. QED
      BY <3>3, <3>4, <3>5, <3>6
  <2>4. Quietly(t, {Top(t)}, {d, e})
    BY <1>1, <1>2, <1>4, <2>1, <2>3 DEF Quietly, Rest, Plain
  <2>5. QED
    BY <1>1, <2>4, OnlyFrames
<1>7. QED
  BY <1>5, <1>6

LEMMA RegisterStep ==
  ASSUME ReplicationInv, NEW t \in Threads, Register(t)
  PROVE  ReplicationInv'
<1>1. "register" \in Plain /\ At(t, "register") /\ Return(t) /\ UNCHANGED Rest
  BY DEF Register, Plain, Rest, source, binding, state, listener
<1>2. /\ t # Rebinder /\ ~Idle(t) /\ Top(t).at = "register" /\ Top(t).at \notin StartPoints
      /\ stack \in [Threads -> Seq(Frame)]
  BY <1>1, TopPlain
<1>3. Move(t, {Top(t)}, {})
  BY <1>1, <1>2, Popped
<1>4. Quietly(t, {Top(t)}, {})
  BY <1>1, <1>2, <1>3 DEF Quietly, Rest
<1>5. QED
  BY <1>1, <1>4, OnlyFrames

(* A publisher's call starts with one frame, or with none. *)
LEMMA PublisherStep ==
  ASSUME ReplicationInv, NEW t \in Publishers, LocalUnsubscribe(t) \/ Withdraw(t) \/ Provide(t)
  PROVE  ReplicationInv'
<1>1. UNCHANGED Rest
  BY DEF LocalUnsubscribe, Withdraw, Provide, Rest, source, provider, binding, state, listener
<1>2. t \in Threads /\ t # Rebinder /\ t # Starter /\ stack \in [Threads -> Seq(Frame)]
  BY PublisherIdle
<1>3. CASE LocalUnsubscribe(t)
  <2>1. Move(t, {}, {})
    BY <1>2, <1>3, Stay DEF LocalUnsubscribe
  <2>2. Quietly(t, {}, {})
    BY <1>1, <1>2, <2>1 DEF Quietly, Rest
  <2>3. QED
    BY <1>1, <2>2, OnlyFrames
<1>4. ASSUME NEW f \in Frame, Idle(t), stack' = [stack EXCEPT ![t] = <<f>>], f.at \in Plain
      PROVE  ReplicationInv'
  <2>1. <<f>> \in Seq(Frame) /\ Frames(<<f>>) = {f}
    BY FramesOfTuples
  <2>2. Move(t, {}, {f})
    BY <1>2, <1>4, <2>1, StartOn
  <2>3. Quietly(t, {}, {f})
    BY <1>1, <1>2, <1>4, <2>2 DEF Quietly, Rest
  <2>4. QED
    BY <1>1, <2>3, OnlyFrames
<1>5. CASE Withdraw(t)
  <2>1. F("emit", 0, Unavailable) \in Frame /\ F("emit", 0, Unavailable).at = "emit"
    BY FrameTyped, ZeroTyped DEF Points, Plain, Unavailable
  <2>2. QED
    BY <1>4, <1>5, <2>1 DEF Withdraw, Plain
<1>6. CASE Provide(t)
  <2>1. Do("register") \in Frame /\ Do("register").at = "register"
    BY DoTyped DEF Points, Plain
  <2>2. QED
    BY <1>4, <1>6, <2>1 DEF Provide, Plain
<1>7. QED
  BY <1>3, <1>5, <1>6

-----------------------------------------------------------------------------
(* Steps of the source, the subscriber's buffer and the replica's listener. *)

LEMMA DispatchTyped ==
  ASSUME NEW d \in Dispatches
  PROVE  /\ Dispatch(d) \in Seq(Frame)
         /\ \A f \in Frames(Dispatch(d)) : f \in Frame /\ f.at \in {"source", "local", "hydrate"}
<1>1. d.n \in Nat /\ 0 \in Revisions
  BY ZeroTyped DEF Dispatches
<1>2. \A at \in {"source", "local", "hydrate"} : F(at, 0, d.n) \in Frame /\ F(at, 0, d.n).at = at
  BY <1>1, FrameTyped DEF Points, Plain
<1>3. /\ Frames(<<F("source", 0, d.n), F("local", 0, d.n)>>) = {F("source", 0, d.n), F("local", 0, d.n)}
      /\ Frames(<<F("hydrate", 0, d.n)>>) = {F("hydrate", 0, d.n)}
  BY FramesOfTuples
<1>4. /\ <<F("source", 0, d.n), F("local", 0, d.n)>> \in Seq(Frame)
      /\ <<F("hydrate", 0, d.n)>> \in Seq(Frame)
  BY <1>2
<1>5. CASE d.kind = "publication"
  <2>1. Dispatch(d) = <<F("source", 0, d.n), F("local", 0, d.n)>>
    BY <1>5 DEF Dispatch
  <2>2. QED
    BY <1>2, <1>3, <1>4, <2>1
<1>6. CASE d.kind # "publication"
  <2>1. Dispatch(d) = <<F("hydrate", 0, d.n)>>
    BY <1>6 DEF Dispatch
  <2>2. QED
    BY <1>2, <1>3, <1>4, <2>1
<1>7. QED
  BY <1>5, <1>6

LEMMA DrainTyped == Do("drain") \in Frame /\ Do("drain").at = "drain" /\ Do("drain").i = 0
BY DoTyped DEF Points, Plain

LEMMA DispatchAndDrain ==
  ASSUME NEW d \in Dispatches
  PROVE  /\ Dispatch(d) \o <<Do("drain")>> \in Seq(Frame)
         /\ Frames(Dispatch(d) \o <<Do("drain")>>) = Frames(Dispatch(d)) \union {Do("drain")}
<1>1. <<Do("drain")>> \in Seq(Frame) /\ Frames(<<Do("drain")>>) = {Do("drain")}
  BY DrainTyped, FramesOfTuples
<1>2. \A a, b \in Seq(Frame) : a \o b \in Seq(Frame) /\ Frames(a \o b) = Frames(a) \union Frames(b)
  BY FramesOfConcat, Zenon
<1>3. Dispatch(d) \in Seq(Frame)
  BY DispatchTyped
<1>4. QED
  BY <1>1, <1>2, <1>3, Zenon

(* A dispatch moves frames of t, and leaves someone to drain. *)
LEMMA RouteStep ==
  ASSUME ReplicationInv, NEW t \in Threads, NEW d \in Dispatches, Route(t, d)
  PROVE  /\ SourceInv' /\ pending' \in Seq(Dispatches) /\ drainer' \in Threads \union {NoThread}
         /\ \E new : /\ Move(t, {}, new)
                     /\ \A f \in new : f.at \in Plain
<1>1. /\ stack \in [Threads -> Seq(Frame)] /\ pending \in Seq(Dispatches) /\ drainer \in Threads \union {NoThread} /\ Typed /\ SourceInv
      /\ NoThread \notin Threads
  BY ServiceReplicationAssumption DEF ReplicationInv, Typed, Threads
<1>2. /\ Dispatch(d) \in Seq(Frame) /\ Dispatch(d) \o <<Do("drain")>> \in Seq(Frame)
      /\ Frames(Dispatch(d) \o <<Do("drain")>>) = Frames(Dispatch(d)) \union {Do("drain")}
      /\ \A f \in Frames(Dispatch(d)) : f.at \in Plain
      /\ Do("drain").at = "drain" /\ Do("drain").i = 0 /\ "drain" \in Plain
  BY DispatchTyped, DispatchAndDrain, DrainTyped DEF Plain
<1>3. CASE drainer = NoThread /\ drainer' = t /\ UNCHANGED pending
           /\ stack' = [stack EXCEPT ![t] = Dispatch(d) \o <<Do("drain")>> \o @]
  <2>1. PICK fs \in Seq(Frame) : fs = Dispatch(d) \o <<Do("drain")>>
    BY <1>2
  <2>2. stack' = [stack EXCEPT ![t] = fs \o @]
    BY <1>3, <2>1
  <2>3. Move(t, {}, Frames(fs))
    BY <1>1, <2>2, PushOn
  <2>4. \A f \in Frames(fs) : f.at \in Plain
    BY <1>2, <2>1
  <2>5. Do("drain") \in Frames(stack'[t])
    BY <1>2, <2>1, <2>3 DEF Move
  <2>6. SourceInv'
    BY <1>1, <1>2, <1>3, <2>5 DEF SourceInv, Has
  <2>7. QED
    BY <1>1, <1>3, <2>3, <2>4, <2>6
<1>4. CASE /\ drainer # NoThread /\ UNCHANGED <<pending, drainer>>
           /\ stack' = [stack EXCEPT ![t] = Dispatch(d) \o @]
  <2>1. Move(t, {}, Frames(Dispatch(d)))
    BY <1>1, <1>2, <1>4, PushOn
  <2>2. Spares({}, Frames(Dispatch(d)), "drain")
    BY DEF Spares
  <2>3. SourceInv'
    BY <1>1, <1>4, <2>1, <2>2, SourceKept
  <2>4. QED
    BY <1>1, <1>2, <1>4, <2>1, <2>3
<1>5. CASE drainer # NoThread /\ UNCHANGED <<stack, drainer>> /\ pending' = Append(pending, d)
  <2>1. Move(t, {}, {})
    BY <1>1, <1>5, Stay
  <2>2. pending' \in Seq(Dispatches)
    BY <1>1, <1>5, AppendProperties
  <2>3. SourceInv'
    BY <1>1, <1>5 DEF SourceInv
  <2>4. QED
    BY <1>1, <1>5, <2>1, <2>2, <2>3
<1>6. QED
  BY <1>3, <1>4, <1>5 DEF Route

LEMMA SourceStep ==
  ASSUME ReplicationInv, NEW t \in Threads, t # Rebinder, t = Starter => At(t, "user"), NEW d \in Dispatches, Route(t, d),
         seq' \in Nat, seq <= seq',
         UNCHANGED <<subscribers, sub, snap, revision, bound, subscription, cleared, replica, deliveries, delivering, epoch>>
  PROVE  ReplicationInv'
<1>1. /\ SourceInv' /\ pending' \in Seq(Dispatches) /\ drainer' \in Threads \union {NoThread}
      /\ \E new : Move(t, {}, new) /\ \A f \in new : f.at \in Plain
  BY RouteStep
<1>2. PICK new : Move(t, {}, new) /\ \A f \in new : f.at \in Plain
  BY <1>1
<1>3. /\ Spares({}, new, "flush") /\ Spares({}, new, "drainSub") /\ stack' \in [Threads -> Seq(Frame)]
      /\ \A f \in new : f.at # "install"
  BY <1>2 DEF Spares, Move, Plain
<1>4. t = Starter => ~Idle(t) /\ Top(t).at \notin StartPoints
  BY DEF At, StartPoints
<1>5. RebindInv' /\ StartInv'
  BY <1>2, <1>4, StructureKept DEF ReplicationInv
<1>6. SnapInv'
  BY <1>2, <1>3, SnapKept DEF ReplicationInv
<1>7. DeliveryInv'
  BY <1>2, <1>3, DeliveryKept DEF ReplicationInv
<1>8. BufferInv'
  BY <1>2, <1>3, BufferKept DEF ReplicationInv
<1>9. ClearInv' /\ HoldsItsLabel'
  BY ValuesKept DEF ReplicationInv
<1>10. Typed'
  BY <1>1, <1>3 DEF ReplicationInv, Typed
<1>11. QED
  BY <1>1, <1>5, <1>6, <1>7, <1>8, <1>9, <1>10 DEF ReplicationInv

LEMMA PublishStep ==
  ASSUME ReplicationInv, NEW t \in Threads, Publish(t)
  PROVE  ReplicationInv'
<1>1. /\ seq \in Nat /\ seq' = seq + 1 /\ Route(t, [kind |-> "publication", n |-> seq + 1])
      /\ UNCHANGED <<subscribers, sub, snap, revision, bound, subscription, cleared, replica, deliveries, delivering, epoch>>
  BY DEF ReplicationInv, Typed, Publish, provider, binding, state, listener
<1>2. [kind |-> "publication", n |-> seq + 1] \in Dispatches /\ seq' \in Nat /\ seq <= seq'
  BY <1>1 DEF Dispatches
<1>3. t # Rebinder /\ (t = Starter => At(t, "user"))
  <2>1. CASE t \in Publishers
    BY <2>1, PublisherIdle
  <2>2. CASE At(t, "user")
    BY <2>2, TopPlain DEF Plain
  <2>3. QED
    BY <2>1, <2>2 DEF Publish
<1>4. QED
  BY <1>1, <1>2, <1>3, SourceStep

LEMMA LocalSubscribeStep ==
  ASSUME ReplicationInv, NEW t \in Publishers, LocalSubscribe(t)
  PROVE  ReplicationInv'
<1>1. /\ seq \in Nat /\ seq' = seq /\ Route(t, [kind |-> "hydration", n |-> seq])
      /\ UNCHANGED <<subscribers, sub, snap, revision, bound, subscription, cleared, replica, deliveries, delivering, epoch>>
  BY DEF ReplicationInv, Typed, LocalSubscribe, provider, binding, state, listener
<1>2. [kind |-> "hydration", n |-> seq] \in Dispatches /\ seq' \in Nat /\ seq <= seq'
  BY <1>1 DEF Dispatches
<1>3. t \in Threads /\ t # Rebinder /\ t # Starter
  BY PublisherIdle
<1>4. QED
  BY <1>1, <1>2, <1>3, SourceStep

LEMMA DrainDispatchesStep ==
  ASSUME ReplicationInv, NEW t \in Threads, DrainDispatches(t)
  PROVE  ReplicationInv'
<1>1. /\ "drain" \in Plain /\ At(t, "drain")
      /\ UNCHANGED <<seq, subscribers, sub, snap, revision, bound, subscription, cleared, replica, deliveries, delivering, epoch>>
  BY DEF DrainDispatches, Plain, provider, binding, state, listener
<1>2. /\ t # Rebinder /\ ~Idle(t) /\ Top(t).at = "drain" /\ Top(t).at \notin StartPoints
      /\ stack \in [Threads -> Seq(Frame)]
  BY <1>1, TopPlain
<1>3. ASSUME NEW new, Move(t, {Top(t)}, new), \A f \in new : f.at \in Plain, SourceInv',
             pending' \in Seq(Dispatches), drainer' \in Threads \union {NoThread}
      PROVE  ReplicationInv'
  <2>1. /\ Spares({Top(t)}, new, "flush") /\ Spares({Top(t)}, new, "drainSub") /\ stack' \in [Threads -> Seq(Frame)]
        /\ \A f \in new : f.at # "install"
    BY <1>2, <1>3 DEF Spares, Move, Plain
  <2>2. RebindInv' /\ StartInv'
    BY <1>1, <1>2, <1>3, StructureKept DEF ReplicationInv
  <2>3. SnapInv'
    BY <1>1, <1>3, <2>1, SnapKept DEF ReplicationInv, Typed
  <2>4. DeliveryInv'
    BY <1>1, <1>3, <2>1, DeliveryKept DEF ReplicationInv
  <2>5. BufferInv'
    BY <1>1, <1>3, <2>1, BufferKept DEF ReplicationInv
  <2>6. ClearInv' /\ HoldsItsLabel'
    BY <1>1, ValuesKept DEF ReplicationInv
  <2>7. Typed'
    BY <1>1, <1>3, <2>1 DEF ReplicationInv, Typed
  <2>8. QED
    BY <1>3, <2>2, <2>3, <2>4, <2>5, <2>6, <2>7 DEF ReplicationInv
<1>4. CASE pending = <<>>
  <2>1. Return(t) /\ drainer' = NoThread /\ pending' = pending
    BY <1>4 DEF DrainDispatches
  <2>2. Move(t, {Top(t)}, {})
    BY <1>2, <2>1, Popped
  <2>3. SourceInv' /\ pending' \in Seq(Dispatches) /\ drainer' \in Threads \union {NoThread}
    BY <1>4, <2>1 DEF SourceInv, ReplicationInv, Typed
  <2>4. QED
    BY <1>3, <2>2, <2>3
<1>5. CASE pending # <<>>
  <2>1. Head(pending) \in Dispatches /\ Tail(pending) \in Seq(Dispatches)
    BY <1>5, HeadTailProperties DEF ReplicationInv, Typed
  <2>2. PICK d \in Dispatches : d = Head(pending)
    BY <2>1
  <2>3. PICK fs \in Seq(Frame) : fs = Dispatch(d) \o <<Do("drain")>>
    BY DispatchAndDrain
  <2>4. Then(t, fs) /\ pending' = Tail(pending) /\ drainer' = drainer
    BY <1>5, <2>2, <2>3 DEF DrainDispatches
  <2>5. Move(t, {Top(t)}, Frames(fs)) /\ Top(t) \in Frame /\ Top(t) \in Frames(stack[t])
    BY <1>2, <2>4, ReplaceTop
  <2>6. /\ Frames(fs) = Frames(Dispatch(d)) \union {Do("drain")}
        /\ \A f \in Frames(fs) : f.at \in Plain
        /\ Do("drain").at = "drain" /\ Do("drain").i = 0
    BY <2>3, DispatchTyped, DispatchAndDrain, DrainTyped DEF Plain
  <2>7. SourceInv'
    <3>1. SourceInv /\ drainer \in Threads \union {NoThread}
      BY DEF ReplicationInv, Typed
    <3>2. drainer # NoThread => Has(stack'[drainer], "drain", 0)
      <4>1. \A f \in {Top(t)} : f.at = "drain" /\ f.i = 0 => \E g \in Frames(fs) : g.at = "drain" /\ g.i = 0
        BY <2>6
      <4>2. QED
        BY <2>5, <3>1, <4>1, HasKept DEF SourceInv
    <3>3. QED
      BY <1>5, <2>4, <3>1, <3>2 DEF SourceInv
  <2>8. QED
    BY <1>3, <2>1, <2>4, <2>5, <2>6, <2>7 DEF ReplicationInv, Typed
<1>6. QED
  BY <1>4, <1>5

(* Frames a step may leave behind, and frames it may not remove. *)
Adds(t, new) ==
  \A f \in new : f.at \in Plain \/ (t = Starter /\ f.at \in (StarterPoints \ StartPoints) \union ClosePoints)
Removes(gone, at) == \E f \in gone : f.at = at

(* The steps that touch the subscribers' buffers. *)
LEMMA BufferStep ==
  ASSUME ReplicationInv, NEW t, t \in Threads, t # Rebinder, t = Starter => ~Idle(t) /\ Top(t).at \notin StartPoints,
         NEW gone, NEW new, Move(t, gone, new),
         ~Removes(gone, "drain"), ~Removes(gone, "flush"), Adds(t, new),
         BufferInv', sub' \in [Revisions -> Subscriber], subscription' \subseteq Revisions, subscribers' \subseteq Revisions,
         UNCHANGED <<seq, pending, drainer, snap, revision, bound, cleared, replica, deliveries, delivering, epoch>>
  PROVE  ReplicationInv'
<1>1. /\ Spares(gone, new, "flush") /\ Spares(gone, new, "drain") /\ stack' \in [Threads -> Seq(Frame)]
      /\ \A f \in new : f.at # "install"
  BY DEF Spares, Move, Adds, Removes, Plain, StarterPoints, StartPoints, ClosePoints
<1>2. RebindInv' /\ StartInv'
  BY StructureKept DEF ReplicationInv, Adds
<1>3. SnapInv'
  BY <1>1, SnapKept DEF ReplicationInv, Typed
<1>4. SourceInv'
  BY <1>1, SourceKept DEF ReplicationInv
<1>5. DeliveryInv'
  BY <1>1, DeliveryKept DEF ReplicationInv
<1>6. ClearInv' /\ HoldsItsLabel'
  BY ValuesKept DEF ReplicationInv
<1>7. Typed'
  BY <1>1 DEF ReplicationInv, Typed
<1>8. QED
  BY <1>2, <1>3, <1>4, <1>5, <1>6, <1>7 DEF ReplicationInv

LEMMA SubTyped ==
  ASSUME ReplicationInv, NEW i \in Revisions
  PROVE  /\ sub \in [Revisions -> Subscriber] /\ sub[i] \in Subscriber
         /\ sub[i].active \in BOOLEAN /\ sub[i].closed \in BOOLEAN
         /\ sub[i].owner \in Threads \union {NoThread} /\ sub[i].buffer \in Seq(Nat)
         /\ NoThread \notin Threads
BY ServiceReplicationAssumption DEF ReplicationInv, Typed, Subscriber, Threads

LEMMA EmitStep ==
  ASSUME ReplicationInv, NEW t \in Threads, Emit(t)
  PROVE  ReplicationInv'
<1>1. /\ "emit" \in Plain /\ At(t, "emit")
      /\ UNCHANGED <<seq, pending, drainer, snap, revision, bound, cleared, replica, deliveries, delivering, epoch>>
      /\ UNCHANGED <<subscribers, subscription>>
  BY DEF Emit, Plain, source, binding, state, listener
<1>2. /\ t # Rebinder /\ ~Idle(t) /\ Top(t).at = "emit" /\ Top(t).at \notin StartPoints
      /\ stack \in [Threads -> Seq(Frame)]
  BY <1>1, TopPlain
<1>3. Top(t).n \in Nat /\ Typed /\ BufferInv /\ subscription \subseteq Revisions /\ subscribers \subseteq Revisions
  BY <1>2, TopTyped DEF ReplicationInv, Typed
<1>4. CASE Return(t) /\ UNCHANGED sub
  <2>1. Move(t, {Top(t)}, {})
    BY <1>2, <1>4, Popped
  <2>2. Quietly(t, {Top(t)}, {})
    BY <1>1, <1>2, <2>1 DEF Quietly
  <2>3. QED
    BY <1>1, <1>4, <2>2, OnlyFrames DEF Rest
<1>5. ASSUME NEW i \in subscribers, ~Skips(i), Buffers(t, i), sub' = [sub EXCEPT ![i].buffer = Append(@, Top(t).n)], Return(t)
      PROVE  ReplicationInv'
  <2>1. i \in Revisions
    BY <1>3
  <2>2. /\ sub \in [Revisions -> Subscriber] /\ sub[i] \in Subscriber /\ NoThread \notin Threads
    BY <2>1, SubTyped
  <2>3. Append(sub[i].buffer, Top(t).n) \in Seq(Nat)
    BY <1>3, <2>1, SubTyped, AppendProperties
  <2>4. /\ sub' \in [Revisions -> Subscriber]
        /\ \A j \in Revisions : /\ sub'[j].owner = sub[j].owner /\ sub'[j].active = sub[j].active
                                /\ j # i => sub'[j] = sub[j]
    BY <1>5, <2>1, <2>2, <2>3 DEF Subscriber
  <2>5. Move(t, {Top(t)}, {})
    BY <1>2, <1>5, Popped
  <2>6. Spares({Top(t)}, {}, "drainSub")
    BY <1>2 DEF Spares
  <2>7. \A j \in Revisions : sub[j].owner # NoThread => Has(stack'[sub[j].owner], "drainSub", j)
    BY <1>3, <2>5, <2>6, OwnerKept
  <2>8. sub[i].active => sub[i].owner # NoThread
    BY <1>5 DEF Buffers
  <2>9. BufferInv'
    <3>1. \A j \in Revisions : sub[j].active /\ sub[j].buffer # <<>> => sub[j].owner # NoThread
      BY <1>3 DEF BufferInv
    <3>2. QED
      BY <2>4, <2>7, <2>8, <3>1 DEF BufferInv
  <2>10. ~Removes({Top(t)}, "drain") /\ ~Removes({Top(t)}, "flush") /\ Adds(t, {})
    BY <1>2 DEF Removes, Adds
  <2>11. QED
    BY <1>1, <1>2, <1>3, <2>4, <2>5, <2>9, <2>10, BufferStep
<1>6. ASSUME NEW i \in subscribers, Then(t, <<F("deliver", i, Top(t).n)>>), UNCHANGED sub
      PROVE  ReplicationInv'
  <2>1. F("deliver", i, Top(t).n) \in Frame /\ F("deliver", i, Top(t).n).at = "deliver"
    BY <1>3, FrameTyped DEF Points, Plain
  <2>2. PICK f \in Frame : f = F("deliver", i, Top(t).n) /\ f.at = "deliver"
    BY <2>1
  <2>3. Move(t, {Top(t)}, {f})
    BY <1>2, <1>6, <2>2, Replaced
  <2>4. Quietly(t, {Top(t)}, {f})
    BY <1>1, <1>2, <2>2, <2>3 DEF Quietly, Plain
  <2>5. QED
    BY <1>1, <1>6, <2>4, OnlyFrames DEF Rest
<1>7. ASSUME NEW i \in subscribers, sub' = [sub EXCEPT ![i].owner = t, ![i].buffer = Append(@, Top(t).n)],
             Then(t, <<F("drainSub", i, 0)>>)
      PROVE  ReplicationInv'
  <2>1. i \in Revisions /\ NoThread \notin Threads
    BY <1>3, ServiceReplicationAssumption DEF Threads
  <2>2. /\ sub \in [Revisions -> Subscriber] /\ sub[i] \in Subscriber
    BY <2>1, SubTyped
  <2>3. Append(sub[i].buffer, Top(t).n) \in Seq(Nat)
    BY <1>3, <2>1, SubTyped, AppendProperties
  <2>4. /\ sub' \in [Revisions -> Subscriber] /\ sub'[i].owner = t
        /\ \A j \in Revisions : j # i => sub'[j] = sub[j]
    BY <1>7, <2>1, <2>2, <2>3 DEF Subscriber
  <2>5. PICK f \in Frame : f = F("drainSub", i, 0) /\ f.at = "drainSub" /\ f.i = i
    BY <2>1, FrameTyped DEF Points, Plain
  <2>6. Move(t, {Top(t)}, {f})
    BY <1>2, <1>7, <2>5, Replaced
  <2>7. Spares({Top(t)}, {f}, "drainSub")
    BY <1>2 DEF Spares
  <2>8. \A j \in Revisions : sub[j].owner # NoThread => Has(stack'[sub[j].owner], "drainSub", j)
    BY <1>3, <2>6, <2>7, OwnerKept
  <2>9. Has(stack'[t], "drainSub", i)
    BY <2>5, <2>6 DEF Has, Move
  <2>10. BufferInv'
    <3>1. \A j \in Revisions : sub[j].active /\ sub[j].buffer # <<>> => sub[j].owner # NoThread
      BY <1>3 DEF BufferInv
    <3>2. QED
      BY <2>1, <2>4, <2>8, <2>9, <3>1 DEF BufferInv
  <2>11. ~Removes({Top(t)}, "drain") /\ ~Removes({Top(t)}, "flush") /\ Adds(t, {f})
    BY <1>2, <2>5 DEF Removes, Adds, Plain
  <2>12. QED
    BY <1>1, <1>2, <1>3, <2>4, <2>6, <2>10, <2>11, BufferStep
<1>8. QED
  BY <1>4, <1>5, <1>6, <1>7 DEF Emit

LEMMA DrainSubscriberStep ==
  ASSUME ReplicationInv, NEW t \in Threads, DrainSubscriber(t)
  PROVE  ReplicationInv'
<1>1. /\ "drainSub" \in Plain /\ At(t, "drainSub")
      /\ UNCHANGED <<seq, pending, drainer, snap, revision, bound, cleared, replica, deliveries, delivering, epoch>>
      /\ UNCHANGED <<subscribers, subscription>>
  BY DEF DrainSubscriber, Plain, source, binding, state, listener
<1>2. /\ t # Rebinder /\ ~Idle(t) /\ Top(t).at = "drainSub" /\ Top(t).at \notin StartPoints
      /\ stack \in [Threads -> Seq(Frame)]
  BY <1>1, TopPlain
<1>3. PICK i \in Revisions : i = Top(t).i
  BY <1>2, TopTyped
<1>4. /\ Top(t) \in Frame /\ Typed /\ BufferInv /\ subscription \subseteq Revisions /\ subscribers \subseteq Revisions
      /\ sub \in [Revisions -> Subscriber] /\ sub[i] \in Subscriber /\ sub[i].buffer \in Seq(Nat)
  BY <1>2, TopTyped, SubTyped DEF ReplicationInv, Typed
<1>5. \A j \in Revisions : sub[j].active /\ sub[j].buffer # <<>> => sub[j].owner # NoThread
  BY <1>4 DEF BufferInv
<1>6. CASE sub[i].buffer = <<>>
  <2>1. sub' = [sub EXCEPT ![i].owner = NoThread] /\ Return(t)
    BY <1>3, <1>6 DEF DrainSubscriber
  <2>2. Move(t, {Top(t)}, {})
    BY <1>2, <2>1, Popped
  <2>3. /\ sub' \in [Revisions -> Subscriber] /\ sub'[i].owner = NoThread /\ sub'[i].buffer = <<>>
        /\ \A j \in Revisions : j # i => sub'[j] = sub[j]
    BY <1>4, <1>6, <2>1 DEF Subscriber
  <2>4. ASSUME NEW j \in Revisions, j # i, sub[j].owner # NoThread PROVE Has(stack'[sub[j].owner], "drainSub", j)
    <3>1. sub[j].owner \in Threads /\ Has(stack[sub[j].owner], "drainSub", j)
      BY <1>4, <2>4, SubTyped DEF BufferInv
    <3>2. \A f \in {Top(t)} : f.at = "drainSub" /\ f.i = j => \E g \in {} : g.at = "drainSub" /\ g.i = j
      BY <1>3, <2>4
    <3>3. QED
      BY <2>2, <3>1, <3>2, HasKept
  <2>5. BufferInv'
    BY <1>5, <2>3, <2>4 DEF BufferInv
  <2>6. ~Removes({Top(t)}, "drain") /\ ~Removes({Top(t)}, "flush") /\ Adds(t, {})
    BY <1>2 DEF Removes, Adds
  <2>7. QED
    BY <1>1, <1>2, <1>4, <2>2, <2>3, <2>5, <2>6, BufferStep
<1>7. CASE sub[i].buffer # <<>>
  <2> DEFINE e == [F("entries", i, 0) EXCEPT !.rest = sub[i].buffer]
  <2>1. sub' = [sub EXCEPT ![i].buffer = <<>>] /\ Then(t, <<e, Top(t)>>)
    BY <1>3, <1>7 DEF DrainSubscriber
  <2>2. e \in Frame /\ e.at = "entries"
    <3>1. e = [at |-> "entries", i |-> i, n |-> 0, rest |-> sub[i].buffer]
      BY DEF F
    <3>2. QED
      BY <1>4, <1>7, <3>1 DEF Frame, Points, Plain
  <2>3. Move(t, {Top(t)}, {e, Top(t)})
    BY <1>2, <1>4, <2>1, <2>2, Replaced2
  <2>4. /\ sub' \in [Revisions -> Subscriber] /\ sub'[i].buffer = <<>>
        /\ \A j \in Revisions : /\ sub'[j].owner = sub[j].owner /\ sub'[j].active = sub[j].active
                                /\ j # i => sub'[j] = sub[j]
    <3>1. <<>> \in Seq(Nat)
      OBVIOUS
    <3>2. QED
      BY <1>4, <2>1, <3>1 DEF Subscriber
  <2>5. Spares({Top(t)}, {e, Top(t)}, "drainSub")
    BY DEF Spares
  <2>6. \A j \in Revisions : sub[j].owner # NoThread => Has(stack'[sub[j].owner], "drainSub", j)
    BY <1>4, <2>3, <2>5, OwnerKept
  <2>7. BufferInv'
    BY <1>5, <2>4, <2>6 DEF BufferInv
  <2>8. ~Removes({Top(t)}, "drain") /\ ~Removes({Top(t)}, "flush") /\ Adds(t, {e, Top(t)})
    BY <1>2, <2>2 DEF Removes, Adds, Plain
  <2>9. QED
    BY <1>1, <1>2, <1>4, <2>3, <2>4, <2>7, <2>8, BufferStep
<1>8. QED
  BY <1>6, <1>7

-----------------------------------------------------------------------------
(* Steps of the replica. *)

LEMMA ReplicaStep ==
  ASSUME ReplicationInv, NEW t, t \in Threads, t # Rebinder, t = Starter => ~Idle(t) /\ Top(t).at \notin StartPoints,
         NEW gone, NEW new, Move(t, gone, new),
         ~Removes(gone, "drain"), ~Removes(gone, "drainSub"), Adds(t, new),
         DeliveryInv', ClearInv', HoldsItsLabel',
         replica' \in [seq: Nat, value: Nat, torn: BOOLEAN, rev: Nat], deliveries' \in Seq(Nat), delivering' \in BOOLEAN, epoch' \in Nat,
         subscription' \subseteq Revisions,
         UNCHANGED <<seq, pending, drainer, subscribers, sub, snap, revision, bound, cleared>>
  PROVE  ReplicationInv'
<1>1. /\ Spares(gone, new, "drainSub") /\ Spares(gone, new, "drain") /\ stack' \in [Threads -> Seq(Frame)]
      /\ \A f \in new : f.at # "install"
  BY DEF Spares, Move, Adds, Removes, Plain, StarterPoints, StartPoints, ClosePoints
<1>2. RebindInv' /\ StartInv'
  BY StructureKept DEF ReplicationInv, Adds
<1>3. SnapInv'
  BY <1>1, SnapKept DEF ReplicationInv, Typed
<1>4. SourceInv'
  BY <1>1, SourceKept DEF ReplicationInv
<1>5. BufferInv'
  BY <1>1, BufferKept DEF ReplicationInv
<1>6. Typed'
  BY <1>1 DEF ReplicationInv, Typed
<1>7. QED
  BY <1>2, <1>3, <1>4, <1>5, <1>6 DEF ReplicationInv

LEMMA ReplicaTyped ==
  ASSUME ReplicationInv
  PROVE  /\ replica \in [seq: Nat, value: Nat, torn: BOOLEAN, rev: Nat] /\ deliveries \in Seq(Nat) /\ delivering \in BOOLEAN
         /\ epoch \in Nat /\ subscription \subseteq Revisions /\ seq \in Nat /\ Cold \in [seq: Nat, value: Nat, torn: BOOLEAN, rev: Nat]
BY ServiceReplicationAssumption DEF ReplicationInv, Typed, Cold

LEMMA WipeStep ==
  ASSUME ReplicationInv, NEW t \in Threads, Wipe(t)
  PROVE  ReplicationInv'
<1>1. /\ "wipe" \in Plain /\ At(t, "wipe") /\ Return(t) /\ Cleared
      /\ UNCHANGED <<seq, pending, drainer, subscribers, sub, snap, revision, bound, cleared>>
      /\ UNCHANGED <<deliveries, delivering>> /\ UNCHANGED subscription
  BY DEF Wipe, Plain, source, provider, binding, listener
<1>2. /\ t # Rebinder /\ ~Idle(t) /\ Top(t).at = "wipe" /\ Top(t).at \notin StartPoints
      /\ stack \in [Threads -> Seq(Frame)]
  BY <1>1, TopPlain
<1>3. Move(t, {Top(t)}, {})
  BY <1>1, <1>2, Popped
<1>4. ClearInv' /\ HoldsItsLabel'
  BY <1>1, ClearedKept DEF ReplicationInv
<1>5. DeliveryInv'
  <2>1. Spares({Top(t)}, {}, "flush")
    BY <1>2 DEF Spares
  <2>2. QED
    BY <1>1, <1>3, <2>1, DeliveryKept DEF ReplicationInv
<1>6. replica' \in [seq: Nat, value: Nat, torn: BOOLEAN, rev: Nat] /\ epoch' \in Nat
  BY <1>1, ReplicaTyped DEF Cleared
<1>7. ~Removes({Top(t)}, "drain") /\ ~Removes({Top(t)}, "drainSub") /\ Adds(t, {})
  BY <1>2 DEF Removes, Adds
<1>8. /\ deliveries' \in Seq(Nat) /\ delivering' \in BOOLEAN /\ subscription' \subseteq Revisions
  BY <1>1, ReplicaTyped
<1>9. QED
  BY <1>1, <1>2, <1>3, <1>4, <1>5, <1>6, <1>7, <1>8, ReplicaStep

LEMMA DeliverStep ==
  ASSUME ReplicationInv, NEW t \in Threads, ~Idle(t), Top(t).at # "flush", NEW next \in Seq(Frame), Deliver(t, next)
  PROVE  /\ DeliveryInv' /\ deliveries' \in Seq(Nat) /\ delivering' \in BOOLEAN
         /\ \E fs \in Seq(Frame) : /\ Then(t, fs) /\ Move(t, {Top(t)}, Frames(fs))
                                   /\ Frames(next) \subseteq Frames(fs)
                                   /\ \A f \in Frames(fs) : f.at = "flush" \/ f \in Frames(next)
<1>1. /\ deliveries' = Append(deliveries, epoch) /\ delivering' = TRUE /\ stack \in [Threads -> Seq(Frame)]
      /\ Then(t, (IF delivering THEN <<>> ELSE <<Do("flush")>>) \o next) /\ DeliveryInv
  BY DEF Deliver, ReplicationInv, Typed
<1>2. deliveries' \in Seq(Nat) /\ delivering' \in BOOLEAN
  BY <1>1, ReplicaTyped, AppendProperties
<1>3. \A a, b \in Seq(Frame) : a \o b \in Seq(Frame) /\ Frames(a \o b) = Frames(a) \union Frames(b)
  BY FramesOfConcat, Zenon
<1>4. Do("flush") \in Frame /\ Do("flush").at = "flush" /\ Do("flush").i = 0
  BY DoTyped DEF Points, Plain
<1>5. CASE delivering
  <2>1. PICK a \in Seq(Frame) : a = <<>> /\ Frames(a) = {}
    <3>1. <<>> \in Seq(Frame)
      BY <1>4
    <3>2. Frames(<<>>) = {}
      BY FramesOfTuples
    <3>3. QED
      BY <3>1, <3>2
  <2>2. PICK fs \in Seq(Frame) : fs = a \o next /\ Frames(fs) = Frames(a) \union Frames(next)
    BY <1>3
  <2>3. Then(t, fs)
    BY <1>1, <1>5, <2>1, <2>2
  <2>4. Move(t, {Top(t)}, Frames(fs))
    BY <1>1, <2>3, ReplaceTop
  <2>5. PICK u \in Threads : Has(stack[u], "flush", 0)
    BY <1>1, <1>5 DEF DeliveryInv
  <2>6. Has(stack'[u], "flush", 0)
    <3>1. PICK gone, new : gone = {Top(t)} /\ new = Frames(fs)
      OBVIOUS
    <3>2. Move(t, gone, new)
      BY <2>4, <3>1
    <3>3. \A f \in gone : f.at = "flush" /\ f.i = 0 => \E g \in new : g.at = "flush" /\ g.i = 0
      BY <3>1
    <3>4. PICK at, i : at = "flush" /\ i = 0
      OBVIOUS
    <3>5. Has(stack[u], at, i) /\ \A f \in gone : f.at = at /\ f.i = i => \E g \in new : g.at = at /\ g.i = i
      BY <2>5, <3>3, <3>4
    <3>6. Has(stack'[u], at, i)
      BY <3>2, <3>5, HasKept
    <3>7. QED
      BY <3>4, <3>6
  <2>7. DeliveryInv'
    BY <1>1, <2>6 DEF DeliveryInv
  <2>8. QED
    BY <1>2, <2>1, <2>2, <2>3, <2>4, <2>7
<1>6. CASE ~delivering
  <2>1. PICK a \in Seq(Frame) : a = <<Do("flush")>> /\ Frames(a) = {Do("flush")}
    <3>1. <<Do("flush")>> \in Seq(Frame)
      BY <1>4
    <3>2. Frames(<<Do("flush")>>) = {Do("flush")}
      BY FramesOfTuples
    <3>3. QED
      BY <3>1, <3>2
  <2>2. PICK fs \in Seq(Frame) : fs = a \o next /\ Frames(fs) = Frames(a) \union Frames(next)
    BY <1>3
  <2>3. Then(t, fs)
    BY <1>1, <1>6, <2>1, <2>2
  <2>4. Move(t, {Top(t)}, Frames(fs))
    BY <1>1, <2>3, ReplaceTop
  <2>5. Do("flush") \in Frames(stack'[t])
    BY <2>1, <2>2, <2>4 DEF Move
  <2>6. DeliveryInv'
    BY <1>1, <1>4, <2>5 DEF DeliveryInv, Has
  <2>7. QED
    BY <1>2, <1>4, <2>1, <2>2, <2>3, <2>4, <2>6
<1>7. QED
  BY <1>5, <1>6

LEMMA ApplyUpdateStep ==
  ASSUME ReplicationInv, NEW t \in Threads, ApplyUpdate(t)
  PROVE  ReplicationInv'
<1>1. /\ "apply" \in Plain /\ At(t, "apply")
      /\ UNCHANGED <<seq, pending, drainer, subscribers, sub, snap, revision, bound, cleared>>
      /\ UNCHANGED subscription
  BY DEF ApplyUpdate, Plain, source, provider, binding
<1>2. /\ t # Rebinder /\ ~Idle(t) /\ Top(t).at = "apply" /\ Top(t).at \notin StartPoints
      /\ stack \in [Threads -> Seq(Frame)]
  BY <1>1, TopPlain
<1>3. /\ replica \in [seq: Nat, value: Nat, torn: BOOLEAN, rev: Nat] /\ deliveries \in Seq(Nat) /\ delivering \in BOOLEAN
      /\ epoch \in Nat /\ subscription \subseteq Revisions /\ Top(t).n \in Nat
  BY <1>2, ReplicaTyped, TopTyped
<1>4. ~Removes({Top(t)}, "drain") /\ ~Removes({Top(t)}, "drainSub") /\ Spares({Top(t)}, {}, "flush") /\ Adds(t, {})
  BY <1>2 DEF Removes, Adds, Spares
<1>5. CASE Return(t) /\ UNCHANGED <<replica, epoch, deliveries, delivering>>
  <2>1. Move(t, {Top(t)}, {})
    BY <1>2, <1>5, Popped
  <2>2. Quietly(t, {Top(t)}, {})
    BY <1>1, <1>2, <2>1 DEF Quietly
  <2>3. QED
    BY <1>1, <1>5, <2>2, OnlyFrames DEF Rest
<1>6. CASE Return(t) /\ Cleared /\ UNCHANGED <<deliveries, delivering>>
  <2>1. Move(t, {Top(t)}, {})
    BY <1>2, <1>6, Popped
  <2>2. ClearInv' /\ HoldsItsLabel'
    BY <1>1, <1>6, ClearedKept DEF ReplicationInv
  <2>3. DeliveryInv'
    BY <1>4, <1>6, <2>1, DeliveryKept DEF ReplicationInv
  <2>4. replica' \in [seq: Nat, value: Nat, torn: BOOLEAN, rev: Nat] /\ epoch' \in Nat
    BY <1>6, ReplicaTyped DEF Cleared
  <2>5. deliveries' \in Seq(Nat) /\ delivering' \in BOOLEAN /\ subscription' \subseteq Revisions
    BY <1>1, <1>3, <1>6
  <2>6. QED
    BY <1>1, <1>2, <1>4, <2>1, <2>2, <2>3, <2>4, <2>5, ReplicaStep
<1>7. ASSUME NEW v \in Applied(replica.value, Top(t).n), ~IsCold, Contiguous(Top(t).n), Deliver(t, <<>>), epoch' = epoch,
             replica' = [replica EXCEPT !.seq = Top(t).n, !.value = v]
      PROVE  ReplicationInv'
  <2>0. v \in Nat /\ (Fits(replica.value, Top(t).n) => v = Top(t).n)
    BY <1>3, ServiceReplicationAssumption DEF Applied, Spoilt
  <2>1. /\ DeliveryInv' /\ deliveries' \in Seq(Nat) /\ delivering' \in BOOLEAN
        /\ \E fs \in Seq(Frame) : /\ Then(t, fs) /\ Move(t, {Top(t)}, Frames(fs))
                                  /\ \A f \in Frames(fs) : f.at = "flush" \/ f \in Frames(<<>>)
    <3>1. <<>> \in Seq(Frame)
      OBVIOUS
    <3>2. QED
      BY <1>2, <1>7, <3>1, DeliverStep
  <2>2. PICK fs \in Seq(Frame) : Move(t, {Top(t)}, Frames(fs)) /\ \A f \in Frames(fs) : f.at = "flush" \/ f \in Frames(<<>>)
    BY <2>1
  <2>3. Adds(t, Frames(fs))
    BY <2>2, FramesOfTuples DEF Adds, Plain
  <2>4. /\ replica' \in [seq: Nat, value: Nat, torn: BOOLEAN, rev: Nat] /\ epoch' \in Nat /\ replica'.rev = replica.rev
        /\ replica'.seq = replica.seq + 1 /\ replica'.value = v /\ replica'.torn = replica.torn /\ Top(t).n = replica.seq + 1
    BY <1>3, <1>7, <2>0 DEF Contiguous
  <2>5. ClearInv'
    BY <1>1, <1>7, <2>4 DEF ReplicationInv, ClearInv, NoResurrection, IsCold
  <2>6. HoldsItsLabel'
    <3>1. ~replica.torn => Fits(replica.value, Top(t).n)
      BY <2>4 DEF ReplicationInv, HoldsItsLabel, Fits
    <3>2. QED
      BY <2>0, <2>4, <3>1 DEF HoldsItsLabel
  <2>7. QED
    BY <1>1, <1>2, <1>3, <1>4, <2>1, <2>2, <2>3, <2>4, <2>5, <2>6, ReplicaStep
<1>8. QED
  BY <1>5, <1>6, <1>7 DEF ApplyUpdate, state, listener

LEMMA FlushStep ==
  ASSUME ReplicationInv, NEW t \in Threads, Flush(t)
  PROVE  ReplicationInv'
<1>1. /\ "flush" \in Plain /\ At(t, "flush")
      /\ UNCHANGED <<seq, pending, drainer, subscribers, sub, snap, revision, bound, cleared>>
      /\ UNCHANGED <<replica, cleared, revision>> /\ UNCHANGED <<epoch, subscription>>
  BY DEF Flush, Plain, source, provider, binding, state
<1>2. /\ t # Rebinder /\ ~Idle(t) /\ Top(t).at = "flush" /\ Top(t).at \notin StartPoints
      /\ stack \in [Threads -> Seq(Frame)] /\ Top(t) \in Frame
  BY <1>1, TopPlain, TopTyped
<1>3. /\ replica' \in [seq: Nat, value: Nat, torn: BOOLEAN, rev: Nat] /\ deliveries \in Seq(Nat) /\ delivering \in BOOLEAN
      /\ epoch' \in Nat /\ subscription' \subseteq Revisions
  BY <1>1, ReplicaTyped
<1>4. ~Removes({Top(t)}, "drain") /\ ~Removes({Top(t)}, "drainSub")
  BY <1>2 DEF Removes
<1>5. ClearInv' /\ HoldsItsLabel'
  BY <1>1, ValuesKept DEF ReplicationInv
<1>6. CASE deliveries' = <<>> /\ delivering' = FALSE /\ Return(t)
  <2>1. Move(t, {Top(t)}, {}) /\ Adds(t, {})
    BY <1>2, <1>6, Popped DEF Adds
  <2>2. deliveries' \in Seq(Nat) /\ delivering' \in BOOLEAN
    <3>1. <<>> \in Seq(Nat)
      OBVIOUS
    <3>2. QED
      BY <1>6, <3>1
  <2>3. DeliveryInv'
    BY <1>6 DEF DeliveryInv
  <2>4. QED
    BY <1>1, <1>2, <1>3, <1>4, <1>5, <2>1, <2>2, <2>3, ReplicaStep
<1>7. ASSUME NEW k \in Fresh, deliveries' = SubSeq(deliveries, k + 1, Len(deliveries)),
             Then(t, <<Do("user"), Top(t)>>), delivering' = delivering
      PROVE  ReplicationInv'
  <2>1. k \in 1..Len(deliveries) /\ Len(deliveries) \in Nat
    BY <1>3, LenProperties DEF Fresh
  <2>2. Do("user") \in Frame /\ Do("user").at = "user"
    BY DoTyped DEF Points, Plain
  <2>3. Move(t, {Top(t)}, {Do("user"), Top(t)})
    BY <1>2, <1>7, <2>2, Replaced2
  <2>4. Adds(t, {Do("user"), Top(t)})
    BY <1>2, <2>2 DEF Adds, Plain
  <2>5. deliveries' \in Seq(Nat) /\ delivering' \in BOOLEAN
    <3>1. \A j \in (k + 1)..Len(deliveries) : deliveries[j] \in Nat
      BY <1>3, <2>1, ElementOfSeq
    <3>2. k + 1 \in 1..(Len(deliveries) + 1) /\ Len(deliveries) \in (k + 1) - 1 .. Len(deliveries)
      BY <2>1
    <3>3. SubSeq(deliveries, k + 1, Len(deliveries)) \in Seq(Nat)
      BY <1>3, <2>1, <3>2, SubSeqProperties
    <3>4. QED
      BY <1>3, <1>7, <3>3
  <2>6. DeliveryInv'
    <3>1. deliveries # <<>>
      BY <2>1
    <3>2. delivering
      BY <3>1 DEF ReplicationInv, DeliveryInv
    <3>3. PICK u \in Threads : Has(stack[u], "flush", 0)
      BY <3>2 DEF ReplicationInv, DeliveryInv
    <3>4. \A f \in {Top(t)} : f.at = "flush" /\ f.i = 0 => \E g \in {Do("user"), Top(t)} : g.at = "flush" /\ g.i = 0
      OBVIOUS
    <3>5. Has(stack'[u], "flush", 0)
      BY <2>3, <3>3, <3>4, HasKept
    <3>6. QED
      BY <1>7, <3>2, <3>5 DEF DeliveryInv
  <2>7. QED
    BY <1>1, <1>2, <1>3, <1>4, <1>5, <2>3, <2>4, <2>5, <2>6, ReplicaStep
<1>8. QED
  BY <1>6, <1>7 DEF Flush

-----------------------------------------------------------------------------
(* Steps of the start. *)

LEMMA TopStarter ==
  ASSUME ReplicationInv, NEW t \in Threads, NEW at \in StarterPoints, At(t, at)
  PROVE  /\ t = Starter /\ t # Rebinder /\ ~Idle(t) /\ Top(t).at = at /\ Top(t).i \in Revisions
         /\ Top(t) \in Frames(stack[t]) /\ Typed /\ stack \in [Threads -> Seq(Frame)]
<1>1. ~Idle(t) /\ Top(t).at = at /\ Typed /\ stack \in [Threads -> Seq(Frame)]
  BY DEF At, ReplicationInv, Typed
<1>2. Top(t) \in Frames(stack[t]) /\ Top(t).i \in Revisions
  BY <1>1, TopTyped
<1>3. t = Starter
  BY <1>1, <1>2 DEF ReplicationInv, StartInv
<1>4. QED
  BY <1>1, <1>2, <1>3, ServiceReplicationAssumption

LEMMA OwnFrame ==
  \A at \in StarterPoints \union ClosePoints, i \in Revisions :
    F(at, i, 0) \in Frame /\ F(at, i, 0).at = at /\ F(at, i, 0).i = i
BY FrameTyped DEF Points, StarterPoints, StartPoints, ClosePoints

LEMMA BeforeSnapshot ==
  ASSUME ReplicationInv, NEW t \in Threads, ~Idle(t), Top(t).at \in StartPoints, NEW frames \in Seq(Frame),
         Then(t, frames), UNCHANGED revision,
         \A f \in Frames(frames) : f.at \in StartPoints => frames = <<f>>
  PROVE  /\ stack' \in [Threads -> Seq(Frame)] /\ RebindInv' /\ StartInv' /\ stack'[Starter] = frames
         /\ UNCHANGED <<drainer, pending>> => SourceInv'
         /\ UNCHANGED <<deliveries, delivering>> => DeliveryInv'
         /\ UNCHANGED sub => BufferInv'
<1>1. /\ t = Starter /\ stack'[t] = frames /\ Move(t, {Top(t)}, Frames(frames)) /\ Typed
      /\ stack' \in [Threads -> Seq(Frame)]
  BY StartStep DEF ReplicationInv, Move
<1>2. RebindInv' /\ StartInv'
  BY StartStructure DEF ReplicationInv
<1>3. Spares({Top(t)}, Frames(frames), "drain") /\ Spares({Top(t)}, Frames(frames), "flush") /\ Spares({Top(t)}, Frames(frames), "drainSub")
  BY DEF Spares, StartPoints
<1>4. UNCHANGED <<drainer, pending>> => SourceInv'
  BY <1>1, <1>3, SourceKept DEF ReplicationInv
<1>5. UNCHANGED <<deliveries, delivering>> => DeliveryInv'
  BY <1>1, <1>3, DeliveryKept DEF ReplicationInv
<1>6. UNCHANGED sub => BufferInv'
  BY <1>1, <1>3, BufferKept DEF ReplicationInv
<1>7. QED
  BY <1>1, <1>2, <1>4, <1>5, <1>6

LEMMA ReadSequenceStep ==
  ASSUME ReplicationInv, NEW t \in Threads, ReadSequence(t)
  PROVE  ReplicationInv'
<1>1. /\ At(t, "subscribe") /\ UNCHANGED <<replica, cleared, revision>> /\ UNCHANGED revision
      /\ UNCHANGED <<drainer, pending>> /\ UNCHANGED <<deliveries, delivering>> /\ UNCHANGED sub
      /\ UNCHANGED <<seq, subscribers, bound, subscription, epoch>>
      /\ "subscribe" \in StarterPoints /\ "subscribe" \in StartPoints
  BY DEF ReadSequence, source, binding, state, listener, StarterPoints, StartPoints
<1>2. /\ t = Starter /\ t # Rebinder /\ ~Idle(t) /\ Top(t).at = "subscribe" /\ Top(t).i \in Revisions
      /\ Top(t) \in Frames(stack[t]) /\ Typed /\ stack \in [Threads -> Seq(Frame)]
  BY <1>1, TopStarter
<1>3. seq \in Nat /\ snap \in [seq: Nat, value: Nat]
  BY <1>2 DEF Typed
<1>4. ASSUME NEW frames \in Seq(Frame), Then(t, frames), \A f \in Frames(frames) : f.at = "value" /\ frames = <<f>>,
             snap' = snap \/ snap' = [snap EXCEPT !.seq = seq]
      PROVE  ReplicationInv'
  <2>1. /\ stack' \in [Threads -> Seq(Frame)] /\ RebindInv' /\ StartInv' /\ stack'[Starter] = frames
        /\ SourceInv' /\ DeliveryInv' /\ BufferInv'
    BY <1>1, <1>2, <1>4, BeforeSnapshot
  <2>2. snap' \in [seq: Nat, value: Nat] /\ snap'.seq <= seq
    BY <1>2, <1>3, <1>4 DEF ReplicationInv, SnapInv
  <2>3. SnapInv'
    BY <1>1, <1>4, <2>1, <2>2 DEF SnapInv
  <2>4. ClearInv' /\ HoldsItsLabel'
    BY <1>1, ValuesKept DEF ReplicationInv
  <2>5. Typed'
    BY <1>1, <1>2, <2>1, <2>2 DEF Typed
  <2>6. QED
    BY <2>1, <2>3, <2>4, <2>5 DEF ReplicationInv
<1>5. CASE Return(t) /\ UNCHANGED <<providerLock, snap>>
  <2>1. <<>> \in Seq(Frame) /\ Frames(<<>>) = {} /\ Then(t, <<>>)
    BY <1>5, FramesOfTuples DEF Return
  <2>2. QED
    BY <1>4, <1>5, <2>1
<1>6. CASE snap' = [snap EXCEPT !.seq = seq] /\ Then(t, <<F("value", Top(t).i, 0)>>)
  <2>1. PICK f \in Frame : f = F("value", Top(t).i, 0) /\ f.at = "value"
    <3>1. "value" \in StarterPoints \union ClosePoints
      BY DEF StarterPoints, StartPoints, ClosePoints
    <3>2. QED
      BY <1>2, <3>1, OwnFrame
  <2>2. <<f>> \in Seq(Frame) /\ Frames(<<f>>) = {f}
    BY FramesOfTuples
  <2>3. QED
    BY <1>4, <1>6, <2>1, <2>2
<1>7. QED
  BY <1>5, <1>6 DEF ReadSequence

LEMMA ReadValueStep ==
  ASSUME ReplicationInv, NEW t \in Threads, ReadValue(t)
  PROVE  ReplicationInv'
<1>1. /\ At(t, "value") /\ UNCHANGED <<replica, cleared, revision>> /\ UNCHANGED revision
      /\ UNCHANGED <<drainer, pending>> /\ UNCHANGED <<deliveries, delivering>> /\ UNCHANGED sub
      /\ UNCHANGED <<seq, bound, subscription, epoch>>
      /\ "value" \in StarterPoints /\ "value" \in StartPoints
  BY DEF ReadValue, source, binding, state, listener, StarterPoints, StartPoints
<1>2. /\ t = Starter /\ t # Rebinder /\ ~Idle(t) /\ Top(t).at = "value" /\ Top(t).i \in Revisions
      /\ Top(t) \in Frames(stack[t]) /\ Typed /\ stack \in [Threads -> Seq(Frame)]
  BY <1>1, TopStarter
<1>3. seq \in Nat /\ snap \in [seq: Nat, value: Nat] /\ snap.seq <= seq /\ subscribers \subseteq Revisions
  BY <1>2 DEF Typed, ReplicationInv, SnapInv
<1> DEFINE at == IF Current(Top(t).i) THEN "install" ELSE "close"
<1>4. PICK f \in Frame : f = F(at, Top(t).i, 0) /\ f.at = at
  <2>1. at \in Points /\ at # "entries"
    BY DEF Points, StarterPoints, StartPoints, ClosePoints
  <2>2. QED
    BY <1>2, <2>1, FrameTyped
<1>5. <<f>> \in Seq(Frame) /\ Frames(<<f>>) = {f} /\ Then(t, <<f>>) /\ subscribers' = subscribers \union {Top(t).i}
  BY <1>4, FramesOfTuples DEF ReadValue
<1>6. /\ stack' \in [Threads -> Seq(Frame)] /\ RebindInv' /\ StartInv' /\ stack'[Starter] = <<f>>
      /\ SourceInv' /\ DeliveryInv' /\ BufferInv'
  BY <1>1, <1>2, <1>5, BeforeSnapshot
<1>7. snap' \in [seq: Nat, value: Nat] /\ snap'.seq <= seq /\ snap'.seq <= snap'.value
  <2>1. snap' = [snap EXCEPT !.value = seq] \/ snap' = NoSnapshot
    BY DEF ReadValue
  <2>2. QED
    BY <1>3, <2>1 DEF NoSnapshot
<1>8. SnapInv'
  BY <1>1, <1>7 DEF SnapInv
<1>9. ClearInv' /\ HoldsItsLabel'
  BY <1>1, ValuesKept DEF ReplicationInv
<1>10. Typed'
  BY <1>1, <1>2, <1>3, <1>5, <1>6, <1>7 DEF Typed
<1>11. QED
  BY <1>6, <1>8, <1>9, <1>10 DEF ReplicationInv

LEMMA InstallStep ==
  ASSUME ReplicationInv, NEW t \in Threads, Install(t)
  PROVE  ReplicationInv'
<1>1. /\ At(t, "install") /\ UNCHANGED revision /\ snap' = NoSnapshot
      /\ UNCHANGED <<drainer, pending>> /\ UNCHANGED sub
      /\ UNCHANGED <<seq, subscribers, bound, subscription, cleared, revision>>
      /\ "install" \in StarterPoints /\ "install" \in StartPoints
  BY DEF Install, source, binding, StarterPoints, StartPoints
<1>2. /\ t = Starter /\ t # Rebinder /\ ~Idle(t) /\ Top(t).at = "install" /\ Top(t).i \in Revisions
      /\ Top(t) \in Frames(stack[t]) /\ Typed /\ stack \in [Threads -> Seq(Frame)]
  BY <1>1, TopStarter
<1>3. seq \in Nat /\ snap \in [seq: Nat, value: Nat] /\ snap.seq <= snap.value /\ revision \in Nat /\ cleared \in Nat /\ cleared <= revision
  BY <1>2, ZeroTyped DEF Typed, ReplicationInv, SnapInv, ClearInv
<1>4. ASSUME NEW frames \in Seq(Frame), Then(t, frames), \A f \in Frames(frames) : f.at \notin StartPoints,
             DeliveryInv', ClearInv', HoldsItsLabel', replica' \in [seq: Nat, value: Nat, torn: BOOLEAN, rev: Nat],
             deliveries' \in Seq(Nat), delivering' \in BOOLEAN, epoch' \in Nat
      PROVE  ReplicationInv'
  <2>1. /\ stack' \in [Threads -> Seq(Frame)] /\ RebindInv' /\ StartInv' /\ stack'[Starter] = frames
        /\ SourceInv' /\ BufferInv'
    BY <1>1, <1>2, <1>4, BeforeSnapshot
  <2>2. SnapInv'
    BY <1>1, <1>3, <1>4, <2>1 DEF SnapInv, NoSnapshot, StartPoints
  <2>3. Typed'
    BY <1>1, <1>2, <1>4, <2>1 DEF Typed, NoSnapshot
  <2>4. QED
    BY <1>4, <2>1, <2>2, <2>3 DEF ReplicationInv
<1>5. CASE Then(t, <<F("close", Top(t).i, 0)>>) /\ UNCHANGED <<state, listener>>
  <2>1. PICK f \in Frame : f = F("close", Top(t).i, 0) /\ f.at = "close"
    <3>1. "close" \in StarterPoints \union ClosePoints
      BY DEF StarterPoints, StartPoints, ClosePoints
    <3>2. QED
      BY <1>2, <3>1, OwnFrame
  <2>2. /\ <<f>> \in Seq(Frame) /\ Frames(<<f>>) = {f} /\ Then(t, <<f>>)
        /\ UNCHANGED <<replica, cleared, revision>> /\ UNCHANGED <<deliveries, delivering>> /\ epoch' = epoch
    BY <1>1, <1>5, <2>1, FramesOfTuples DEF state, listener
  <2>3. DeliveryInv'
    BY <1>1, <1>2, <2>1, <2>2, BeforeSnapshot DEF StartPoints
  <2>4. ClearInv' /\ HoldsItsLabel'
    BY <2>2, ValuesKept DEF ReplicationInv
  <2>5. /\ replica' \in [seq: Nat, value: Nat, torn: BOOLEAN, rev: Nat]
        /\ deliveries' \in Seq(Nat) /\ delivering' \in BOOLEAN /\ epoch' \in Nat
    BY <2>2, ReplicaTyped
  <2>6. \A g \in Frames(<<f>>) : g.at \notin StartPoints
    BY <2>1, <2>2 DEF StartPoints
  <2>7. QED
    BY <1>4, <2>2, <2>3, <2>4, <2>5, <2>6
<1>6. CASE /\ ~Invalidated(Top(t).i)
           /\ replica' = [seq |-> snap.seq, value |-> snap.value, torn |-> snap.value # snap.seq, rev |-> Top(t).i]
           /\ Deliver(t, <<F("activate", Top(t).i, 0)>>) /\ epoch' = epoch
  <2>1. PICK f \in Frame : f = F("activate", Top(t).i, 0) /\ f.at = "activate"
    <3>1. "activate" \in StarterPoints \union ClosePoints
      BY DEF StarterPoints, StartPoints, ClosePoints
    <3>2. QED
      BY <1>2, <3>1, OwnFrame
  <2>2. <<f>> \in Seq(Frame) /\ Frames(<<f>>) = {f} /\ Deliver(t, <<f>>)
    BY <1>6, <2>1, FramesOfTuples
  <2>3. /\ DeliveryInv' /\ deliveries' \in Seq(Nat) /\ delivering' \in BOOLEAN
        /\ \E fs \in Seq(Frame) : Then(t, fs) /\ \A g \in Frames(fs) : g.at = "flush" \/ g \in Frames(<<f>>)
    BY <1>2, <2>2, DeliverStep
  <2>4. PICK fs \in Seq(Frame) : Then(t, fs) /\ \A g \in Frames(fs) : g.at = "flush" \/ g \in Frames(<<f>>)
    BY <2>3
  <2>5. \A g \in Frames(fs) : g.at \notin StartPoints
    BY <2>1, <2>2, <2>4 DEF StartPoints
  <2>6. /\ replica' \in [seq: Nat, value: Nat, torn: BOOLEAN, rev: Nat] /\ epoch' \in Nat
        /\ replica'.seq = snap.seq /\ replica'.value = snap.value /\ replica'.rev = Top(t).i
        /\ replica'.torn = (snap.value # snap.seq)
    <3>1. Top(t).i \in Nat /\ epoch' \in Nat
      BY <1>2, <1>6, ReplicaTyped, ZeroTyped
    <3>2. snap.seq \in Nat /\ snap.value \in Nat /\ (snap.value # snap.seq) \in BOOLEAN
      BY <1>3
    <3>3. QED
      BY <1>6, <3>1, <3>2
  <2>7. ClearInv'
    <3>1. Top(t).i = revision
      BY <1>6 DEF Invalidated, Superseded
    <3>2. QED
      BY <1>1, <1>3, <2>6, <3>1 DEF ClearInv, NoResurrection
  <2>8. HoldsItsLabel'
    BY <1>3, <2>6 DEF HoldsItsLabel
  <2>9. QED
    BY <1>4, <2>3, <2>4, <2>5, <2>6, <2>7, <2>8
<1>7. QED
  BY <1>5, <1>6 DEF Install

LEMMA ActivateStep ==
  ASSUME ReplicationInv, NEW t \in Threads, Activate(t)
  PROVE  ReplicationInv'
<1>1. /\ At(t, "activate") /\ "activate" \in StarterPoints /\ subscription' = {Top(t).i} /\ subscribers' = subscribers
      /\ UNCHANGED <<seq, pending, drainer, snap, revision, bound, cleared, replica, deliveries, delivering, epoch>>
  BY DEF Activate, source, state, listener, StarterPoints
<1>2. /\ t = Starter /\ t # Rebinder /\ ~Idle(t) /\ Top(t).at = "activate" /\ Top(t).i \in Revisions
      /\ Top(t) \in Frames(stack[t]) /\ Typed /\ stack \in [Threads -> Seq(Frame)] /\ Top(t).at \notin StartPoints
  BY <1>1, TopStarter DEF StartPoints
<1>3. PICK r \in Revisions : r = Top(t).i
  BY <1>2
<1>4. /\ subscription' \subseteq Revisions /\ subscribers' \subseteq Revisions
      /\ sub \in [Revisions -> Subscriber] /\ sub[r] \in Subscriber /\ NoThread \notin Threads /\ BufferInv
  BY <1>1, <1>2, SubTyped DEF Typed, ReplicationInv
<1>5. ~Removes({Top(t)}, "drain") /\ ~Removes({Top(t)}, "flush")
  BY <1>2 DEF Removes
<1>6. PICK v \in Frame : v = F("revalidate", r, 0) /\ v.at = "revalidate"
  BY FrameTyped DEF Points, StarterPoints
<1>7. CASE sub[r].closed
  <2>1. Then(t, <<v>>) /\ UNCHANGED sub
    BY <1>3, <1>6, <1>7 DEF Activate
  <2>2. Move(t, {Top(t)}, {v})
    BY <1>2, <2>1, Replaced
  <2>3. Adds(t, {v}) /\ Spares({Top(t)}, {v}, "drainSub")
    BY <1>2, <1>6 DEF Adds, Spares, StarterPoints, StartPoints
  <2>4. BufferInv' /\ sub' \in [Revisions -> Subscriber]
    BY <1>2, <1>4, <2>1, <2>2, <2>3, BufferKept
  <2>5. QED
    BY <1>1, <1>2, <1>4, <1>5, <2>2, <2>3, <2>4, BufferStep
<1>8. CASE ~sub[r].closed
  <2>1. PICK d \in Frame : d = F("drainSub", r, 0) /\ d.at = "drainSub" /\ d.i = r
    BY FrameTyped DEF Points, Plain
  <2>2. PICK p \in Frame : p = F("reap", r, 0) /\ p.at = "reap"
    BY FrameTyped DEF Points, StarterPoints
  <2>3. sub' = [sub EXCEPT ![r].active = TRUE, ![r].owner = t] /\ Then(t, <<d, p, v>>)
    BY <1>3, <1>6, <1>8, <2>1, <2>2 DEF Activate
  <2>4. <<d, p, v>> \in Seq(Frame) /\ Frames(<<d, p, v>>) = {d, p, v}
    BY FramesOfTuples
  <2>5. Move(t, {Top(t)}, {d, p, v})
    BY <1>2, <2>3, <2>4, ReplaceTop
  <2>6. Adds(t, {d, p, v}) /\ Spares({Top(t)}, {d, p, v}, "drainSub")
    BY <1>2, <1>6, <2>1, <2>2 DEF Adds, Spares, StarterPoints, StartPoints, Plain
  <2>7. sub' \in [Revisions -> Subscriber] /\ sub'[r].owner = t /\ \A j \in Revisions : j # r => sub'[j] = sub[j]
    BY <1>4, <2>3 DEF Subscriber
  <2>8. Has(stack'[t], "drainSub", r)
    BY <2>1, <2>5 DEF Move, Has
  <2>9. \A j \in Revisions : sub[j].owner # NoThread => Has(stack'[sub[j].owner], "drainSub", j)
    BY <1>2, <1>4, <2>5, <2>6, OwnerKept
  <2>10. BufferInv'
    <3>1. \A j \in Revisions : sub[j].active /\ sub[j].buffer # <<>> => sub[j].owner # NoThread
      BY <1>4 DEF BufferInv
    <3>2. QED
      BY <1>4, <2>7, <2>8, <2>9, <3>1 DEF BufferInv
  <2>11. QED
    BY <1>1, <1>2, <1>4, <1>5, <2>5, <2>6, <2>7, <2>10, BufferStep
<1>9. QED
  BY <1>7, <1>8

LEMMA ReapStep ==
  ASSUME ReplicationInv, NEW t \in Threads, Reap(t)
  PROVE  ReplicationInv'
<1>1. At(t, "reap") /\ "reap" \in StarterPoints /\ UNCHANGED Rest
  BY DEF Reap, source, provider, binding, state, listener, StarterPoints, Rest
<1>2. /\ t = Starter /\ t # Rebinder /\ ~Idle(t) /\ Top(t).at = "reap" /\ Top(t).i \in Revisions
      /\ stack \in [Threads -> Seq(Frame)] /\ Top(t).at \notin StartPoints
  BY <1>1, TopStarter DEF StartPoints
<1>3. CASE sub[Top(t).i].closed
  <2>1. PICK f \in Frame : f = F("remove", Top(t).i, 0) /\ f.at = "remove"
    <3>1. "remove" \in StarterPoints \union ClosePoints
      BY DEF StarterPoints, StartPoints, ClosePoints
    <3>2. QED
      BY <1>2, <3>1, OwnFrame
  <2>2. Then(t, <<f>>)
    BY <1>3, <2>1 DEF Reap
  <2>3. Move(t, {Top(t)}, {f})
    BY <1>2, <2>2, Replaced
  <2>4. Quietly(t, {Top(t)}, {f})
    BY <1>1, <1>2, <2>1, <2>3 DEF Quietly, Rest, ClosePoints
  <2>5. QED
    BY <1>1, <2>4, OnlyFrames
<1>4. CASE ~sub[Top(t).i].closed
  <2>1. Return(t)
    BY <1>4 DEF Reap, Return
  <2>2. Move(t, {Top(t)}, {})
    BY <1>2, <2>1, Popped
  <2>3. Quietly(t, {Top(t)}, {})
    BY <1>1, <1>2, <2>2 DEF Quietly, Rest
  <2>4. QED
    BY <1>1, <2>3, OnlyFrames
<1>5. QED
  BY <1>3, <1>4

LEMMA RevalidateStep ==
  ASSUME ReplicationInv, NEW t \in Threads, Revalidate(t)
  PROVE  ReplicationInv'
<1>1. /\ At(t, "revalidate") /\ "revalidate" \in StarterPoints
      /\ UNCHANGED <<seq, pending, drainer, subscribers, sub, snap, revision, bound, cleared>>
      /\ UNCHANGED <<deliveries, delivering>>
  BY DEF Revalidate, source, provider, listener, StarterPoints
<1>2. /\ t = Starter /\ t # Rebinder /\ ~Idle(t) /\ Top(t).at = "revalidate" /\ Top(t).i \in Revisions
      /\ stack \in [Threads -> Seq(Frame)] /\ Top(t).at \notin StartPoints
  BY <1>1, TopStarter DEF StartPoints
<1>3. CASE Return(t) /\ UNCHANGED <<subscription, state>>
  <2>1. Move(t, {Top(t)}, {})
    BY <1>2, <1>3, Popped
  <2>2. Quietly(t, {Top(t)}, {}) /\ UNCHANGED Rest
    BY <1>1, <1>2, <1>3, <2>1 DEF Quietly, Rest, state
  <2>3. QED
    BY <2>2, OnlyFrames
<1>4. CASE subscription' = {} /\ Cleared /\ Then(t, <<F("close", Top(t).i, 0)>>)
  <2>1. PICK f \in Frame : f = F("close", Top(t).i, 0) /\ f.at = "close"
    <3>1. "close" \in StarterPoints \union ClosePoints
      BY DEF StarterPoints, StartPoints, ClosePoints
    <3>2. QED
      BY <1>2, <3>1, OwnFrame
  <2>2. Move(t, {Top(t)}, {f})
    BY <1>2, <1>4, <2>1, Replaced
  <2>3. /\ ~Removes({Top(t)}, "drain") /\ ~Removes({Top(t)}, "drainSub") /\ Spares({Top(t)}, {f}, "flush")
        /\ Adds(t, {f})
    BY <1>2, <2>1 DEF Removes, Spares, Adds, ClosePoints
  <2>4. ClearInv' /\ HoldsItsLabel'
    BY <1>1, <1>4, ClearedKept DEF ReplicationInv
  <2>5. DeliveryInv'
    BY <1>1, <2>2, <2>3, DeliveryKept DEF ReplicationInv
  <2>6. /\ replica' \in [seq: Nat, value: Nat, torn: BOOLEAN, rev: Nat] /\ epoch' \in Nat /\ deliveries' \in Seq(Nat)
        /\ delivering' \in BOOLEAN /\ subscription' \subseteq Revisions
    BY <1>1, <1>4, ReplicaTyped DEF Cleared
  <2>7. QED
    BY <1>1, <1>2, <2>2, <2>3, <2>4, <2>5, <2>6, ReplicaStep
<1>5. QED
  BY <1>3, <1>4 DEF Revalidate

-----------------------------------------------------------------------------
(* Steps of the rebinder. *)

(* Where a step may take the rebinder. *)
After(p, q) ==
  /\ q \in AllPlaces
  /\ q # <<>> => q[1] # "bump"
  /\ q \in Stopped => p \in Stopped \/ p[1] = "await"

LEMMA CloseThen ==
  \A a \in {"close", "remove"} :
    /\ <<a>> \o <<>> = <<a>>
    /\ <<a>> \o <<"respawn", "await">> = <<a, "respawn", "await">>
<1> SUFFICES ASSUME NEW a \in {"close", "remove"}
             PROVE  /\ <<a>> \o <<>> = <<a>>
                    /\ <<a>> \o <<"respawn", "await">> = <<a, "respawn", "await">>
  OBVIOUS
<1> DEFINE S == {"close", "remove", "respawn", "await"}
<1>1. <<a>> \in Seq(S) /\ <<>> \in Seq(S) /\ <<"respawn", "await">> \in Seq(S) /\ <<a, "respawn", "await">> \in Seq(S)
  OBVIOUS
<1>2. <<a>> \o <<>> = <<a>>
  BY <1>1, ConcatEmptySeq
<1>3. <<a>> \o <<"respawn", "await">> = <<a, "respawn", "await">>
  <2>1. PICK x \in Seq(S), y \in Seq(S), z \in Seq(S) : x = <<a>> /\ y = <<"respawn", "await">> /\ z = <<a, "respawn", "await">>
    BY <1>1
  <2>2. /\ Len(x) = 1 /\ x[1] = a /\ Len(y) = 2 /\ y[1] = "respawn" /\ y[2] = "await"
        /\ Len(z) = 3 /\ z[1] = a /\ z[2] = "respawn" /\ z[3] = "await"
    BY <2>1
  <2>3. /\ x \o y \in Seq(S) /\ Len(x \o y) = 3
        /\ \A k \in 1..3 : (x \o y)[k] = IF k <= 1 THEN x[k] ELSE y[k - 1]
    <3>1. /\ x \o y \in Seq(S) /\ Len(x \o y) = Len(x) + Len(y)
          /\ \A k \in 1..(Len(x) + Len(y)) : (x \o y)[k] = IF k <= Len(x) THEN x[k] ELSE y[k - Len(x)]
      BY ConcatProperties
    <3>2. QED
      BY <2>2, <3>1
  <2>4. \A k \in 1..3 : (x \o y)[k] = z[k]
    BY <2>2, <2>3
  <2>5. PICK w \in Seq(S) : w = x \o y
    BY <2>3
  <2>6. Len(w) = Len(z) /\ \A k \in 1..Len(w) : w[k] = z[k]
    BY <2>2, <2>3, <2>4, <2>5
  <2>7. w = z
    BY <2>6, SeqEqual
  <2>8. QED
    BY <2>1, <2>5, <2>7
<1>4. QED
  BY <1>2, <1>3

LEMMA PlacesNext ==
  ASSUME NEW p \in AllPlaces, p # <<>>
  PROVE  /\ After(p, Tail(p))
         /\ p[1] = "take" => After(p, <<"close">> \o Tail(p))
         /\ p[1] = "close" => After(p, <<"remove">> \o Tail(p))
         /\ p[1] = "respawn" => p \in Stopped /\ Tail(p) = <<"await">>
<1>1. CASE p = <<"take">>
  <2>1. Tail(p) = <<>>
    BY <1>1
  <2>2. <<"close">> \o Tail(p) = <<"close">>
    BY <2>1, CloseThen
  <2>3. QED
    BY <1>1, <2>1, <2>2 DEF After, AllPlaces, Stopped, Stopping
<1>2. CASE p = <<"take", "respawn", "await">>
  <2>1. Tail(p) = <<"respawn", "await">>
    BY <1>2
  <2>2. <<"close">> \o Tail(p) = <<"close", "respawn", "await">>
    BY <2>1, CloseThen
  <2>3. QED
    BY <1>2, <2>1, <2>2 DEF After, AllPlaces, Stopped, Stopping
<1>3. CASE p = <<"close">>
  <2>1. Tail(p) = <<>>
    BY <1>3
  <2>2. <<"remove">> \o Tail(p) = <<"remove">>
    BY <2>1, CloseThen
  <2>3. QED
    BY <1>3, <2>1, <2>2 DEF After, AllPlaces, Stopped, Stopping
<1>4. CASE p = <<"close", "respawn", "await">>
  <2>1. Tail(p) = <<"respawn", "await">>
    BY <1>4
  <2>2. <<"remove">> \o Tail(p) = <<"remove", "respawn", "await">>
    BY <2>1, CloseThen
  <2>3. QED
    BY <1>4, <2>1, <2>2 DEF After, AllPlaces, Stopped, Stopping
<1>5. CASE p = <<"remove">>
  <2>1. Tail(p) = <<>>
    BY <1>5
  <2>2. QED
    BY <1>5, <2>1 DEF After, AllPlaces, Stopped, Stopping
<1>6. CASE p = <<"remove", "respawn", "await">>
  <2>1. Tail(p) = <<"respawn", "await">>
    BY <1>6
  <2>2. QED
    BY <1>6, <2>1 DEF After, AllPlaces, Stopped, Stopping
<1>7. CASE p = <<"respawn", "await">>
  <2>1. Tail(p) = <<"await">>
    BY <1>7
  <2>2. QED
    BY <1>7, <2>1 DEF After, AllPlaces, Stopped, Stopping
<1>8. CASE p = <<"await">>
  <2>1. Tail(p) = <<>>
    BY <1>8
  <2>2. QED
    BY <1>8, <2>1 DEF After, AllPlaces, Stopped, Stopping
<1>9. CASE p = <<"bump", "clear", "await", "take">>
  <2>1. Tail(p) = <<"clear", "await", "take">>
    BY <1>9
  <2>2. QED
    BY <1>9, <2>1 DEF After, AllPlaces, Stopped, Stopping
<1>10. CASE p = <<"bump", "clear", "await", "take", "respawn", "await">>
  <2>1. Tail(p) = <<"clear", "await", "take", "respawn", "await">>
    BY <1>10
  <2>2. QED
    BY <1>10, <2>1 DEF After, AllPlaces, Stopped, Stopping
<1>11. CASE p = <<"clear", "await", "take">>
  <2>1. Tail(p) = <<"await", "take">>
    BY <1>11
  <2>2. QED
    BY <1>11, <2>1 DEF After, AllPlaces, Stopped, Stopping
<1>12. CASE p = <<"clear", "await", "take", "respawn", "await">>
  <2>1. Tail(p) = <<"await", "take", "respawn", "await">>
    BY <1>12
  <2>2. QED
    BY <1>12, <2>1 DEF After, AllPlaces, Stopped, Stopping
<1>13. CASE p = <<"await", "take">>
  <2>1. Tail(p) = <<"take">>
    BY <1>13
  <2>2. QED
    BY <1>13, <2>1 DEF After, AllPlaces, Stopped, Stopping
<1>14. CASE p = <<"await", "take", "respawn", "await">>
  <2>1. Tail(p) = <<"take", "respawn", "await">>
    BY <1>14
  <2>2. QED
    BY <1>14, <2>1 DEF After, AllPlaces, Stopped, Stopping
<1>15. QED
  BY <1>1, <1>2, <1>3, <1>4, <1>5, <1>6, <1>7, <1>8, <1>9, <1>10, <1>11, <1>12, <1>13, <1>14 DEF AllPlaces, Stopped, Stopping

LEMMA TopRebinder ==
  ASSUME ReplicationInv, NEW at \in Points, At(Rebinder, at)
  PROVE  /\ Rebinder \in Threads /\ Starter \in Threads /\ Rebinder # Starter /\ ~Idle(Rebinder) /\ Top(Rebinder).at = at
         /\ stack \in [Threads -> Seq(Frame)] /\ Typed /\ Top(Rebinder).i \in Revisions
         /\ Top(Rebinder) \in Frames(stack[Rebinder]) /\ Top(Rebinder).at \in RebindPoints \union ClosePoints
         /\ Places(stack[Rebinder]) \in AllPlaces /\ Places(stack[Rebinder]) # <<>>
         /\ Places(stack[Rebinder])[1] = at
<1>1. /\ Rebinder \in Threads /\ Starter \in Threads /\ Rebinder # Starter /\ ~Idle(Rebinder) /\ Top(Rebinder).at = at
      /\ stack \in [Threads -> Seq(Frame)] /\ Typed
  BY ServiceReplicationAssumption DEF Threads, At, ReplicationInv, Typed
<1>2. Top(Rebinder).i \in Revisions /\ Top(Rebinder) \in Frames(stack[Rebinder])
  BY <1>1, TopTyped
<1>3. Top(Rebinder).at \in RebindPoints \union ClosePoints
  BY <1>2, RebinderFrames DEF ReplicationInv
<1>4. Places(stack[Rebinder]) # <<>> /\ Places(stack[Rebinder])[1] = at
  BY <1>1, TopOfPlaces
<1>5. QED
  BY <1>1, <1>2, <1>3, <1>4 DEF ReplicationInv, RebindInv, AllPlaces

LEMMA RebinderStep ==
  ASSUME ReplicationInv, NEW at \in Points, At(Rebinder, at), NEW frames \in Seq(Frame), Then(Rebinder, frames),
         \A f \in Frames(frames) : f.at \in ClosePoints,
         After(Places(stack[Rebinder]), Places(frames) \o Tail(Places(stack[Rebinder]))),
         at = "await" => Idle(Starter)
  PROVE  /\ stack' \in [Threads -> Seq(Frame)] /\ RebindInv' /\ StartInv'
         /\ UNCHANGED <<drainer, pending>> => SourceInv'
         /\ UNCHANGED <<deliveries, delivering>> => DeliveryInv'
         /\ UNCHANGED sub => BufferInv'
         /\ UNCHANGED <<seq, snap>> => SnapInv'
         /\ Move(Rebinder, {Top(Rebinder)}, Frames(frames))
<1>1. /\ Rebinder \in Threads /\ Starter \in Threads /\ Rebinder # Starter /\ ~Idle(Rebinder) /\ Top(Rebinder).at = at
      /\ stack \in [Threads -> Seq(Frame)] /\ Typed
      /\ Top(Rebinder) \in Frames(stack[Rebinder]) /\ Top(Rebinder).at \in RebindPoints \union ClosePoints
      /\ Places(stack[Rebinder]) \in AllPlaces /\ Places(stack[Rebinder]) # <<>>
      /\ Places(stack[Rebinder])[1] = at
  BY TopRebinder
<1>2. Move(Rebinder, {Top(Rebinder)}, Frames(frames))
  BY <1>1, ReplaceTop
<1>3. stack' \in [Threads -> Seq(Frame)] /\ \A u \in Threads : u # Rebinder => stack'[u] = stack[u]
  BY <1>2 DEF Move
<1>4. Places(stack'[Rebinder]) = Places(frames) \o Tail(Places(stack[Rebinder]))
  BY <1>1, PlacesOfThen
<1>5. RebindInv'
  <2>1. Places(stack'[Rebinder]) \in AllPlaces
    BY <1>4 DEF After
  <2>2. Places(stack'[Rebinder]) \in Stopped => stack'[Starter] = <<>>
    <3>1. Places(stack'[Rebinder]) \in Stopped => Places(stack[Rebinder]) \in Stopped \/ at = "await"
      BY <1>1, <1>4 DEF After
    <3>2. QED
      BY <1>1, <1>3, <3>1 DEF ReplicationInv, RebindInv, Idle
  <2>3. ~(stack'[Rebinder] # <<>> /\ Head(stack'[Rebinder]).at = "bump")
    <3>1. SUFFICES ASSUME stack'[Rebinder] # <<>> PROVE Head(stack'[Rebinder]).at # "bump"
      OBVIOUS
    <3>2. PICK s \in Seq(Frame) : s = stack'[Rebinder] /\ s # <<>>
      BY <1>1, <1>3, <3>1
    <3>3. 1 \in DOMAIN s /\ Head(s) = s[1] /\ DOMAIN <<>> = {}
      BY <3>2, HeadTailProperties, EmptySeq, LenProperties
    <3>4. DOMAIN Places(s) = DOMAIN s /\ Places(s)[1] = s[1].at
      BY <3>2, <3>3, PlacesTyped
    <3>5. Places(s) # <<>>
      BY <3>3, <3>4
    <3>6. QED
      BY <1>4, <3>2, <3>3, <3>4, <3>5 DEF After
  <2>4. QED
    BY <2>1, <2>2, <2>3 DEF RebindInv, AllPlaces, At, Idle, Top
<1>6. StartInv'
  <2>1. ASSUME NEW u \in Threads, NEW f \in Frames(stack'[u])
        PROVE  (f.at \in StarterPoints => u = Starter) /\ (f.at \in ClosePoints => u \in {Starter, Rebinder})
    <3>1. f \in Frames(stack[u]) \/ (u = Rebinder /\ f \in Frames(frames))
      BY <1>1, <1>2, <2>1, FrameFrom
    <3>2. QED
      BY <3>1 DEF ReplicationInv, StartInv, StarterPoints, StartPoints, ClosePoints
  <2>2. QED
    BY <1>1, <1>3, <2>1 DEF ReplicationInv, StartInv
<1>7. /\ Spares({Top(Rebinder)}, Frames(frames), "drain") /\ Spares({Top(Rebinder)}, Frames(frames), "flush")
      /\ Spares({Top(Rebinder)}, Frames(frames), "drainSub")
  BY <1>1 DEF Spares, RebindPoints, ClosePoints
<1>8. UNCHANGED <<drainer, pending>> => SourceInv'
  BY <1>1, <1>2, <1>7, SourceKept DEF ReplicationInv
<1>9. UNCHANGED <<deliveries, delivering>> => DeliveryInv'
  BY <1>1, <1>2, <1>7, DeliveryKept DEF ReplicationInv
<1>10. UNCHANGED sub => BufferInv'
  BY <1>1, <1>2, <1>7, BufferKept DEF ReplicationInv
<1>11. UNCHANGED <<seq, snap>> => SnapInv'
  BY <1>1, <1>3 DEF ReplicationInv, SnapInv
<1>12. QED
  BY <1>2, <1>3, <1>5, <1>6, <1>8, <1>9, <1>10, <1>11

LEMMA PlacesOfTuples ==
  /\ Places(<<>>) = <<>>
  /\ \A f : Places(<<f>>) = <<f.at>>
<1>1. Places(<<>>) = <<>>
  BY DEF Places
<1>2. ASSUME NEW f PROVE Places(<<f>>) = <<f.at>>
  <2>1. DOMAIN <<f>> = 1..1 /\ <<f>>[1] = f
    OBVIOUS
  <2>2. Places(<<f>>) = [k \in 1..1 |-> <<f>>[k].at]
    BY <2>1 DEF Places
  <2>3. QED
    BY <2>1, <2>2
<1>3. QED
  BY <1>1, <1>2

(* The rebinder returns from its top frame. *)
LEMMA RebinderReturn ==
  ASSUME ReplicationInv, NEW at \in Points, At(Rebinder, at), Return(Rebinder), at = "await" => Idle(Starter)
  PROVE  /\ stack' \in [Threads -> Seq(Frame)] /\ RebindInv' /\ StartInv'
         /\ UNCHANGED <<drainer, pending>> => SourceInv'
         /\ UNCHANGED <<deliveries, delivering>> => DeliveryInv'
         /\ UNCHANGED sub => BufferInv'
         /\ UNCHANGED <<seq, snap>> => SnapInv'
<1>1. Places(stack[Rebinder]) \in AllPlaces /\ Places(stack[Rebinder]) # <<>>
      /\ stack[Rebinder] \in Seq(Frame) /\ stack \in [Threads -> Seq(Frame)] /\ Rebinder \in Threads
  BY TopRebinder
<1>2. <<>> \in Seq(Frame) /\ Then(Rebinder, <<>>) /\ Frames(<<>>) = {} /\ Places(<<>>) = <<>>
  BY FramesOfTuples, PlacesOfTuples DEF Return
<1>3. Places(<<>>) \o Tail(Places(stack[Rebinder])) = Tail(Places(stack[Rebinder]))
  <2>1. Places(stack[Rebinder]) \in Seq(Points)
    BY <1>1, PlacesTyped
  <2>2. PICK q \in Seq(Points) : q = Tail(Places(stack[Rebinder]))
    BY <1>1, <2>1, HeadTailProperties
  <2>3. <<>> \o q = q
    BY ConcatEmptySeq
  <2>4. QED
    BY <1>2, <2>2, <2>3
<1>4. After(Places(stack[Rebinder]), Places(<<>>) \o Tail(Places(stack[Rebinder])))
  BY <1>1, <1>3, PlacesNext
<1>5. QED
  BY <1>2, <1>4, RebinderStep

(* One frame of a close takes the place of the rebinder's top frame. *)
LEMMA RebinderClose ==
  ASSUME ReplicationInv, NEW at \in Points, At(Rebinder, at), NEW f \in Frame, Then(Rebinder, <<f>>),
         (at = "take" /\ f.at = "close") \/ (at = "close" /\ f.at = "remove")
  PROVE  /\ stack' \in [Threads -> Seq(Frame)] /\ RebindInv' /\ StartInv'
         /\ UNCHANGED <<drainer, pending>> => SourceInv'
         /\ UNCHANGED <<deliveries, delivering>> => DeliveryInv'
         /\ UNCHANGED sub => BufferInv'
         /\ UNCHANGED <<seq, snap>> => SnapInv'
         /\ Move(Rebinder, {Top(Rebinder)}, {f})
<1>1. /\ Places(stack[Rebinder]) \in AllPlaces /\ Places(stack[Rebinder]) # <<>>
      /\ Places(stack[Rebinder])[1] = at
  BY TopRebinder
<1>2. <<f>> \in Seq(Frame) /\ Frames(<<f>>) = {f} /\ Places(<<f>>) = <<f.at>>
  BY FramesOfTuples, PlacesOfTuples
<1>3. After(Places(stack[Rebinder]), Places(<<f>>) \o Tail(Places(stack[Rebinder])))
  BY <1>1, <1>2, PlacesNext
<1>4. \A g \in Frames(<<f>>) : g.at \in ClosePoints
  BY <1>2 DEF ClosePoints
<1>5. at = "await" => Idle(Starter)
  OBVIOUS
<1>6. PICK fs \in Seq(Frame) : fs = <<f>>
  BY <1>2
<1>7. Then(Rebinder, fs) /\ (\A g \in Frames(fs) : g.at \in ClosePoints)
      /\ After(Places(stack[Rebinder]), Places(fs) \o Tail(Places(stack[Rebinder]))) /\ Frames(fs) = {f}
  BY <1>2, <1>3, <1>4, <1>6
<1>8. QED
  BY <1>5, <1>7, RebinderStep

LEMMA CloseStep ==
  ASSUME ReplicationInv, NEW t \in Threads, Close(t)
  PROVE  ReplicationInv'
<1>1. /\ At(t, "close") /\ UNCHANGED <<subscribers, subscription>>
      /\ UNCHANGED <<seq, pending, drainer, snap, revision, bound, cleared, replica, deliveries, delivering, epoch>>
      /\ "close" \in Points /\ "close" \in ClosePoints
  BY DEF Close, source, binding, state, listener, Points, ClosePoints
<1>2. /\ ~Idle(t) /\ Top(t).at = "close" /\ Typed /\ stack \in [Threads -> Seq(Frame)] /\ Top(t).at \notin StartPoints
      /\ BufferInv /\ subscribers \subseteq Revisions /\ subscription \subseteq Revisions
  BY <1>1 DEF At, ReplicationInv, Typed, StartPoints
<1>3. PICK i \in Revisions : i = Top(t).i
  BY <1>2, TopTyped
<1>4. t = Starter \/ t = Rebinder
  BY <1>1, <1>2, TopTyped DEF ReplicationInv, StartInv
<1>5. sub \in [Revisions -> Subscriber] /\ sub[i] \in Subscriber
  BY SubTyped
<1>6. PICK f \in Frame : f = F("remove", i, 0) /\ f.at = "remove"
  BY OwnFrame DEF ClosePoints
<1>0. PICK shut : shut = [sub EXCEPT ![i].closed = TRUE, ![i].buffer = <<>>]
  OBVIOUS
<1>7. ASSUME NEW new, Move(t, {Top(t)}, new), \A g \in new : g.at = "remove",
             sub' = sub \/ sub' = shut
      PROVE  BufferInv' /\ sub' \in [Revisions -> Subscriber]
  <2>1. Spares({Top(t)}, new, "drainSub")
    BY <1>2 DEF Spares
  <2>2. \A j \in Revisions : sub[j].owner # NoThread => Has(stack'[sub[j].owner], "drainSub", j)
    BY <1>2, <1>7, <2>1, OwnerKept
  <2>3. /\ sub' \in [Revisions -> Subscriber]
        /\ \A j \in Revisions : /\ sub'[j].owner = sub[j].owner /\ sub'[j].active = sub[j].active
                                /\ sub'[j].buffer # <<>> => sub[j].buffer # <<>>
    <3>1. <<>> \in Seq(Nat)
      OBVIOUS
    <3>2. CASE sub' = sub
      BY <1>5, <3>2
    <3>3. CASE sub' = [sub EXCEPT ![i].closed = TRUE, ![i].buffer = <<>>]
      <4>1. /\ sub'[i] = [sub[i] EXCEPT !.closed = TRUE, !.buffer = <<>>]
            /\ \A j \in Revisions : j # i => sub'[j] = sub[j]
        BY <1>5, <3>3
      <4>2. /\ sub'[i] \in Subscriber /\ sub'[i].owner = sub[i].owner /\ sub'[i].active = sub[i].active
            /\ sub'[i].buffer = <<>>
        BY <1>5, <3>1, <4>1 DEF Subscriber
      <4>3. sub' \in [Revisions -> Subscriber]
        BY <1>5, <3>3, <4>1, <4>2
      <4>4. QED
        BY <4>1, <4>2, <4>3
    <3>4. QED
      BY <1>0, <1>7, <3>2, <3>3
  <2>4. QED
    BY <1>2, <2>2, <2>3 DEF BufferInv
<1>8. CASE t = Starter
  <2>1. t # Rebinder
    BY <1>8, ServiceReplicationAssumption
  <2>2. ~Removes({Top(t)}, "drain") /\ ~Removes({Top(t)}, "flush") /\ Adds(t, {f}) /\ Adds(t, {})
    BY <1>2, <1>6, <1>8 DEF Removes, Adds, ClosePoints
  <2>3. CASE sub[i].closed
    <3>1. Return(t) /\ UNCHANGED sub
      BY <1>3, <2>3 DEF Close
    <3>2. Move(t, {Top(t)}, {})
      BY <1>2, <3>1, Popped
    <3>3. BufferInv' /\ sub' \in [Revisions -> Subscriber]
      BY <1>7, <3>1, <3>2
    <3>4. QED
      BY <1>1, <1>2, <2>1, <2>2, <3>2, <3>3, BufferStep
  <2>4. CASE ~sub[i].closed
    <3>1. Then(t, <<f>>) /\ sub' = shut
      BY <1>0, <1>3, <1>6, <2>4 DEF Close
    <3>2. Move(t, {Top(t)}, {f})
      BY <1>2, <3>1, Replaced
    <3>3. BufferInv' /\ sub' \in [Revisions -> Subscriber]
      <4>1. \A g \in {f} : g.at = "remove"
        BY <1>6
      <4>2. sub' = sub \/ sub' = shut
        BY <3>1
      <4>3. QED
        BY <1>7, <3>2, <4>1, <4>2
    <3>4. QED
      BY <1>1, <1>2, <2>1, <2>2, <3>2, <3>3, BufferStep
  <2>5. QED
    BY <2>3, <2>4
<1>9. CASE t = Rebinder
  <2>1. ASSUME stack' \in [Threads -> Seq(Frame)], RebindInv', StartInv',
               UNCHANGED <<drainer, pending>> => SourceInv', UNCHANGED <<deliveries, delivering>> => DeliveryInv',
               UNCHANGED <<seq, snap>> => SnapInv', BufferInv', sub' \in [Revisions -> Subscriber]
        PROVE  ReplicationInv'
    <3>1. SourceInv' /\ DeliveryInv' /\ SnapInv'
      BY <1>1, <2>1
    <3>2. ClearInv' /\ HoldsItsLabel'
      BY <1>1, ValuesKept DEF ReplicationInv
    <3>3. Typed'
      BY <1>1, <1>2, <2>1 DEF Typed
    <3>4. QED
      BY <2>1, <3>1, <3>2, <3>3 DEF ReplicationInv
  <2>2. CASE sub[i].closed
    <3>1. Return(t) /\ UNCHANGED sub
      BY <1>3, <2>2 DEF Close
    <3>2. /\ stack' \in [Threads -> Seq(Frame)] /\ RebindInv' /\ StartInv'
          /\ (UNCHANGED <<drainer, pending>> => SourceInv') /\ (UNCHANGED <<deliveries, delivering>> => DeliveryInv')
          /\ (UNCHANGED <<seq, snap>> => SnapInv')
      BY <1>1, <1>9, <3>1, RebinderReturn
    <3>3. Move(t, {Top(t)}, {})
      BY <1>2, <3>1, Popped
    <3>4. QED
      BY <1>7, <2>1, <3>1, <3>2, <3>3
  <2>3. CASE ~sub[i].closed
    <3>1. Then(t, <<f>>) /\ sub' = shut
      BY <1>0, <1>3, <1>6, <2>3 DEF Close
    <3>2. /\ stack' \in [Threads -> Seq(Frame)] /\ RebindInv' /\ StartInv'
          /\ (UNCHANGED <<drainer, pending>> => SourceInv') /\ (UNCHANGED <<deliveries, delivering>> => DeliveryInv')
          /\ (UNCHANGED <<seq, snap>> => SnapInv')
          /\ Move(t, {Top(t)}, {f})
      BY <1>1, <1>6, <1>9, <3>1, RebinderClose
    <3>3. QED
      BY <1>6, <1>7, <2>1, <3>1, <3>2
  <2>4. QED
    BY <2>2, <2>3
<1>10. QED
  BY <1>4, <1>8, <1>9

LEMMA RemoveStep ==
  ASSUME ReplicationInv, NEW t \in Threads, RemoveFromProvider(t)
  PROVE  ReplicationInv'
<1>1. /\ At(t, "remove") /\ Return(t) /\ UNCHANGED subscription /\ subscribers' \subseteq subscribers /\ UNCHANGED sub
      /\ UNCHANGED <<seq, pending, drainer, snap, revision, bound, cleared, replica, deliveries, delivering, epoch>>
      /\ "remove" \in Points /\ "remove" \in ClosePoints
  BY DEF RemoveFromProvider, source, binding, state, listener, Points, ClosePoints
<1>2. /\ ~Idle(t) /\ Top(t).at = "remove" /\ Typed /\ stack \in [Threads -> Seq(Frame)] /\ Top(t).at \notin StartPoints
      /\ subscribers' \subseteq Revisions /\ subscription' \subseteq Revisions /\ sub' \in [Revisions -> Subscriber]
  BY <1>1 DEF At, ReplicationInv, Typed, StartPoints
<1>3. t = Starter \/ t = Rebinder
  BY <1>1, <1>2, TopTyped DEF ReplicationInv, StartInv
<1>4. CASE t = Starter
  <2>1. t # Rebinder
    BY <1>4, ServiceReplicationAssumption
  <2>2. ~Removes({Top(t)}, "drain") /\ ~Removes({Top(t)}, "flush") /\ Adds(t, {}) /\ Spares({Top(t)}, {}, "drainSub")
    BY <1>2 DEF Removes, Adds, Spares
  <2>3. Move(t, {Top(t)}, {})
    BY <1>1, <1>2, Popped
  <2>4. BufferInv'
    BY <1>1, <2>2, <2>3, BufferKept DEF ReplicationInv
  <2>5. QED
    BY <1>1, <1>2, <2>1, <2>2, <2>3, <2>4, BufferStep
<1>5. CASE t = Rebinder
  <2>1. /\ stack' \in [Threads -> Seq(Frame)] /\ RebindInv' /\ StartInv'
        /\ (UNCHANGED <<drainer, pending>> => SourceInv') /\ (UNCHANGED <<deliveries, delivering>> => DeliveryInv')
        /\ (UNCHANGED sub => BufferInv') /\ (UNCHANGED <<seq, snap>> => SnapInv')
    BY <1>1, <1>5, RebinderReturn
  <2>2. SourceInv' /\ DeliveryInv' /\ BufferInv' /\ SnapInv'
    BY <1>1, <2>1
  <2>3. ClearInv' /\ HoldsItsLabel'
    BY <1>1, ValuesKept DEF ReplicationInv
  <2>4. Typed'
    BY <1>1, <1>2, <2>1 DEF Typed
  <2>5. QED
    BY <2>1, <2>2, <2>3, <2>4 DEF ReplicationInv
<1>6. QED
  BY <1>3, <1>4, <1>5

(* What a call of rebind is to do. *)
LEMMA RebindFrames ==
  ASSUME NEW b \in BOOLEAN, Rebind(b)
  PROVE  \E fs \in Seq(Frame) :
           /\ stack' = [stack EXCEPT ![Rebinder] = fs]
           /\ \/ Places(fs) = <<"bump", "clear", "await", "take">> /\ ~b
              \/ Places(fs) = <<"bump", "clear", "await", "take", "respawn", "await">> /\ b
           /\ \A f \in Frames(fs) : f.at \in RebindPoints
<1>0. \A at \in RebindPoints : Do(at) \in Frame /\ Do(at).at = at
  BY DoTyped DEF Points, RebindPoints
<1> DEFINE x == <<Do("bump"), Do("clear"), Do("await"), Do("take")>>
           y == <<Do("respawn"), Do("await")>>
<1>1. x \in Seq(Frame) /\ y \in Seq(Frame) /\ <<>> \in Seq(Frame)
  BY <1>0 DEF RebindPoints
<1>2. PICK u \in Seq(Frame), v \in Seq(Frame) : u = x /\ v = y
  BY <1>1
<1>3. /\ Len(u) = 4 /\ u[1].at = "bump" /\ u[2].at = "clear" /\ u[3].at = "await" /\ u[4].at = "take"
      /\ Len(v) = 2 /\ v[1].at = "respawn" /\ v[2].at = "await"
  BY <1>0, <1>2 DEF RebindPoints
<1>4. CASE ~b
  <2>1. stack' = [stack EXCEPT ![Rebinder] = x \o <<>>]
    BY <1>4 DEF Rebind
  <2>2. u \o <<>> = u
    BY ConcatEmptySeq
  <2>3. stack' = [stack EXCEPT ![Rebinder] = u]
    BY <1>2, <2>1, <2>2
  <2>4. DOMAIN u = 1..4
    BY <1>3, LenProperties
  <2>5. Places(u) = <<"bump", "clear", "await", "take">>
    BY <1>3, <2>4 DEF Places
  <2>6. \A f \in Frames(u) : f.at \in RebindPoints
    BY <1>3, <2>4 DEF Frames, RebindPoints
  <2>7. QED
    BY <1>4, <2>3, <2>5, <2>6, Zenon
<1>5. CASE b
  <2>1. stack' = [stack EXCEPT ![Rebinder] = x \o y]
    BY <1>5 DEF Rebind
  <2>2. /\ u \o v \in Seq(Frame) /\ Len(u \o v) = Len(u) + Len(v)
        /\ \A k \in 1..(Len(u) + Len(v)) : (u \o v)[k] = IF k <= Len(u) THEN u[k] ELSE v[k - Len(u)]
    BY ConcatProperties
  <2>3. PICK w \in Seq(Frame) : w = u \o v
    BY <2>2
  <2>4. Len(w) = 6 /\ \A k \in 1..6 : w[k] = IF k <= 4 THEN u[k] ELSE v[k - 4]
    BY <1>3, <2>2, <2>3
  <2>5. /\ DOMAIN w = 1..6 /\ w[1].at = "bump" /\ w[2].at = "clear" /\ w[3].at = "await" /\ w[4].at = "take"
        /\ w[5].at = "respawn" /\ w[6].at = "await"
    BY <1>3, <2>4, LenProperties
  <2>6. Places(w) = <<"bump", "clear", "await", "take", "respawn", "await">>
    BY <2>5 DEF Places
  <2>7. \A f \in Frames(w) : f.at \in RebindPoints
    BY <2>5 DEF Frames, RebindPoints
  <2>8. stack' = [stack EXCEPT ![Rebinder] = w]
    BY <1>2, <2>1, <2>3
  <2>9. QED
    BY <1>5, <2>6, <2>7, <2>8, Zenon
<1>6. QED
  BY <1>4, <1>5

LEMMA RebindStep ==
  ASSUME ReplicationInv, NEW b \in BOOLEAN, Rebind(b)
  PROVE  ReplicationInv'
<1>1. /\ Idle(Rebinder) /\ revision < MaxRebinds /\ bound' = b
      /\ UNCHANGED <<drainer, pending>> /\ UNCHANGED <<deliveries, delivering>> /\ UNCHANGED sub
      /\ UNCHANGED <<replica, cleared, revision>> /\ UNCHANGED <<seq, snap>>
      /\ UNCHANGED <<subscribers, subscription, epoch>>
  BY DEF Rebind, source, provider, state, listener
<1>2. /\ Rebinder \in Threads /\ Starter \in Threads /\ Rebinder # Starter /\ Typed /\ stack \in [Threads -> Seq(Frame)]
  BY ServiceReplicationAssumption DEF Threads, ReplicationInv, Typed
<1>5. PICK fs \in Seq(Frame) :
        /\ stack' = [stack EXCEPT ![Rebinder] = fs]
        /\ Places(fs) = <<"bump", "clear", "await", "take">> \/ Places(fs) = <<"bump", "clear", "await", "take", "respawn", "await">>
        /\ \A f \in Frames(fs) : f.at \in RebindPoints
  BY RebindFrames
<1>6. Move(Rebinder, {}, Frames(fs)) /\ stack'[Rebinder] = fs /\ stack' \in [Threads -> Seq(Frame)] /\ stack'[Starter] = stack[Starter]
  BY <1>1, <1>2, <1>5, StartOn
<1>7. Places(fs) \in Stopping /\ Places(fs) \notin Stopped
  BY <1>5 DEF Stopping, Stopped
<1>8. RebindInv'
  BY <1>1, <1>6, <1>7 DEF RebindInv
<1>9. StartInv'
  <2>1. ASSUME NEW u \in Threads, NEW f \in Frames(stack'[u])
        PROVE  (f.at \in StarterPoints => u = Starter) /\ (f.at \in ClosePoints => u \in {Starter, Rebinder})
    <3>1. f \in Frames(stack[u]) \/ (u = Rebinder /\ f \in Frames(fs))
      BY <1>2, <1>6, <2>1, FrameFrom
    <3>2. QED
      BY <1>5, <3>1 DEF ReplicationInv, StartInv, StarterPoints, StartPoints, RebindPoints
  <2>2. QED
    BY <1>2, <1>6, <2>1 DEF ReplicationInv, StartInv
<1>10. Spares({}, Frames(fs), "drain") /\ Spares({}, Frames(fs), "flush") /\ Spares({}, Frames(fs), "drainSub")
  BY DEF Spares
<1>11. SourceInv'
  BY <1>1, <1>2, <1>6, <1>10, SourceKept DEF ReplicationInv
<1>12. DeliveryInv'
  BY <1>1, <1>2, <1>6, <1>10, DeliveryKept DEF ReplicationInv
<1>13. BufferInv'
  BY <1>1, <1>2, <1>6, <1>10, BufferKept DEF ReplicationInv
<1>14. SnapInv'
  BY <1>1, <1>6 DEF ReplicationInv, SnapInv
<1>15. ClearInv' /\ HoldsItsLabel'
  BY <1>1, ValuesKept DEF ReplicationInv
<1>16. Typed'
  BY <1>1, <1>2, <1>6 DEF Typed
<1>17. QED
  BY <1>8, <1>9, <1>11, <1>12, <1>13, <1>14, <1>15, <1>16 DEF ReplicationInv

LEMMA BumpStep ==
  ASSUME ReplicationInv, Bump
  PROVE  ReplicationInv'
<1>1. /\ At(Rebinder, "bump") /\ Return(Rebinder) /\ revision' = revision + 1 /\ "bump" \in Points
      /\ UNCHANGED <<drainer, pending>> /\ UNCHANGED <<deliveries, delivering>> /\ UNCHANGED sub
      /\ UNCHANGED <<seq, snap>> /\ UNCHANGED <<subscribers, bound, subscription, epoch, replica, cleared>>
  BY DEF Bump, source, provider, state, listener, Points, RebindPoints
<1>2. /\ stack' \in [Threads -> Seq(Frame)] /\ RebindInv' /\ StartInv'
      /\ SourceInv' /\ DeliveryInv' /\ BufferInv' /\ SnapInv'
  BY <1>1, RebinderReturn
<1>3. revision \in Revisions /\ revision < MaxRebinds /\ cleared <= revision /\ cleared \in Revisions
  BY <1>1 DEF ReplicationInv, Typed, RebindInv, ClearInv
<1>4. revision' \in Revisions /\ cleared' <= revision'
  BY <1>1, <1>3, ServiceReplicationAssumption DEF Revisions
<1>5. ClearInv'
  BY <1>1, <1>4 DEF ReplicationInv, ClearInv, NoResurrection, IsCold
<1>6. HoldsItsLabel'
  BY <1>1 DEF ReplicationInv, HoldsItsLabel
<1>7. Typed'
  BY <1>1, <1>2, <1>4 DEF ReplicationInv, Typed
<1>8. QED
  BY <1>2, <1>5, <1>6, <1>7 DEF ReplicationInv

LEMMA FacadeClearStep ==
  ASSUME ReplicationInv, FacadeClear
  PROVE  ReplicationInv'
<1>1. /\ At(Rebinder, "clear") /\ Return(Rebinder) /\ Cleared /\ cleared' = revision /\ "clear" \in Points
      /\ UNCHANGED <<drainer, pending>> /\ UNCHANGED <<deliveries, delivering>> /\ UNCHANGED sub
      /\ UNCHANGED <<seq, snap>> /\ UNCHANGED <<subscribers, bound, subscription, revision>>
  BY DEF FacadeClear, source, provider, listener, Points, RebindPoints
<1>2. /\ stack' \in [Threads -> Seq(Frame)] /\ RebindInv' /\ StartInv'
      /\ SourceInv' /\ DeliveryInv' /\ BufferInv' /\ SnapInv'
  BY <1>1, RebinderReturn
<1>3. revision \in Revisions /\ revision \in Nat
  BY ZeroTyped DEF ReplicationInv, Typed
<1>4. replica' = Cold /\ epoch' \in Nat /\ replica' \in [seq: Nat, value: Nat, torn: BOOLEAN, rev: Nat]
  BY <1>1, ReplicaTyped DEF Cleared
<1>5. ClearInv'
  BY <1>1, <1>3, <1>4 DEF ClearInv, NoResurrection, IsCold, Cold
<1>6. HoldsItsLabel'
  <2>1. replica'.seq = 0 /\ replica'.value = 0
    BY <1>4 DEF Cold
  <2>2. QED
    BY <2>1 DEF HoldsItsLabel
<1>7. Typed'
  BY <1>1, <1>2, <1>3, <1>4 DEF ReplicationInv, Typed
<1>8. QED
  BY <1>2, <1>5, <1>6, <1>7 DEF ReplicationInv

LEMMA StopAwaitStep ==
  ASSUME ReplicationInv, StopAwait
  PROVE  ReplicationInv'
<1>1. /\ At(Rebinder, "await") /\ Return(Rebinder) /\ Idle(Starter) /\ "await" \in Points
      /\ UNCHANGED <<drainer, pending>> /\ UNCHANGED <<deliveries, delivering>> /\ UNCHANGED sub
      /\ UNCHANGED <<seq, snap>> /\ UNCHANGED <<subscribers, bound, subscription, epoch>>
      /\ UNCHANGED <<replica, cleared, revision>>
  BY DEF StopAwait, source, provider, binding, state, listener, Points, RebindPoints
<1>2. /\ stack' \in [Threads -> Seq(Frame)] /\ RebindInv' /\ StartInv'
      /\ SourceInv' /\ DeliveryInv' /\ BufferInv' /\ SnapInv'
  BY <1>1, RebinderReturn
<1>3. ClearInv' /\ HoldsItsLabel'
  BY <1>1, ValuesKept DEF ReplicationInv
<1>4. Typed'
  BY <1>1, <1>2 DEF ReplicationInv, Typed
<1>5. QED
  BY <1>2, <1>3, <1>4 DEF ReplicationInv

LEMMA StopTakeStep ==
  ASSUME ReplicationInv, StopTake
  PROVE  ReplicationInv'
<1>1. /\ At(Rebinder, "take") /\ subscription' = {} /\ "take" \in Points
      /\ UNCHANGED <<drainer, pending>> /\ UNCHANGED <<deliveries, delivering>> /\ UNCHANGED sub
      /\ UNCHANGED <<seq, snap>> /\ UNCHANGED <<subscribers, bound, epoch>>
      /\ UNCHANGED <<replica, cleared, revision>>
  BY DEF StopTake, source, provider, state, listener, Points, RebindPoints
<1>2. /\ stack' \in [Threads -> Seq(Frame)] /\ RebindInv' /\ StartInv'
      /\ SourceInv' /\ DeliveryInv' /\ BufferInv' /\ SnapInv'
  <2>1. CASE subscription = {}
    <3>1. Return(Rebinder)
      BY <2>1 DEF StopTake, Return
    <3>2. QED
      BY <1>1, <3>1, RebinderReturn
  <2>2. CASE subscription # {}
    <3>1. PICK i \in Revisions : i = CHOOSE j \in subscription : TRUE
      BY <2>2 DEF ReplicationInv, Typed
    <3>2. PICK f \in Frame : f = F("close", i, 0) /\ f.at = "close"
      BY OwnFrame DEF ClosePoints
    <3>3. Then(Rebinder, <<f>>)
      BY <2>2, <3>1, <3>2 DEF StopTake
    <3>4. /\ stack' \in [Threads -> Seq(Frame)] /\ RebindInv' /\ StartInv'
          /\ (UNCHANGED <<drainer, pending>> => SourceInv') /\ (UNCHANGED <<deliveries, delivering>> => DeliveryInv')
          /\ (UNCHANGED sub => BufferInv') /\ (UNCHANGED <<seq, snap>> => SnapInv')
      <4>1. PICK at \in Points : at = "take" /\ At(Rebinder, at)
        BY <1>1
      <4>2. (at = "take" /\ f.at = "close") \/ (at = "close" /\ f.at = "remove")
        BY <3>2, <4>1
      <4>3. QED
        BY <3>3, <4>1, <4>2, RebinderClose
    <3>5. QED
      BY <1>1, <3>4
  <2>3. QED
    BY <2>1, <2>2
<1>3. ClearInv' /\ HoldsItsLabel'
  BY <1>1, ValuesKept DEF ReplicationInv
<1>4. Typed'
  BY <1>1, <1>2 DEF ReplicationInv, Typed
<1>5. QED
  BY <1>2, <1>3, <1>4 DEF ReplicationInv

(* A respawn gives the starter its first frame. *)
LEMMA RespawnFrames ==
  ASSUME ReplicationInv, Respawn
  PROVE  /\ stack' \in [Threads -> Seq(Frame)] /\ Frames(stack[Starter]) = {}
         /\ \E g \in Frame : /\ g = F("subscribe", revision, 0) /\ g.at = "subscribe"
                             /\ stack'[Starter] = <<g>> /\ Frames(stack'[Starter]) = {g}
         /\ Frames(stack[Rebinder]) = {Top(Rebinder)} \union Frames(stack'[Rebinder]) /\ Top(Rebinder).at = "respawn"
         /\ \A u \in Threads : u # Starter /\ u # Rebinder => stack'[u] = stack[u]
         /\ Places(stack[Rebinder]) \in Stopped /\ Places(stack[Rebinder])[1] = "respawn"
         /\ Places(stack'[Rebinder]) = <<"await">>
<1>1. /\ At(Rebinder, "respawn") /\ "respawn" \in Points
      /\ stack' = [stack EXCEPT ![Rebinder] = Tail(@), ![Starter] = <<F("subscribe", revision, 0)>>]
  BY DEF Respawn, Points, RebindPoints
<1>2. /\ Rebinder \in Threads /\ Starter \in Threads /\ Rebinder # Starter /\ ~Idle(Rebinder) /\ Top(Rebinder).at = "respawn"
      /\ stack \in [Threads -> Seq(Frame)] /\ Typed
      /\ Places(stack[Rebinder]) \in AllPlaces /\ Places(stack[Rebinder]) # <<>> /\ Places(stack[Rebinder])[1] = "respawn"
  BY <1>1, TopRebinder
<1>3. Places(stack[Rebinder]) \in Stopped /\ Tail(Places(stack[Rebinder])) = <<"await">>
  BY <1>2, PlacesNext
<1>4. stack[Starter] = <<>> /\ Frames(stack[Starter]) = {}
  BY <1>3, FramesOfTuples DEF ReplicationInv, RebindInv, Idle
<1>5. PICK g \in Frame : g = F("subscribe", revision, 0) /\ g.at = "subscribe"
  BY OwnFrame DEF StarterPoints, StartPoints, ReplicationInv, Typed
<1>6. stack[Rebinder] \in Seq(Frame) /\ stack[Rebinder] # <<>> /\ Tail(stack[Rebinder]) \in Seq(Frame)
      /\ Frames(stack[Rebinder]) = {Top(Rebinder)} \union Frames(Tail(stack[Rebinder]))
  <2>1. stack[Rebinder] \in Seq(Frame) /\ stack[Rebinder] # <<>>
    BY <1>2 DEF Idle
  <2>2. QED
    BY <2>1, FramesOfSeq DEF Top
<1>7. /\ stack' \in [Threads -> Seq(Frame)] /\ stack'[Starter] = <<g>> /\ stack'[Rebinder] = Tail(stack[Rebinder])
      /\ \A u \in Threads : u # Starter /\ u # Rebinder => stack'[u] = stack[u]
      /\ Frames(stack'[Starter]) = {g}
  <2>1. <<g>> \in Seq(Frame) /\ Frames(<<g>>) = {g}
    BY FramesOfTuples
  <2>2. QED
    BY <1>1, <1>2, <1>5, <1>6, <2>1
<1>8. Places(stack'[Rebinder]) = <<"await">>
  <2>1. PICK s \in Seq(Frame) : s = stack[Rebinder] /\ s # <<>>
    BY <1>6
  <2>2. PICK q \in Seq(Frame) : q = Tail(s)
    BY <1>6, <2>1
  <2>3. Places(s) \in Seq(Points) /\ Len(Places(s)) = Len(s) /\ DOMAIN Places(s) = DOMAIN s /\ \A k \in DOMAIN s : Places(s)[k] = s[k].at
    BY PlacesTyped
  <2>4. /\ Len(s) \in Nat \ {0} /\ DOMAIN s = 1..Len(s) /\ Len(q) = Len(s) - 1 /\ DOMAIN q = 1..(Len(s) - 1)
        /\ \A k \in 1..(Len(s) - 1) : q[k] = s[k + 1]
    BY <2>1, <2>2, HeadTailProperties, EmptySeq, LenProperties
  <2>5. Places(s) \in {<<"respawn", "await">>}
    BY <1>2, <1>3, <2>1 DEF Stopped
  <2>6. Len(s) = 2 /\ s[2].at = "await"
    <4>1. Len(Places(s)) = 2 /\ Places(s)[2] = "await"
      BY <2>5
    <4>2. QED
      BY <2>3, <2>4, <4>1
  <2>7. DOMAIN q = 1..1 /\ q[1].at = "await"
    BY <2>4, <2>6
  <2>8. Places(q) = <<"await">>
    BY <2>7 DEF Places
  <2>9. QED
    BY <1>7, <2>1, <2>2, <2>8
<1>9. QED
  BY <1>2, <1>3, <1>4, <1>5, <1>6, <1>7, <1>8

LEMMA RespawnStep ==
  ASSUME ReplicationInv, Respawn
  PROVE  ReplicationInv'
<1>1. /\ UNCHANGED <<drainer, pending>> /\ UNCHANGED <<deliveries, delivering>> /\ UNCHANGED sub
      /\ UNCHANGED <<seq, snap>> /\ UNCHANGED <<subscribers, bound, subscription, epoch>>
      /\ UNCHANGED <<replica, cleared, revision>>
  BY DEF Respawn, source, provider, state, listener
<1>2. /\ Rebinder \in Threads /\ Starter \in Threads /\ Rebinder # Starter /\ Typed
  BY ServiceReplicationAssumption DEF Threads, ReplicationInv
<1>3. PICK g \in Frame : /\ g = F("subscribe", revision, 0) /\ g.at = "subscribe"
                         /\ stack'[Starter] = <<g>> /\ Frames(stack'[Starter]) = {g}
  BY RespawnFrames
<1>4. /\ stack' \in [Threads -> Seq(Frame)] /\ Frames(stack[Starter]) = {}
      /\ Frames(stack[Rebinder]) = {Top(Rebinder)} \union Frames(stack'[Rebinder]) /\ Top(Rebinder).at = "respawn"
      /\ \A u \in Threads : u # Starter /\ u # Rebinder => stack'[u] = stack[u]
      /\ Places(stack'[Rebinder]) = <<"await">>
  BY RespawnFrames
<1>5. ASSUME NEW u \in Threads, NEW at, NEW i, Has(stack[u], at, i), at # "respawn"
      PROVE  Has(stack'[u], at, i)
  <2>1. PICK f \in Frames(stack[u]) : f.at = at /\ f.i = i
    BY <1>5 DEF Has
  <2>2. u # Starter
    BY <1>4, <2>1
  <2>3. f \in Frames(stack'[u])
    BY <1>2, <1>4, <1>5, <2>1, <2>2
  <2>4. QED
    BY <2>1, <2>3 DEF Has
<1>6. RebindInv'
  <2>1. Places(stack'[Rebinder]) = <<"await">>
    BY <1>4
  <2>2. <<"await">> \notin Stopped
    BY DEF Stopped
  <2>3. ~(stack'[Rebinder] # <<>> /\ Head(stack'[Rebinder]).at = "bump")
    <3>1. SUFFICES ASSUME stack'[Rebinder] # <<>> PROVE Head(stack'[Rebinder]).at # "bump"
      OBVIOUS
    <3>2. PICK s \in Seq(Frame) : s = stack'[Rebinder] /\ s # <<>>
      BY <1>2, <1>4, <3>1
    <3>3. 1 \in DOMAIN s /\ Head(s) = s[1]
      BY <3>2, HeadTailProperties, EmptySeq, LenProperties
    <3>4. Places(s)[1] = s[1].at
      BY <3>2, <3>3, PlacesTyped
    <3>5. QED
      BY <2>1, <3>2, <3>3, <3>4
  <2>4. QED
    BY <2>1, <2>2, <2>3 DEF RebindInv, At, Idle, Top
<1>7. StartInv'
  <2>1. ASSUME NEW u \in Threads, NEW f \in Frames(stack'[u])
        PROVE  (f.at \in StarterPoints => u = Starter) /\ (f.at \in ClosePoints => u \in {Starter, Rebinder})
    <3>1. u = Starter \/ f \in Frames(stack[u])
      BY <1>2, <1>4, <2>1
    <3>2. QED
      BY <3>1 DEF ReplicationInv, StartInv
  <2>2. QED
    BY <1>3, <2>1 DEF StartInv
<1>8. SourceInv'
  BY <1>1, <1>2, <1>5 DEF ReplicationInv, SourceInv, Typed
<1>9. DeliveryInv'
  BY <1>1, <1>2, <1>5 DEF ReplicationInv, DeliveryInv
<1>10. BufferInv'
  <2>1. \A j \in Revisions : sub[j].owner # NoThread => sub[j].owner \in Threads /\ Has(stack[sub[j].owner], "drainSub", j)
    BY SubTyped DEF ReplicationInv, BufferInv
  <2>2. QED
    BY <1>1, <1>5, <2>1 DEF ReplicationInv, BufferInv
<1>11. SnapInv'
  BY <1>1, <1>3, <1>4 DEF ReplicationInv, SnapInv
<1>12. ClearInv' /\ HoldsItsLabel'
  BY <1>1, ValuesKept DEF ReplicationInv
<1>13. Typed'
  BY <1>1, <1>2, <1>4 DEF Typed
<1>14. QED
  BY <1>6, <1>7, <1>8, <1>9, <1>10, <1>11, <1>12, <1>13 DEF ReplicationInv

-----------------------------------------------------------------------------
(* The theorems. *)

LEMMA ReplicationInit == Init => ReplicationInv
<1> SUFFICES ASSUME Init PROVE ReplicationInv
  OBVIOUS
<1> USE ServiceReplicationAssumption
<1>1. /\ Starter \in Threads /\ Rebinder \in Threads /\ Starter # Rebinder /\ 0 \in Revisions /\ MaxRebinds \in Nat
  BY ZeroTyped DEF Threads
<1>2. PICK g \in Frame : g = Do("subscribe") /\ g.at = "subscribe"
  BY DoTyped DEF Points, StarterPoints, StartPoints
<1>3. <<g>> \in Seq(Frame) /\ Frames(<<g>>) = {g} /\ <<>> \in Seq(Frame) /\ Frames(<<>>) = {} /\ Places(<<>>) = <<>>
  BY FramesOfTuples, PlacesOfTuples
<1>4. /\ stack \in [Threads -> Seq(Frame)] /\ stack[Starter] = <<g>>
      /\ \A u \in Threads : u # Starter => stack[u] = <<>>
  <2>1. stack = [t \in Threads |-> IF t = Starter THEN <<g>> ELSE <<>>]
    BY <1>2 DEF Init
  <2>2. QED
    BY <1>1, <1>3, <2>1
<1>5. Closed \in Subscriber /\ Closed.owner = NoThread /\ Closed.active = FALSE
  <2>1. <<>> \in Seq(Nat)
    OBVIOUS
  <2>2. QED
    BY <2>1 DEF Closed, Subscriber
<1>6. Typed
  <2>1. <<>> \in Seq(Nat) /\ <<>> \in Seq(Dispatches)
    OBVIOUS
  <2>2. Cold \in [seq: Nat, value: Nat, torn: BOOLEAN, rev: Nat]
    BY DEF Cold
  <2>3. QED
    BY <1>1, <1>4, <1>5, <2>1, <2>2 DEF Typed, Init, NoSnapshot
<1>7. RebindInv
  <2>1. <<>> \notin Stopped
    BY DEF Stopped
  <2>2. stack[Rebinder] = <<>>
    BY <1>1, <1>4
  <2>3. QED
    BY <1>3, <2>1, <2>2 DEF RebindInv, At, Idle
<1>8. StartInv
  <2>1. \A u \in Threads : \A f \in Frames(stack[u]) : u = Starter
    BY <1>3, <1>4
  <2>2. QED
    BY <1>3, <1>4, <2>1 DEF StartInv
<1>9. SourceInv /\ DeliveryInv
  BY DEF Init, SourceInv, DeliveryInv
<1>10. BufferInv
  BY <1>5 DEF Init, BufferInv
<1>11. SnapInv
  BY <1>2, <1>3, <1>4 DEF Init, SnapInv, NoSnapshot
<1>12. ClearInv
  BY DEF Init, ClearInv, NoResurrection, IsCold
<1>13. HoldsItsLabel
  <2>1. replica.seq = 0 /\ replica.value = 0
    BY DEF Init, Cold
  <2>2. QED
    BY <2>1 DEF HoldsItsLabel
<1>14. QED
  BY <1>6, <1>7, <1>8, <1>9, <1>10, <1>11, <1>12, <1>13 DEF ReplicationInv

LEMMA ReplicationStutter == ReplicationInv /\ UNCHANGED vars => ReplicationInv'
<1> SUFFICES ASSUME ReplicationInv, UNCHANGED vars PROVE ReplicationInv'
  OBVIOUS
<1>1. UNCHANGED Rest /\ UNCHANGED stack
  BY DEF vars, Rest, source, provider, binding, state, listener
<1>2. Typed'
  BY <1>1 DEF ReplicationInv, Typed, Rest
<1>3. RebindInv' /\ StartInv'
  BY <1>1 DEF ReplicationInv, RebindInv, StartInv, Rest, At, Idle, Top
<1>4. SourceInv' /\ DeliveryInv' /\ BufferInv'
  BY <1>1 DEF ReplicationInv, SourceInv, DeliveryInv, BufferInv, Rest
<1>5. SnapInv'
  BY <1>1 DEF ReplicationInv, SnapInv, Rest
<1>6. ClearInv' /\ HoldsItsLabel'
  BY <1>1 DEF ReplicationInv, ClearInv, NoResurrection, IsCold, Cold, HoldsItsLabel, Rest
<1>7. QED
  BY <1>2, <1>3, <1>4, <1>5, <1>6 DEF ReplicationInv

LEMMA ReplicationNext == ReplicationInv /\ [Next]_vars => ReplicationInv'
<1> SUFFICES ASSUME ReplicationInv, [Next]_vars PROVE ReplicationInv'
  OBVIOUS
<1>1. ASSUME NEW t \in Threads, Publish(t) \/ Run(t)
      PROVE  ReplicationInv'
  BY <1>1, PublishStep, UserReturnStep, DrainDispatchesStep, DispatchHydrationStep, DispatchLocalStep, DispatchSourceStep,
     EmitStep, DrainSubscriberStep, NextEntryStep, RegisterStep, ReadSequenceStep, ReadValueStep, CloseStep, RemoveStep,
     FlushStep, CheckUpdateStep, WipeStep, ApplyUpdateStep, InstallStep, ActivateStep, ReapStep, RevalidateStep DEF Run
<1>2. ASSUME NEW t \in Publishers, LocalSubscribe(t) \/ LocalUnsubscribe(t) \/ Withdraw(t) \/ Provide(t)
      PROVE  ReplicationInv'
  BY <1>2, LocalSubscribeStep, PublisherStep
<1>3. ASSUME NEW b \in BOOLEAN, Rebind(b)
      PROVE  ReplicationInv'
  BY <1>3, RebindStep
<1>4. CASE RebindSteps
  BY <1>4, BumpStep, FacadeClearStep, StopAwaitStep, StopTakeStep, RespawnStep DEF RebindSteps
<1>5. CASE UNCHANGED vars
  BY <1>5, ReplicationStutter
<1>6. QED
  BY <1>1, <1>2, <1>3, <1>4, <1>5 DEF Next

LEMMA ReplicationInvariant == Spec => []ReplicationInv
<1>1. QED
  BY ReplicationInit, ReplicationNext, PTL DEF Spec

(* Every variable the properties speak of keeps its type: a stack is a sequence of frames, a     *)
(* batch being delivered is never empty, queues hold publications and epochs.                    *)
THEOREM ReplicationTypeCorrect == Spec => []Typed
<1>1. ReplicationInv => Typed
  BY DEF ReplicationInv
<1>2. QED
  BY <1>1, ReplicationInvariant, PTL

(* A replica that grew from a snapshot which no publication tore holds the very publication its  *)
(* sequence names: apply_update takes the next sequence only, so that every delta meets the      *)
(* value it was computed against, and what the snapshot already counts is refused.               *)
THEOREM HoldsItsLabelHolds == Spec => []HoldsItsLabel
<1>1. ReplicationInv => HoldsItsLabel
  BY DEF ReplicationInv
<1>2. QED
  BY <1>1, ReplicationInvariant, PTL

(* After rebind has cleared the facade no late update and no slow start of an older revision     *)
(* fills it again.                                                                               *)
THEOREM NoResurrectionHolds == Spec => []NoResurrection
<1>1. ReplicationInv => NoResurrection
  BY DEF ReplicationInv, ClearInv
<1>2. QED
  BY <1>1, ReplicationInvariant, PTL

LEMMA HasHolds ==
  ASSUME Typed, NEW t \in Threads, NEW at, NEW i, Has(stack[t], at, i)
  PROVE  Holds(t, at, i)
<1>1. stack[t] \in Seq(Frame) /\ DOMAIN stack[t] = 1..Len(stack[t])
  BY LenProperties DEF Typed
<1>2. QED
  BY <1>1 DEF Has, Holds, Frames

(* A queued dispatch, a queued delivery and an update in an active subscriber's buffer have a    *)
(* thread that comes back for them: whoever has the right to drain has the frame that drains.    *)
THEOREM NothingStrandedHolds == Spec => []NothingStranded
<1>1. ReplicationInv => NothingStranded
  <2> SUFFICES ASSUME ReplicationInv PROVE NothingStranded
    OBVIOUS
  <2>1. Typed /\ SourceInv /\ DeliveryInv /\ BufferInv
    BY DEF ReplicationInv
  <2>2. pending # <<>> => drainer # NoThread /\ Holds(drainer, "drain", 0)
    BY <2>1, HasHolds DEF SourceInv, Typed
  <2>3. deliveries # <<>> => \E t \in Threads : Holds(t, "flush", 0)
    BY <2>1, HasHolds DEF DeliveryInv
  <2>4. ASSUME NEW i \in subscribers, sub[i].active, sub[i].buffer # <<>>
        PROVE  sub[i].owner # NoThread /\ Holds(sub[i].owner, "drainSub", i)
    <3>1. i \in Revisions /\ sub[i].owner \in Threads \union {NoThread}
      BY <2>1 DEF Typed, Subscriber
    <3>2. QED
      BY <2>1, <2>4, <3>1, HasHolds DEF BufferInv
  <2>5. QED
    BY <2>2, <2>3, <2>4 DEF NothingStranded
<1>2. QED
  BY <1>1, ReplicationInvariant, PTL

-----------------------------------------------------------------------------
(* Steps that leave the start's own frames and the rebinder's alone. *)

LEMMA PlainOwn ==
  ASSUME NEW t \in Threads, t # Rebinder, NEW gone, NEW new, Move(t, gone, new),
         \A f \in gone : f.at \notin Own, \A f \in new : f.at \notin Own
  PROVE  OwnFrames' = OwnFrames /\ Closing' = Closing /\ Place' = Place
<1>1. Starter \in Threads /\ Rebinder \in Threads /\ stack'[Rebinder] = stack[Rebinder]
  BY DEF Threads, Move
<1>2. ASSUME NEW f, f.at \in Own
      PROVE  f \in Frames(stack[Starter]) <=> f \in Frames(stack'[Starter])
  <2>1. CASE t = Starter
    BY <1>2, <2>1 DEF Move
  <2>2. CASE t # Starter
    BY <1>1, <2>2 DEF Move
  <2>3. QED
    BY <2>1, <2>2
<1>3. OwnFrames' = OwnFrames
  BY <1>2 DEF OwnFrames
<1>4. QED
  BY <1>1, <1>3 DEF Closing, Place

StartsInv == BoundInv /\ OwnInv /\ FreshInv /\ OpenInv

LEMMA StartsKept ==
  ASSUME Typed, StartsInv, OwnFrames' = OwnFrames, Closing' = Closing, Place' = Place,
         UNCHANGED <<revision, bound, subscription, subscribers>>,
         \A i \in Revisions : sub'[i].closed = sub[i].closed /\ sub'[i].active = sub[i].active
  PROVE  StartsInv'
<1>1. \A i : Seen(i)' <=> Seen(i)
  BY DEF Seen
<1>2. BoundInv'
  BY DEF StartsInv, BoundInv
<1>3. OwnInv'
  BY <1>1 DEF StartsInv, OwnInv
<1>4. \A i \in Revisions : New(i)' <=> New(i)
  BY DEF New
<1>5. \A f \in OwnFrames \union Closing : f.i \in Revisions
  <2>1. \A t \in Threads : \A f \in Frames(stack[t]) : f \in Frame
    BY FramesOfSeq DEF Typed
  <2>2. QED
    BY <2>1 DEF OwnFrames, Closing, Frame, Threads
<1>6. FreshInv'
  BY <1>1, <1>4, <1>5 DEF StartsInv, FreshInv
<1>7. \A i : Kept(i)' <=> Kept(i)
  BY DEF Kept
<1>8. OpenInv'
  BY <1>5, <1>7 DEF StartsInv, OpenInv, Typed
<1>9. QED
  BY <1>2, <1>3, <1>6, <1>8 DEF StartsInv

(* The same for a plain step of a thread. *)
LEMMA PlainStarts ==
  ASSUME Typed, StartsInv, NEW t \in Threads, t # Rebinder, NEW gone, NEW new, Move(t, gone, new),
         \A f \in gone : f.at \notin Own, \A f \in new : f.at \notin Own,
         UNCHANGED <<revision, bound, subscription, subscribers>>,
         \A i \in Revisions : sub'[i].closed = sub[i].closed /\ sub'[i].active = sub[i].active
  PROVE  StartsInv' /\ OwnFrames' = OwnFrames /\ Place' = Place
BY PlainOwn, StartsKept

LEMMA ActiveKept ==
  ASSUME Typed, ActiveInv, NEW t \in Threads, NEW gone, NEW new, Move(t, gone, new),
         \A f \in new : f.at = "drainSub" => f.i \in Revisions /\ sub'[f.i].active,
         \A i \in Revisions : sub[i].active => sub'[i].active
  PROVE  ActiveInv'
<1>1. SUFFICES ASSUME NEW u \in Threads, NEW f \in Frames(stack'[u]), f.at = "drainSub" PROVE sub'[f.i].active
  BY DEF ActiveInv
<1>2. CASE f \in new
  BY <1>1, <1>2
<1>3. CASE f \notin new
  <2>1. f \in Frames(stack[u])
    BY <1>1, <1>3, FrameFrom
  <2>2. f \in Frame
    BY <2>1, FramesOfSeq DEF Typed
  <2>3. QED
    BY <1>1, <2>1, <2>2 DEF ActiveInv, Frame
<1>4. QED
  BY <1>2, <1>3

LEMMA NumbersGrow ==
  ASSUME Typed, seq' \in Nat, seq <= seq', withdrawals' = 0 => withdrawals = 0
  PROVE  /\ \A n \in Nat : Number(n) => Number(n)'
         /\ \A f \in Frame : Carries(f) => Carries(f)'
<1>1. \A n \in Nat : Number(n) => Number(n)'
  BY DEF Typed, Number
<1>2. ASSUME NEW f \in Frame, Carries(f) PROVE Carries(f)'
  <2>1. f.n \in Nat /\ f.rest \in Seq(Nat)
    BY DEF Frame
  <2>2. Frames(f.rest) \subseteq Nat
    BY <2>1, FramesOfSeq
  <2>3. f.at \in {"source", "emit", "deliver", "apply"} => Number(f.n)'
    BY <1>1, <1>2, <2>1 DEF Carries
  <2>4. f.at = "entries" => \A n \in Frames(f.rest) : Number(n)'
    BY <1>1, <1>2, <2>2 DEF Carries
  <2>5. f.at = "wipe" => withdrawals' # 0
    BY <1>2 DEF Carries
  <2>6. QED
    BY <2>3, <2>4, <2>5 DEF Carries
<1>3. QED
  BY <1>1, <1>2

LEMMA NumberKept ==
  ASSUME Typed, NumberInv, seq' \in Nat, seq <= seq', withdrawals' \in Nat, withdrawals' = 0 => withdrawals = 0,
         NEW t \in Threads, NEW gone, NEW new, Move(t, gone, new), \A f \in new : Carries(f)',
         \A d \in Frames(pending') : d.kind = "publication" => d \in Frames(pending) \/ Number(d.n)',
         \A i \in Revisions : \A n \in Frames(sub'[i].buffer) : n \in Frames(sub[i].buffer) \/ Number(n)',
         replica'.seq <= seq', withdrawals' = 0 => instance' = "registered"
  PROVE  NumberInv'
<1>1. /\ \A n \in Nat : Number(n) => Number(n)'
      /\ \A f \in Frame : Carries(f) => Carries(f)'
  BY NumbersGrow
<1>2. ASSUME NEW u \in Threads, NEW f \in Frames(stack'[u]) PROVE Carries(f)'
  <2>1. CASE f \in new
    BY <2>1
  <2>2. CASE f \notin new
    <3>1. f \in Frames(stack[u])
      BY <1>2, <2>2, FrameFrom
    <3>2. f \in Frame
      BY <3>1, FramesOfSeq DEF Typed
    <3>3. QED
      BY <1>1, <3>1, <3>2 DEF NumberInv
  <2>3. QED
    BY <2>1, <2>2
<1>3. ASSUME NEW d \in Frames(pending'), d.kind = "publication" PROVE Number(d.n)'
  <2>1. CASE d \in Frames(pending)
    <3>1. d \in Dispatches
      BY <2>1, FramesOfSeq DEF Typed
    <3>2. QED
      BY <1>1, <1>3, <2>1, <3>1 DEF NumberInv, Dispatches
  <2>2. QED
    BY <1>3, <2>1
<1>4. ASSUME NEW i \in Revisions, NEW n \in Frames(sub'[i].buffer) PROVE Number(n)'
  <2>1. CASE n \in Frames(sub[i].buffer)
    <3>1. sub[i].buffer \in Seq(Nat)
      BY DEF Typed, Subscriber
    <3>2. n \in Nat
      BY <2>1, <3>1, FramesOfSeq
    <3>3. QED
      BY <1>1, <2>1, <3>2 DEF NumberInv
  <2>2. QED
    BY <1>4, <2>1
<1>5. QED
  BY <1>2, <1>3, <1>4 DEF NumberInv

LEMMA UpKept ==
  ASSUME Typed, NEW t \in Threads, NEW gone, NEW new, Move(t, gone, new), NEW n, Up(n),
         \A d \in Frames(pending) : d.kind = "publication" =>
            d \in Frames(pending') \/ \E g \in new : g.at \in {"source", "emit"} /\ g.n = d.n,
         \A f \in gone : f.at \in {"source", "emit"} => \E g \in new : g.at \in {"source", "emit"} /\ g.n = f.n
  PROVE  Up(n)'
<1>1. ASSUME NEW g \in new, g.at \in {"source", "emit"}, g.n = n PROVE Up(n)'
  BY <1>1 DEF Up, Move
<1>2. CASE \E d \in Frames(pending) : d.kind = "publication" /\ d.n = n
  <2>1. PICK d \in Frames(pending) : d.kind = "publication" /\ d.n = n
    BY <1>2
  <2>2. CASE d \in Frames(pending')
    BY <2>1, <2>2 DEF Up
  <2>3. CASE d \notin Frames(pending')
    BY <1>1, <2>1, <2>3
  <2>4. QED
    BY <2>2, <2>3
<1>3. ASSUME NEW u \in Threads, NEW f \in Frames(stack[u]), f.at \in {"source", "emit"}, f.n = n PROVE Up(n)'
  <2>1. CASE f \in gone
    BY <1>1, <1>3, <2>1
  <2>2. CASE f \notin gone
    <3>1. f \in Frames(stack'[u])
      BY <1>3, <2>2 DEF Move
    <3>2. QED
      BY <1>3, <3>1 DEF Up
  <2>3. QED
    BY <2>1, <2>2
<1>4. QED
  BY <1>2, <1>3 DEF Up

(* f brings publication n to the replica of revision r. *)
Brings(f, n, r) ==
  f.i = r /\ ((f.at \in {"deliver", "apply"} /\ f.n = n) \/ (f.at = "entries" /\ n \in Frames(f.rest)))

LEMMA DownKept ==
  ASSUME NEW t \in Threads, NEW gone, NEW new, Move(t, gone, new), NEW n, NEW r, Down(n, r),
         n \in Frames(sub[r].buffer) => n \in Frames(sub'[r].buffer) \/ \E g \in new : Brings(g, n, r),
         \A f \in gone : Brings(f, n, r) => \E g \in new : Brings(g, n, r)
  PROVE  Down(n, r)'
<1>1. ASSUME NEW g \in new, Brings(g, n, r) PROVE Down(n, r)'
  BY <1>1 DEF Down, Move, Brings
<1>2. CASE n \in Frames(sub[r].buffer)
  BY <1>1, <1>2 DEF Down
<1>3. ASSUME NEW u \in Threads, NEW f \in Frames(stack[u]), Brings(f, n, r) PROVE Down(n, r)'
  <2>1. CASE f \in gone
    BY <1>1, <1>3, <2>1
  <2>2. CASE f \notin gone
    <3>1. f \in Frames(stack'[u])
      BY <1>3, <2>2 DEF Move
    <3>2. QED
      BY <1>3, <3>1 DEF Down, Brings
  <2>3. QED
    BY <2>1, <2>2
<1>4. QED
  BY <1>2, <1>3 DEF Down, Brings

-----------------------------------------------------------------------------
(* Steps that leave the start where it is. *)

Queued(n) == Up(n) \/ n \in Frames(sub[revision].buffer)
Coming(n) == Up(n) \/ Down(n, revision)

FlowInv == StartsInv /\ ActiveInv /\ NumberInv /\ CoverInv

Same == \A i \in Revisions : sub'[i].closed = sub[i].closed /\ sub'[i].active = sub[i].active
Steady == OwnFrames' = OwnFrames /\ Same /\ UNCHANGED <<revision, subscribers, snap, providerLock>>
Carried ==
  /\ \A n \in (seq + 1)..seq' : Up(n)'
  /\ Reading => \A n \in Nat : Up(n) => Up(n)'
  /\ Buffering => \A n \in Nat : Queued(n) => Queued(n)'
  /\ Following => /\ ~IsCold' /\ replica.seq <= replica'.seq
                  /\ \A n \in Nat : Coming(n) => Coming(n)' \/ n <= replica'.seq

LEMMA FramesOfAppend ==
  ASSUME NEW S, NEW s \in Seq(S), NEW x \in S
  PROVE  Append(s, x) \in Seq(S) /\ Frames(Append(s, x)) = Frames(s) \union {x}
<1>1. Append(s, x) = s \o <<x>> /\ <<x>> \in Seq(S)
  OBVIOUS
<1>2. PICK y \in Seq(S) : y = <<x>> /\ Frames(y) = {x}
  BY <1>1, FramesOfTuples
<1>3. s \o y \in Seq(S) /\ Frames(s \o y) = Frames(s) \union Frames(y)
  BY FramesOfConcat
<1>4. QED
  BY <1>1, <1>2, <1>3

LEMMA OwnHas ==
  ASSUME NEW at \in Own, NEW i
  PROVE  Has(stack[Starter], at, i) <=> \E f \in OwnFrames : f.at = at /\ f.i = i
BY DEF Has, OwnFrames

LEMMA OwnHasNext ==
  ASSUME NEW at \in Own, NEW i
  PROVE  Has(stack'[Starter], at, i) <=> \E f \in OwnFrames' : f.at = at /\ f.i = i
BY DEF Has, OwnFrames

LEMMA CoverKept ==
  ASSUME Typed, Typed', CoverInv, Steady, seq <= seq', Watched' => Watched /\ Carried
  PROVE  CoverInv'
<1>1. SUFFICES ASSUME Watched' PROVE (ToStart \/ Reading \/ Buffering \/ Following)'
  BY DEF CoverInv
<1>2. Watched /\ Carried /\ revision' = revision /\ OwnFrames' = OwnFrames
  BY <1>1 DEF Steady
<1>3. /\ seq \in Nat /\ seq' \in Nat /\ snap.seq \in Nat /\ replica.seq \in Nat /\ replica'.seq \in Nat /\ revision \in Revisions
      /\ sub'[revision].closed = sub[revision].closed /\ sub'[revision].active = sub[revision].active
      /\ subscribers' = subscribers /\ snap' = snap /\ providerLock' = providerLock
  BY DEF Typed, Steady, Same
<1>4. \A at \in {"subscribe", "value", "install", "activate"} :
        Has(stack'[Starter], at, revision) <=> Has(stack[Starter], at, revision)
  <2>1. \A at \in {"subscribe", "value", "install", "activate"} : at \in Own
    BY DEF Own, StarterPoints, StartPoints
  <2>2. QED
    BY <1>2, <2>1, OwnHas, OwnHasNext
<1>5. CASE ToStart
  BY <1>2, <1>4, <1>5 DEF ToStart
<1>6. CASE Reading
  <2>1. ASSUME NEW n \in (snap.seq + 1)..seq' PROVE Up(n)'
    <3>1. CASE n \in (seq + 1)..seq'
      BY <1>2, <3>1 DEF Carried
    <3>2. CASE n \notin (seq + 1)..seq'
      <4>1. n \in (snap.seq + 1)..seq /\ n \in Nat
        BY <1>3, <3>2
      <4>2. QED
        BY <1>2, <1>6, <4>1 DEF Carried, Reading
    <3>3. QED
      BY <3>1, <3>2
  <2>2. Reading'
    BY <1>2, <1>3, <1>4, <1>6, <2>1 DEF Reading
  <2>3. QED
    BY <2>2
<1>7. CASE Buffering
  <2>1. ASSUME NEW n \in (snap.seq + 1)..seq' PROVE Queued(n)'
    <3>1. CASE n \in (seq + 1)..seq'
      BY <1>2, <3>1 DEF Carried, Queued
    <3>2. CASE n \notin (seq + 1)..seq'
      <4>1. n \in (snap.seq + 1)..seq /\ n \in Nat
        BY <1>3, <3>2
      <4>2. Queued(n)
        BY <1>7, <4>1 DEF Buffering, Queued
      <4>3. QED
        BY <1>2, <1>7, <4>1, <4>2 DEF Carried
    <3>3. QED
      BY <3>1, <3>2
  <2>2. Buffering'
    BY <1>2, <1>3, <1>4, <1>7, <2>1 DEF Buffering, Open, Queued
  <2>3. QED
    BY <2>2
<1>8. CASE Following
  <2>1. ASSUME NEW n \in (replica'.seq + 1)..seq' PROVE Coming(n)'
    <3>1. CASE n \in (seq + 1)..seq'
      BY <1>2, <3>1 DEF Carried, Coming
    <3>2. CASE n \notin (seq + 1)..seq'
      <4>1. n \in (replica.seq + 1)..seq /\ n \in Nat /\ ~(n <= replica'.seq)
        BY <1>2, <1>3, <1>8, <3>2 DEF Carried
      <4>2. Coming(n)
        BY <1>8, <4>1 DEF Following, Coming
      <4>3. QED
        BY <1>2, <1>8, <4>1, <4>2 DEF Carried
    <3>3. QED
      BY <3>1, <3>2
  <2>2. ~IsCold'
    BY <1>2, <1>8 DEF Carried
  <2>3. Following'
    BY <1>2, <1>3, <1>4, <1>8, <2>1, <2>2 DEF Following, Open, Coming
  <2>4. QED
    BY <2>3
<1>9. QED
  BY <1>2, <1>5, <1>6, <1>7, <1>8 DEF CoverInv

NoOwn(frames) == \A f \in frames : f.at \notin Own

LEMMA PlainFlow ==
  ASSUME ReplicationInv, ReplicationInv', FlowInv, NEW t \in Threads, t # Rebinder, NEW gone, NEW new, Move(t, gone, new),
         NoOwn(gone), NoOwn(new), UNCHANGED <<revision, bound, subscription, subscribers, snap, providerLock>>, Same,
         ActiveInv', NumberInv', seq <= seq', reported \subseteq reported', withdrawals' = 0 => withdrawals = 0,
         Watched /\ Watched' => Carried
  PROVE  FlowInv'
<1>1. Typed /\ Typed' /\ StartsInv /\ CoverInv
  BY DEF ReplicationInv, FlowInv
<1>2. /\ \A f \in gone : f.at \notin Own
      /\ \A f \in new : f.at \notin Own
      /\ \A i \in Revisions : sub'[i].closed = sub[i].closed /\ sub'[i].active = sub[i].active
      /\ UNCHANGED <<revision, bound, subscription, subscribers>>
  BY DEF NoOwn, Same
<1>3. StartsInv' /\ OwnFrames' = OwnFrames /\ Place' = Place
  BY <1>1, <1>2, PlainStarts
<1>4. Steady
  BY <1>3 DEF Steady
<1>5. Watched' => Watched
  BY <1>3 DEF Watched
<1>6. CoverInv'
  BY <1>1, <1>4, <1>5, CoverKept
<1>7. QED
  BY <1>3, <1>6 DEF FlowInv

(* The frames a step adds go on with what the frames it removes carried. *)
Passes(gone, new) ==
  /\ \A f \in gone : f.at \in {"source", "emit"} => \E g \in new : g.at \in {"source", "emit"} /\ g.n = f.n
  /\ \A f \in gone : \A n \in Nat : Brings(f, n, revision) => \E g \in new : Brings(g, n, revision)

LEMMA FramesFlow ==
  ASSUME ReplicationInv, ReplicationInv', FlowInv, NEW t \in Threads, t # Rebinder, NEW gone, NEW new, Move(t, gone, new),
         NoOwn(gone), NoOwn(new), \A f \in new : f.at # "drainSub", \A f \in new : Carries(f)',
         UNCHANGED <<revision, bound, subscription, subscribers, snap, providerLock>>,
         UNCHANGED <<seq, pending, sub, replica, reported>>,
         withdrawals' \in Nat, withdrawals' = 0 => withdrawals = 0 /\ instance' = "registered",
         Watched' => Passes(gone, new)
  PROVE  FlowInv'
<1>1. Typed /\ Typed' /\ StartsInv /\ ActiveInv /\ NumberInv /\ CoverInv /\ Same
  BY DEF ReplicationInv, FlowInv, Same
<1>2. seq' \in Nat /\ seq <= seq' /\ replica'.seq <= seq' /\ revision \in Revisions /\ seq \in Nat
  BY <1>1 DEF Typed, NumberInv
<1>3. ActiveInv'
  BY <1>1, ActiveKept
<1>4. NumberInv'
  BY <1>1, <1>2, NumberKept
<1>5. ASSUME Passes(gone, new) PROVE Carried
  <2>1. ASSUME NEW n, Up(n) PROVE Up(n)'
    BY <1>1, <1>5, <2>1, UpKept DEF Passes
  <2>2. ASSUME NEW n \in Nat, Down(n, revision) PROVE Down(n, revision)'
    <3>1. PICK r \in Revisions : r = revision
      BY <1>2
    <3>2. Down(n, r) /\ revision' = r
      BY <2>2, <3>1
    <3>3. \A f \in gone : Brings(f, n, r) => \E g \in new : Brings(g, n, r)
      BY <1>5, <3>1 DEF Passes
    <3>4. Down(n, r)'
      BY <3>2, <3>3, DownKept
    <3>5. QED
      BY <3>2, <3>4
  <2>3. \A n \in (seq + 1)..seq' : FALSE
    BY <1>2
  <2>4. Following => ~IsCold' /\ replica.seq <= replica'.seq
    BY <1>1 DEF Following, IsCold, Cold, Typed
  <2>5. QED
    BY <2>1, <2>2, <2>3, <2>4 DEF Carried, Queued, Coming
<1>6. QED
  BY <1>2, <1>3, <1>4, <1>5, <1>1, PlainFlow

-----------------------------------------------------------------------------
(* Steps that only move frames. *)

Wires == <<revision, bound, subscription, subscribers, snap, providerLock>>
Contents == <<seq, pending, sub, replica, reported>>

LEMMA PlainNoOwn == \A at \in Plain : at \notin Own
BY DEF Plain, Own, StarterPoints, StartPoints, ClosePoints

LEMMA TopFlow ==
  ASSUME ReplicationInv, ReplicationInv', FlowInv, NEW t \in Threads, NEW at \in Plain, At(t, at),
         NEW new, Move(t, {Top(t)}, new), \A f \in new : f.at \in Plain /\ f.at # "drainSub", \A f \in new : Carries(f)',
         UNCHANGED Wires, UNCHANGED Contents, withdrawals' = withdrawals,
         instance' = instance \/ instance' = "registered",
         Watched' => Passes({Top(t)}, new)
  PROVE  FlowInv'
<1>1. t # Rebinder /\ Top(t).at = at
  BY TopPlain
<1>2. NoOwn({Top(t)}) /\ NoOwn(new)
  BY <1>1, PlainNoOwn DEF NoOwn
<1>3. withdrawals' \in Nat /\ (withdrawals' = 0 => withdrawals = 0 /\ instance' = "registered")
  BY DEF FlowInv, NumberInv
<1>4. /\ UNCHANGED <<revision, bound, subscription, subscribers, snap, providerLock>>
      /\ UNCHANGED <<seq, pending, sub, replica, reported>>
  BY DEF Wires, Contents
<1>5. QED
  BY <1>1, <1>2, <1>3, <1>4, FramesFlow

LEMMA Idly ==
  ASSUME NEW f, NEW new, f.at \notin {"source", "emit", "deliver", "apply", "entries"}
  PROVE  Passes({f}, new)
BY DEF Passes, Brings

LEMMA Carefree ==
  ASSUME NEW f, f.at \notin {"source", "emit", "deliver", "apply", "entries", "wipe"}
  PROVE  Carries(f)'
BY DEF Carries

LEMMA ListenerFlow ==
  ASSUME ReplicationInv, ReplicationInv', FlowInv, NEW t \in Threads,
         UserReturn(t) \/ DispatchHydration(t) \/ DispatchLocal(t) \/ Register(t)
  PROVE  FlowInv'
<1>1. /\ UNCHANGED Wires /\ UNCHANGED Contents /\ withdrawals' = withdrawals
      /\ instance' = instance \/ instance' = "registered"
  BY DEF UserReturn, DispatchHydration, DispatchLocal, Register, Wires, Contents, source, provider, binding, state, listener
<1>2. PICK at \in {"user", "hydrate", "local", "register"} : At(t, at)
  BY DEF UserReturn, DispatchHydration, DispatchLocal, Register
<1>3. /\ at \in Plain /\ ~Idle(t) /\ Top(t).at = at /\ stack \in [Threads -> Seq(Frame)]
      /\ Passes({Top(t)}, {}) /\ \A f : Passes({Top(t)}, {f})
  <2>1. at \in Plain
    BY DEF Plain
  <2>2. ~Idle(t) /\ Top(t).at = at /\ stack \in [Threads -> Seq(Frame)]
    BY <1>2, <2>1, TopPlain
  <2>3. QED
    BY <2>1, <2>2, Idly
<1>4. CASE Return(t)
  <2>1. Move(t, {Top(t)}, {})
    BY <1>3, <1>4, Popped
  <2>2. QED
    BY <1>1, <1>2, <1>3, <2>1, TopFlow
<1>5. CASE Then(t, <<Do("user")>>)
  <2>1. PICK f \in Frame : f = Do("user") /\ f.at = "user"
    BY DoTyped DEF Points, Plain
  <2>2. Move(t, {Top(t)}, {f})
    BY <1>3, <1>5, <2>1, Replaced
  <2>3. f.at \in Plain /\ f.at # "drainSub" /\ Carries(f)'
    BY <2>1, Carefree DEF Plain
  <2>4. QED
    BY <1>1, <1>2, <1>3, <2>2, <2>3, TopFlow
<1>6. QED
  BY <1>4, <1>5 DEF UserReturn, DispatchHydration, DispatchLocal, Register

LEMMA DispatchSourceFlow ==
  ASSUME ReplicationInv, ReplicationInv', FlowInv, NEW t \in Threads, DispatchSource(t)
  PROVE  FlowInv'
<1>1. /\ UNCHANGED Wires /\ UNCHANGED Contents /\ withdrawals' = withdrawals /\ instance' = instance
      /\ At(t, "source") /\ "source" \in Plain /\ seq' = seq
  BY DEF DispatchSource, Wires, Contents, source, provider, binding, state, listener, Plain
<1>2. ~Idle(t) /\ Top(t).at = "source" /\ stack \in [Threads -> Seq(Frame)]
  BY <1>1, TopPlain
<1>3. CASE instance = "none"
  <2>1. Move(t, {Top(t)}, {})
    BY <1>2, <1>3, Popped DEF DispatchSource, Return
  <2>2. ~Watched'
    BY <1>1, <1>3 DEF Watched, FlowInv, NumberInv
  <2>3. QED
    BY <1>1, <2>1, <2>2, TopFlow
<1>4. CASE instance # "none"
  <2>1. PICK f \in Frame : f = F("emit", 0, Top(t).n) /\ f.at = "emit" /\ f.n = Top(t).n
    <3>1. Top(t).n \in Nat /\ "emit" \in Points /\ 0 \in Revisions
      BY <1>2, TopTyped, ZeroTyped DEF Points, Plain
    <3>2. QED
      BY <3>1, FrameTyped
  <2>2. Then(t, <<f>>)
    BY <1>4, <2>1 DEF DispatchSource
  <2>3. Move(t, {Top(t)}, {f}) /\ Top(t) \in Frames(stack[t])
    BY <1>2, <2>2, Replaced
  <2>4. Carries(f)'
    BY <1>1, <1>2, <2>1, <2>3 DEF FlowInv, NumberInv, Carries, Number
  <2>5. Passes({Top(t)}, {f})
    BY <1>2, <2>1 DEF Passes, Brings
  <2>6. f.at \in Plain /\ f.at # "drainSub"
    BY <2>1 DEF Plain
  <2>7. QED
    BY <1>1, <2>3, <2>4, <2>5, <2>6, TopFlow
<1>5. QED
  BY <1>3, <1>4

LEMMA CheckUpdateFlow ==
  ASSUME ReplicationInv, ReplicationInv', FlowInv, NEW t \in Threads, CheckUpdate(t)
  PROVE  FlowInv'
<1>1. /\ UNCHANGED Wires /\ UNCHANGED Contents /\ withdrawals' = withdrawals /\ instance' = instance
      /\ At(t, "deliver") /\ "deliver" \in Plain /\ seq' = seq
  BY DEF CheckUpdate, Wires, Contents, source, provider, binding, state, listener, Plain
<1>2. ~Idle(t) /\ Top(t).at = "deliver" /\ stack \in [Threads -> Seq(Frame)]
  BY <1>1, TopPlain
<1>3. Top(t) \in Frames(stack[t]) /\ Top(t).n \in Nat /\ Top(t).i \in Revisions
  BY <1>2, TopTyped
<1>4. Carries(Top(t))
  BY <1>3 DEF FlowInv, NumberInv
<1>5. CASE Superseded(Top(t).i)
  <2>1. Move(t, {Top(t)}, {})
    BY <1>2, <1>5, Popped DEF CheckUpdate, Return
  <2>2. Passes({Top(t)}, {})
    BY <1>2, <1>5 DEF Passes, Brings, Superseded
  <2>3. QED
    BY <1>1, <2>1, <2>2, TopFlow
<1>6. CASE ~Superseded(Top(t).i)
  <2> DEFINE at == IF Top(t).n = Unavailable THEN "wipe" ELSE "apply"
  <2>1. PICK f \in Frame : f = F(at, Top(t).i, Top(t).n) /\ f.at = at /\ f.i = Top(t).i /\ f.n = Top(t).n
    <3>1. at \in Points /\ at # "entries"
      BY DEF Points, Plain
    <3>2. QED
      BY <1>3, <3>1, FrameTyped
  <2>2. Then(t, <<f>>)
    BY <1>6, <2>1 DEF CheckUpdate
  <2>3. Move(t, {Top(t)}, {f})
    BY <1>2, <2>2, Replaced
  <2>4. Number(Top(t).n)
    BY <1>2, <1>4 DEF Carries
  <2>5. Carries(f)'
    BY <1>1, <1>3, <2>1, <2>4 DEF Carries, Number, Unavailable
  <2>6. Watched' => Passes({Top(t)}, {f})
    <3>1. Watched' => at = "apply"
      BY <1>1, <1>3, <2>4 DEF Watched, Number, Unavailable
    <3>2. at = "apply" => Passes({Top(t)}, {f})
      BY <1>2, <2>1 DEF Passes, Brings
    <3>3. QED
      BY <3>1, <3>2
  <2>7. f.at \in Plain /\ f.at # "drainSub"
    BY <2>1 DEF Plain
  <2>8. QED
    BY <1>1, <2>3, <2>5, <2>6, <2>7, TopFlow
<1>7. QED
  BY <1>5, <1>6

(* What a batch is split into. *)
LEMMA EntryFrames ==
  ASSUME ReplicationInv, NEW t \in Threads, NextEntry(t)
  PROVE  \E d \in Frame, new \in SUBSET Frame :
           /\ d.at = "deliver" /\ d.i = Top(t).i /\ d.n = Head(Top(t).rest) /\ d \in new
           /\ Move(t, {Top(t)}, new)
           /\ Frames(Top(t).rest) = {d.n} \union Frames(Tail(Top(t).rest))
           /\ \A f \in new : f # d => f.at = "entries" /\ f.i = Top(t).i /\ f.rest = Tail(Top(t).rest)
           /\ \A n \in Frames(Tail(Top(t).rest)) : \E f \in new : f # d
<1>1. "entries" \in Plain /\ At(t, "entries")
  BY DEF NextEntry, Plain
<1>2. /\ ~Idle(t) /\ Top(t).at = "entries" /\ stack \in [Threads -> Seq(Frame)]
  BY <1>1, TopPlain
<1> DEFINE x == Top(t).rest
<1>3. /\ Top(t) \in Frame /\ x \in Seq(Nat) /\ x # <<>> /\ Top(t).i \in Revisions /\ Head(x) \in Nat /\ Tail(x) \in Seq(Nat)
      /\ Len(x) \in Nat /\ Len(Tail(x)) = Len(x) - 1 /\ Frames(x) = {Head(x)} \union Frames(Tail(x))
  <2>1. Top(t) \in Frame /\ x \in Seq(Nat) /\ x # <<>> /\ Top(t).i \in Revisions
    BY <1>2, TopTyped
  <2>2. QED
    BY <2>1, HeadTailProperties, LenProperties, FramesOfSeq
<1>4. PICK d \in Frame : d = F("deliver", Top(t).i, Head(x)) /\ d.at = "deliver" /\ d.i = Top(t).i /\ d.n = Head(x)
  BY <1>3, FrameTyped DEF Points, Plain
<1>5. CASE Len(x) = 1
  <2>1. Then(t, <<d>>)
    <3>1. Then(t, <<d>> \o <<>>)
      BY <1>4, <1>5 DEF NextEntry
    <3>2. <<d>> \o <<>> = <<d>>
      OBVIOUS
    <3>3. QED
      BY <3>1, <3>2
  <2>2. Move(t, {Top(t)}, {d})
    BY <1>2, <2>1, Replaced
  <2>3. Frames(Tail(x)) = {}
    <3>1. PICK q \in Seq(Nat) : q = Tail(x)
      BY <1>3
    <3>2. Len(q) = 0
      BY <1>3, <1>5, <3>1
    <3>3. q = <<>>
      BY <3>2, EmptySeq
    <3>4. QED
      BY <3>1, <3>3, FramesOfTuples
  <2>4. {d} \in SUBSET Frame
    OBVIOUS
  <2>5. QED
    BY <1>3, <1>4, <2>2, <2>3, <2>4
<1>6. CASE Len(x) # 1
  <2>1. PICK e : e = [Top(t) EXCEPT !.rest = Tail(x)]
    OBVIOUS
  <2>2. e \in Frame /\ e.at = "entries" /\ e.i = Top(t).i /\ e.rest = Tail(x)
    <3>1. Len(Tail(x)) # 0
      BY <1>3, <1>6
    <3>2. Tail(x) # <<>>
      BY <1>3, <3>1, EmptySeq
    <3>3. e.rest = Tail(x) /\ e.at = "entries" /\ e.i = Top(t).i
      BY <1>2, <1>3, <2>1 DEF Frame
    <3>4. QED
      BY <1>3, <2>1, <3>2, <3>3 DEF Frame
  <2>3. Then(t, <<d>> \o <<e>>)
    BY <1>4, <1>6, <2>1 DEF NextEntry
  <2>5. Move(t, {Top(t)}, {d, e})
    <3>1. \A a, b \in Seq(Frame) : a \o b \in Seq(Frame) /\ Frames(a \o b) = Frames(a) \union Frames(b)
      BY FramesOfConcat, Zenon
    <3>2. <<d>> \in Seq(Frame) /\ <<e>> \in Seq(Frame)
      BY <2>2
    <3>3. Frames(<<d>>) = {d} /\ Frames(<<e>>) = {e}
      BY FramesOfTuples, Zenon
    <3>4. <<d>> \o <<e>> \in Seq(Frame) /\ Frames(<<d>> \o <<e>>) = {d} \union {e}
      BY <3>1, <3>2, <3>3, Zenon
    <3>5. PICK fs \in Seq(Frame) : fs = <<d>> \o <<e>> /\ Frames(fs) = {d, e}
      BY <3>4
    <3>6. Then(t, fs)
      BY <2>3, <3>5
    <3>7. QED
      BY <1>2, <3>5, <3>6, ReplaceTop
  <2>6. {d, e} \in SUBSET Frame /\ e # d
    BY <1>4, <2>2
  <2>7. QED
    BY <1>3, <1>4, <2>2, <2>5, <2>6
<1>7. QED
  BY <1>5, <1>6

LEMMA NextEntryFlow ==
  ASSUME ReplicationInv, ReplicationInv', FlowInv, NEW t \in Threads, NextEntry(t)
  PROVE  FlowInv'
<1>1. /\ UNCHANGED Wires /\ UNCHANGED Contents /\ withdrawals' = withdrawals /\ instance' = instance
      /\ At(t, "entries") /\ "entries" \in Plain /\ seq' = seq
  BY DEF NextEntry, Wires, Contents, source, provider, binding, state, listener, Plain
<1>2. ~Idle(t) /\ Top(t).at = "entries" /\ stack \in [Threads -> Seq(Frame)]
  BY <1>1, TopPlain
<1>3. Carries(Top(t))
  BY <1>2, TopTyped DEF FlowInv, NumberInv
<1>4. PICK d \in Frame, new \in SUBSET Frame :
        /\ d.at = "deliver" /\ d.i = Top(t).i /\ d.n = Head(Top(t).rest) /\ d \in new
        /\ Move(t, {Top(t)}, new)
        /\ Frames(Top(t).rest) = {d.n} \union Frames(Tail(Top(t).rest))
        /\ \A f \in new : f # d => f.at = "entries" /\ f.i = Top(t).i /\ f.rest = Tail(Top(t).rest)
        /\ \A n \in Frames(Tail(Top(t).rest)) : \E f \in new : f # d
  BY EntryFrames
<1>5. \A n \in Frames(Top(t).rest) : Number(n)'
  BY <1>1, <1>2, <1>3 DEF Carries, Number
<1>6. \A f \in new : Carries(f)'
  <2>1. Carries(d)'
    BY <1>4, <1>5 DEF Carries
  <2>2. ASSUME NEW f \in new, f # d PROVE Carries(f)'
    BY <1>4, <1>5, <2>2 DEF Carries
  <2>3. QED
    BY <2>1, <2>2
<1>7. Passes({Top(t)}, new)
  <2>1. ASSUME NEW n \in Nat, Brings(Top(t), n, revision) PROVE \E g \in new : Brings(g, n, revision)
    <3>1. Top(t).i = revision /\ n \in Frames(Top(t).rest)
      BY <1>2, <2>1 DEF Brings
    <3>2. CASE n = d.n
      BY <1>4, <3>1, <3>2 DEF Brings
    <3>3. CASE n # d.n
      <4>1. n \in Frames(Tail(Top(t).rest))
        BY <1>4, <3>1, <3>3
      <4>2. PICK f \in new : f # d
        BY <1>4, <4>1
      <4>3. Brings(f, n, revision)
        BY <1>4, <3>1, <4>1, <4>2 DEF Brings
      <4>4. QED
        BY <4>3
    <3>4. QED
      BY <3>2, <3>3
  <2>2. QED
    BY <1>2, <2>1 DEF Passes
<1>8. \A f \in new : f.at \in Plain /\ f.at # "drainSub"
  BY <1>4 DEF Plain
<1>9. QED
  BY <1>1, <1>4, <1>6, <1>7, <1>8, TopFlow

LEMMA FlushFlow ==
  ASSUME ReplicationInv, ReplicationInv', FlowInv, NEW t \in Threads, Flush(t)
  PROVE  FlowInv'
<1>1. /\ UNCHANGED Wires /\ UNCHANGED Contents /\ withdrawals' = withdrawals /\ instance' = instance
      /\ At(t, "flush") /\ "flush" \in Plain
  BY DEF Flush, Wires, Contents, source, provider, binding, state, Plain
<1>2. ~Idle(t) /\ Top(t).at = "flush" /\ stack \in [Threads -> Seq(Frame)]
  BY <1>1, TopPlain
<1>3. CASE Return(t)
  <2>1. Move(t, {Top(t)}, {})
    BY <1>2, <1>3, Popped
  <2>2. Passes({Top(t)}, {})
    BY <1>2, Idly
  <2>3. QED
    BY <1>1, <2>1, <2>2, TopFlow
<1>4. CASE Then(t, <<Do("user"), Top(t)>>)
  <2>1. PICK f \in Frame, g \in Frame : f = Do("user") /\ f.at = "user" /\ g = Top(t)
    BY <1>2, TopTyped, DoTyped DEF Points, Plain
  <2>2. Move(t, {Top(t)}, {f, g})
    BY <1>2, <1>4, <2>1, Replaced2
  <2>3. Passes({Top(t)}, {f, g})
    BY <1>2, Idly
  <2>4. \A h \in {f, g} : h.at \in Plain /\ h.at # "drainSub" /\ Carries(h)'
    BY <1>2, <2>1, Carefree DEF Plain
  <2>5. QED
    BY <1>1, <2>2, <2>3, <2>4, TopFlow
<1>5. QED
  BY <1>3, <1>4 DEF Flush

LEMMA PublisherFlow ==
  ASSUME ReplicationInv, ReplicationInv', FlowInv, NEW t \in Publishers, LocalUnsubscribe(t) \/ Withdraw(t) \/ Provide(t)
  PROVE  FlowInv'
<1>1. /\ UNCHANGED <<revision, bound, subscription, subscribers, snap, providerLock>>
      /\ UNCHANGED <<seq, pending, sub, replica, reported>>
  BY DEF LocalUnsubscribe, Withdraw, Provide, source, provider, binding, state, listener
<1>2. t \in Threads /\ t # Rebinder /\ t # Starter /\ stack \in [Threads -> Seq(Frame)]
  BY PublisherIdle
<1>3. withdrawals \in Nat /\ (withdrawals = 0 => instance = "registered") /\ seq \in Nat
  BY DEF FlowInv, NumberInv, ReplicationInv, Typed
<1>4. /\ withdrawals' \in Nat
      /\ withdrawals' = 0 => withdrawals = 0 /\ instance' = "registered"
  <2>1. CASE LocalUnsubscribe(t)
    BY <1>3, <2>1 DEF LocalUnsubscribe, provider
  <2>2. CASE Withdraw(t)
    BY <1>3, <2>2 DEF Withdraw
  <2>3. CASE Provide(t)
    BY <1>3, <2>3 DEF Provide
  <2>4. QED
    BY <2>1, <2>2, <2>3
<1>5. \A new : Passes({}, new)
  BY DEF Passes
<1>6. CASE LocalUnsubscribe(t)
  <2>1. Move(t, {}, {}) /\ NoOwn({})
    BY <1>2, <1>6, Stay DEF LocalUnsubscribe, NoOwn
  <2>2. QED
    BY <1>1, <1>2, <1>4, <1>5, <2>1, FramesFlow
<1>7. ASSUME NEW f \in Frame, Idle(t), stack' = [stack EXCEPT ![t] = <<f>>], f.at \in Plain, f.at # "drainSub", Carries(f)'
      PROVE  FlowInv'
  <2>1. <<f>> \in Seq(Frame) /\ Frames(<<f>>) = {f}
    BY FramesOfTuples
  <2>2. Move(t, {}, {f})
    BY <1>2, <1>7, <2>1, StartOn
  <2>3. NoOwn({}) /\ NoOwn({f})
    BY <1>7, PlainNoOwn DEF NoOwn
  <2>4. QED
    BY <1>1, <1>2, <1>4, <1>5, <1>7, <2>2, <2>3, FramesFlow
<1>8. CASE Withdraw(t)
  <2>1. PICK f \in Frame : f = F("emit", 0, Unavailable) /\ f.at = "emit" /\ f.n = 0
    BY FrameTyped, ZeroTyped DEF Points, Plain, Unavailable
  <2>2. withdrawals' # 0
    BY <1>3, <1>8 DEF Withdraw
  <2>3. Carries(f)'
    BY <1>1, <1>3, <2>1, <2>2 DEF Carries, Number
  <2>4. QED
    BY <1>7, <1>8, <2>1, <2>3 DEF Withdraw, Plain
<1>9. CASE Provide(t)
  <2>1. PICK f \in Frame : f = Do("register") /\ f.at = "register"
    BY DoTyped DEF Points, Plain
  <2>2. Carries(f)'
    BY <2>1, Carefree
  <2>3. QED
    BY <1>7, <1>9, <2>1, <2>2 DEF Provide, Plain
<1>10. QED
  BY <1>6, <1>8, <1>9

(* Where a dispatch goes. *)
LEMMA DispatchFrames ==
  ASSUME NEW d \in Dispatches
  PROVE  /\ \A f \in Frames(Dispatch(d)) : f.at \in {"source", "local", "hydrate"} /\ f.n = d.n
         /\ \A f \in Frames(Dispatch(d)) : f.at = "source" => d.kind = "publication"
         /\ d.kind = "publication" => \E f \in Frames(Dispatch(d)) : f.at = "source" /\ f.n = d.n
<1>1. d.n \in Nat /\ 0 \in Revisions
  BY ZeroTyped DEF Dispatches
<1>2. \A at \in {"source", "local", "hydrate"} : F(at, 0, d.n).n = d.n /\ F(at, 0, d.n).at = at
  BY <1>1, FrameTyped DEF Points, Plain
<1>3. /\ Frames(<<F("source", 0, d.n), F("local", 0, d.n)>>) = {F("source", 0, d.n), F("local", 0, d.n)}
      /\ Frames(<<F("hydrate", 0, d.n)>>) = {F("hydrate", 0, d.n)}
  BY FramesOfTuples
<1>4. CASE d.kind = "publication"
  <2>1. Dispatch(d) = <<F("source", 0, d.n), F("local", 0, d.n)>>
    BY <1>4 DEF Dispatch
  <2>2. QED
    BY <1>2, <1>3, <1>4, <2>1
<1>5. CASE d.kind # "publication"
  <2>1. Dispatch(d) = <<F("hydrate", 0, d.n)>>
    BY <1>5 DEF Dispatch
  <2>2. QED
    BY <1>2, <1>3, <1>5, <2>1
<1>6. QED
  BY <1>4, <1>5

(* The frames of a dispatch, or nothing when it is queued. *)
Routed(new, d) ==
  /\ \A f \in new : f.at \in {"source", "local", "hydrate", "drain"} /\ (f.at # "drain" => f.n = d.n)
  /\ \A f \in new : f.at = "source" => d.kind = "publication"
Sends(new, d) == d.kind = "publication" => \E f \in new : f.at = "source" /\ f.n = d.n

LEMMA RouteFrames ==
  ASSUME ReplicationInv, NEW t \in Threads, NEW d \in Dispatches, Route(t, d)
  PROVE  \E new : /\ Move(t, {}, new) /\ Routed(new, d)
                  /\ \/ pending' = pending /\ Sends(new, d)
                     \/ Frames(pending') = Frames(pending) \union {d}
<1>1. stack \in [Threads -> Seq(Frame)] /\ pending \in Seq(Dispatches)
  BY DEF ReplicationInv, Typed
<1>2. /\ Dispatch(d) \in Seq(Frame) /\ Dispatch(d) \o <<Do("drain")>> \in Seq(Frame)
      /\ Frames(Dispatch(d) \o <<Do("drain")>>) = Frames(Dispatch(d)) \union {Do("drain")}
      /\ Do("drain").at = "drain"
  BY DispatchTyped, DispatchAndDrain, DrainTyped
<1>3. /\ Routed(Frames(Dispatch(d)), d) /\ Routed(Frames(Dispatch(d)) \union {Do("drain")}, d)
      /\ Sends(Frames(Dispatch(d)), d) /\ Sends(Frames(Dispatch(d)) \union {Do("drain")}, d)
  BY <1>2, DispatchFrames DEF Routed, Sends
<1>4. CASE pending' = pending /\ stack' = [stack EXCEPT ![t] = Dispatch(d) \o <<Do("drain")>> \o @]
  <2>1. PICK fs \in Seq(Frame) : fs = Dispatch(d) \o <<Do("drain")>>
    BY <1>2
  <2>2. stack' = [stack EXCEPT ![t] = fs \o @]
    BY <1>4, <2>1
  <2>3. Move(t, {}, Frames(fs))
    BY <1>1, <2>2, PushOn
  <2>4. QED
    BY <1>2, <1>3, <1>4, <2>1, <2>3
<1>5. CASE pending' = pending /\ stack' = [stack EXCEPT ![t] = Dispatch(d) \o @]
  <2>1. Move(t, {}, Frames(Dispatch(d)))
    BY <1>1, <1>2, <1>5, PushOn
  <2>2. QED
    BY <1>3, <1>5, <2>1
<1>6. CASE UNCHANGED stack /\ pending' = Append(pending, d)
  <2>1. Move(t, {}, {})
    BY <1>1, <1>6, Stay
  <2>2. Frames(pending') = Frames(pending) \union {d}
    BY <1>1, <1>6, FramesOfAppend
  <2>3. Routed({}, d)
    BY DEF Routed
  <2>4. QED
    BY <2>1, <2>2, <2>3
<1>7. QED
  BY <1>4, <1>5, <1>6 DEF Route

LEMMA RouteFlow ==
  ASSUME ReplicationInv, ReplicationInv', FlowInv, NEW t \in Threads, t # Rebinder, NEW d \in Dispatches, Route(t, d),
         seq <= seq', d.kind = "publication" => seq' = seq + 1 /\ d.n = seq + 1, d.kind # "publication" => seq' = seq,
         UNCHANGED <<revision, bound, subscription, subscribers, snap, providerLock>>,
         UNCHANGED <<sub, replica, reported, withdrawals, instance>>
  PROVE  FlowInv'
<1>1. PICK new : /\ Move(t, {}, new) /\ Routed(new, d)
                 /\ \/ pending' = pending /\ Sends(new, d)
                    \/ Frames(pending') = Frames(pending) \union {d}
  BY RouteFrames
<1>2. Typed /\ Typed' /\ StartsInv /\ ActiveInv /\ NumberInv /\ CoverInv /\ Same
  BY DEF ReplicationInv, FlowInv, Same
<1>3. /\ seq' \in Nat /\ replica'.seq <= seq' /\ revision \in Revisions /\ seq \in Nat /\ replica.seq \in Nat
      /\ withdrawals' \in Nat /\ (withdrawals' = 0 => instance' = "registered") /\ d.n \in Nat
  BY <1>2 DEF Typed, NumberInv, Dispatches
<1>4. NoOwn({}) /\ NoOwn(new)
  BY <1>1 DEF NoOwn, Routed, Own, StarterPoints, StartPoints, ClosePoints
<1>5. ActiveInv'
  <2>1. \A f \in new : f.at # "drainSub"
    BY <1>1 DEF Routed
  <2>2. QED
    BY <1>1, <1>2, <2>1, ActiveKept
<1>6. d.kind = "publication" => Number(d.n)'
  BY <1>3 DEF Number
<1>7. NumberInv'
  <2>1. \A f \in new : Carries(f)'
    BY <1>1, <1>6 DEF Routed, Carries
  <2>2. \A e \in Frames(pending') : e.kind = "publication" => e \in Frames(pending) \/ Number(e.n)'
    BY <1>1, <1>6
  <2>3. QED
    BY <1>1, <1>2, <1>3, <2>1, <2>2, NumberKept
<1>8. Frames(pending) \subseteq Frames(pending')
  BY <1>1
<1>9. Carried
  <2>1. ASSUME NEW n, Up(n) PROVE Up(n)'
    BY <1>1, <1>2, <1>8, <2>1, UpKept
  <2>2. ASSUME NEW n \in Nat, Down(n, revision) PROVE Down(n, revision)'
    <3>1. PICK r \in Revisions : r = revision
      BY <1>3
    <3>2. Down(n, r) /\ revision' = r
      BY <2>2, <3>1
    <3>3. Down(n, r)'
      BY <1>1, <3>2, DownKept
    <3>4. QED
      BY <3>2, <3>3
  <2>3. ASSUME NEW n \in (seq + 1)..seq' PROVE Up(n)'
    <3>1. d.kind = "publication" /\ d.n = n
      BY <1>3, <2>3
    <3>2. CASE Sends(new, d)
      BY <1>1, <3>1, <3>2 DEF Sends, Up, Move
    <3>3. CASE d \in Frames(pending')
      BY <3>1, <3>3 DEF Up
    <3>4. QED
      BY <1>1, <3>2, <3>3
  <2>4. Following => ~IsCold' /\ replica.seq <= replica'.seq
    BY <1>3 DEF Following, IsCold, Cold
  <2>5. QED
    BY <2>1, <2>2, <2>3, <2>4 DEF Carried, Queued, Coming
<1>10. QED
  BY <1>1, <1>2, <1>3, <1>4, <1>5, <1>7, <1>9, PlainFlow

LEMMA PublishFlow ==
  ASSUME ReplicationInv, ReplicationInv', FlowInv, NEW t \in Threads, Publish(t)
  PROVE  FlowInv'
<1>1. /\ seq \in Nat /\ seq' = seq + 1 /\ Route(t, [kind |-> "publication", n |-> seq + 1])
      /\ UNCHANGED <<revision, bound, subscription, subscribers, snap, providerLock>>
      /\ UNCHANGED <<sub, replica, reported, withdrawals, instance>>
  BY DEF ReplicationInv, Typed, Publish, provider, binding, state, listener
<1>2. PICK d \in Dispatches : d = [kind |-> "publication", n |-> seq + 1]
  BY <1>1 DEF Dispatches
<1>3. t # Rebinder
  <2>1. CASE t \in Publishers
    BY <2>1, PublisherIdle
  <2>2. CASE At(t, "user")
    BY <2>2, TopPlain DEF Plain
  <2>3. QED
    BY <2>1, <2>2 DEF Publish
<1>4. Route(t, d) /\ d.kind = "publication" /\ d.n = seq + 1 /\ seq <= seq'
  BY <1>1, <1>2
<1>5. QED
  BY <1>1, <1>3, <1>4, RouteFlow

LEMMA LocalSubscribeFlow ==
  ASSUME ReplicationInv, ReplicationInv', FlowInv, NEW t \in Publishers, LocalSubscribe(t)
  PROVE  FlowInv'
<1>1. /\ seq \in Nat /\ seq' = seq /\ Route(t, [kind |-> "hydration", n |-> seq])
      /\ UNCHANGED <<revision, bound, subscription, subscribers, snap, providerLock>>
      /\ UNCHANGED <<sub, replica, reported, withdrawals, instance>>
  BY DEF ReplicationInv, Typed, LocalSubscribe, provider, binding, state, listener
<1>2. PICK d \in Dispatches : d = [kind |-> "hydration", n |-> seq]
  BY <1>1 DEF Dispatches
<1>3. t \in Threads /\ t # Rebinder
  BY PublisherIdle
<1>4. Route(t, d) /\ d.kind # "publication" /\ seq <= seq'
  BY <1>1, <1>2
<1>5. QED
  BY <1>1, <1>3, <1>4, RouteFlow

LEMMA DrainDispatchesFlow ==
  ASSUME ReplicationInv, ReplicationInv', FlowInv, NEW t \in Threads, DrainDispatches(t)
  PROVE  FlowInv'
<1>1. /\ "drain" \in Plain /\ At(t, "drain") /\ seq' = seq
      /\ UNCHANGED <<revision, bound, subscription, subscribers, snap, providerLock>>
      /\ UNCHANGED <<sub, replica, reported, withdrawals, instance>>
  BY DEF DrainDispatches, Plain, provider, binding, state, listener
<1>2. t # Rebinder /\ ~Idle(t) /\ Top(t).at = "drain" /\ stack \in [Threads -> Seq(Frame)]
  BY <1>1, TopPlain
<1>3. CASE pending = <<>>
  <2>1. Return(t) /\ pending' = pending
    BY <1>3 DEF DrainDispatches
  <2>2. Move(t, {Top(t)}, {})
    BY <1>2, <2>1, Popped
  <2>3. Passes({Top(t)}, {})
    BY <1>2, Idly
  <2>4. UNCHANGED Wires /\ UNCHANGED Contents
    BY <1>1, <2>1 DEF Wires, Contents
  <2>5. QED
    BY <1>1, <2>2, <2>3, <2>4, TopFlow
<1>4. CASE pending # <<>>
  <2>1. pending \in Seq(Dispatches) /\ Frames(pending) = {Head(pending)} \union Frames(Tail(pending)) /\ Head(pending) \in Dispatches
    BY <1>4, FramesOfSeq DEF ReplicationInv, Typed
  <2>2. PICK d \in Dispatches : d = Head(pending)
    BY <2>1
  <2>3. PICK fs \in Seq(Frame) : fs = Dispatch(d) \o <<Do("drain")>> /\ Frames(fs) = Frames(Dispatch(d)) \union {Do("drain")}
    BY DispatchAndDrain
  <2>4. Then(t, fs) /\ pending' = Tail(pending)
    BY <1>4, <2>2, <2>3 DEF DrainDispatches
  <2>5. PICK new : new = Frames(fs)
    OBVIOUS
  <2>6. Move(t, {Top(t)}, new) /\ Routed(new, d) /\ Sends(new, d)
    BY <1>2, <2>3, <2>4, <2>5, ReplaceTop, DispatchFrames, DrainTyped DEF Routed, Sends
  <2>7. Frames(pending) = {d} \union Frames(pending')
    BY <2>1, <2>2, <2>4
  <2>8. Typed /\ Typed' /\ StartsInv /\ ActiveInv /\ NumberInv /\ CoverInv /\ Same
    BY <1>1 DEF ReplicationInv, FlowInv, Same
  <2>9. /\ seq' \in Nat /\ seq \in Nat /\ seq <= seq' /\ replica'.seq <= seq' /\ revision \in Revisions /\ replica.seq \in Nat
        /\ withdrawals' \in Nat /\ (withdrawals' = 0 => instance' = "registered" /\ withdrawals = 0)
    BY <1>1, <2>8 DEF Typed, NumberInv
  <2>10. NoOwn({Top(t)}) /\ NoOwn(new)
    BY <1>2, <2>6 DEF NoOwn, Routed, Own, StarterPoints, StartPoints, ClosePoints
  <2>11. ActiveInv'
    <3>1. \A f \in new : f.at # "drainSub"
      BY <2>6 DEF Routed
    <3>2. \A i \in Revisions : sub[i].active => sub'[i].active
      BY <1>1
    <3>3. QED
      BY <2>6, <2>8, <3>1, <3>2, ActiveKept
  <2>12. d.kind = "publication" => Number(d.n)'
    BY <1>1, <2>7, <2>8 DEF NumberInv, Number
  <2>13. NumberInv'
    <3>1. \A f \in new : Carries(f)'
      BY <2>6, <2>12 DEF Routed, Carries
    <3>2. \A e \in Frames(pending') : e.kind = "publication" => e \in Frames(pending) \/ Number(e.n)'
      BY <2>7
    <3>3. \A i \in Revisions : \A n \in Frames(sub'[i].buffer) : n \in Frames(sub[i].buffer) \/ Number(n)'
      BY <1>1
    <3>4. QED
      BY <2>6, <2>8, <2>9, <3>1, <3>2, <3>3, NumberKept
  <2>14. Carried
    <3>1. ASSUME NEW n, Up(n) PROVE Up(n)'
      <4>1. \A e \in Frames(pending) : e.kind = "publication" =>
              e \in Frames(pending') \/ \E g \in new : g.at \in {"source", "emit"} /\ g.n = e.n
        BY <2>6, <2>7 DEF Sends
      <4>2. \A f \in {Top(t)} : f.at \in {"source", "emit"} => \E g \in new : g.at \in {"source", "emit"} /\ g.n = f.n
        BY <1>2
      <4>3. QED
        BY <2>6, <2>8, <3>1, <4>1, <4>2, UpKept
    <3>2. ASSUME NEW n \in Nat, Down(n, revision) PROVE Down(n, revision)'
      <4>1. PICK r \in Revisions : r = revision
        BY <2>9
      <4>2. Down(n, r) /\ revision' = r
        BY <1>1, <3>2, <4>1
      <4>3. \A f \in {Top(t)} : Brings(f, n, r) => \E g \in new : Brings(g, n, r)
        BY <1>2 DEF Brings
      <4>4. n \in Frames(sub[r].buffer) => n \in Frames(sub'[r].buffer) \/ \E g \in new : Brings(g, n, r)
        BY <1>1
      <4>5. Down(n, r)'
        BY <2>6, <4>2, <4>3, <4>4, DownKept
      <4>6. QED
        BY <4>2, <4>5
    <3>3. \A n \in (seq + 1)..seq' : FALSE
      BY <1>1, <2>9
    <3>4. Following => ~IsCold' /\ replica.seq <= replica'.seq
      BY <1>1, <2>9 DEF Following, IsCold, Cold
    <3>5. sub' = sub /\ revision' = revision
      BY <1>1
    <3>6. QED
      BY <3>1, <3>2, <3>3, <3>4, <3>5 DEF Carried, Queued, Coming
  <2>15. reported \subseteq reported' /\ (withdrawals' = 0 => withdrawals = 0)
    BY <1>1
  <2>16. QED
    BY <1>1, <1>2, <2>6, <2>8, <2>9, <2>10, <2>11, <2>13, <2>14, <2>15, PlainFlow
<1>5. QED
  BY <1>3, <1>4

-----------------------------------------------------------------------------
(* Steps of the provider, the subscriber's buffer and the replica. *)

LEMMA SettledPlace ==
  ASSUME ReplicationInv, Place \in Settled
  PROVE  Closing = {}
<1>1. stack[Rebinder] \in Seq(Frame)
  BY DEF ReplicationInv, Typed, Threads
<1>2. \A p \in Settled : \A k \in DOMAIN p : p[k] = "await"
  BY DEF Settled
<1>3. \A k \in DOMAIN stack[Rebinder] : stack[Rebinder][k].at = "await"
  BY <1>1, <1>2, PlacesTyped DEF Place
<1>4. QED
  BY <1>3 DEF Closing, Frames, ClosePoints

LEMMA OnlyOpen ==
  ASSUME ReplicationInv, FlowInv, Watched, NEW i \in subscribers, ~sub[i].closed
  PROVE  i = revision
<1>1. Kept(i) /\ Place \in Settled /\ OwnInv
  BY DEF FlowInv, StartsInv, OpenInv, Watched
<1>2. Closing = {}
  BY <1>1, SettledPlace
<1>3. QED
  BY <1>1, <1>2 DEF Kept, OwnInv

(* The update reaches the open subscriber, if there is one. *)
Landed(n, new) ==
  \/ \A i \in subscribers : sub[i].closed
  \/ \E i \in subscribers :
       /\ ~sub[i].closed
       /\ n \in Frames(sub'[i].buffer) \/ (sub[i].active /\ \E g \in new : Brings(g, n, i))
Grown(n) ==
  \A j \in Revisions : /\ Frames(sub[j].buffer) \subseteq Frames(sub'[j].buffer)
                       /\ Frames(sub'[j].buffer) \subseteq Frames(sub[j].buffer) \union {n}
Emitted(n, new) ==
  \A f \in new : (f.at = "deliver" /\ f.n = n) \/ (f.at = "drainSub" /\ f.i \in Revisions /\ sub'[f.i].active)

LEMMA EmitEffect ==
  ASSUME ReplicationInv, NEW t \in Threads, Emit(t)
  PROVE  \E new : /\ Move(t, {Top(t)}, new) /\ Emitted(Top(t).n, new)
                  /\ Same /\ Grown(Top(t).n) /\ Landed(Top(t).n, new)
<1>1. At(t, "emit") /\ "emit" \in Plain
  BY DEF Emit, Plain
<1>2. ~Idle(t) /\ Top(t).at = "emit" /\ stack \in [Threads -> Seq(Frame)]
  BY <1>1, TopPlain
<1>3. PICK n \in Nat : n = Top(t).n
  BY <1>2, TopTyped
<1>4. subscribers \subseteq Revisions /\ sub \in [Revisions -> Subscriber]
  BY DEF ReplicationInv, Typed
<1>5. CASE (\A i \in subscribers : Skips(i)) /\ Return(t) /\ UNCHANGED sub
  <2>1. Move(t, {Top(t)}, {})
    BY <1>2, <1>5, Popped
  <2>2. Emitted(n, {}) /\ Same /\ Grown(n) /\ Landed(n, {})
    BY <1>5 DEF Emitted, Same, Grown, Landed, Skips
  <2>3. QED
    BY <1>3, <2>1, <2>2
<1>6. ASSUME NEW i \in subscribers, ~Skips(i), sub' = [sub EXCEPT ![i].buffer = Append(@, n)], Return(t)
      PROVE  \E new : /\ Move(t, {Top(t)}, new) /\ Emitted(n, new) /\ Same /\ Grown(n) /\ Landed(n, new)
  <2>1. i \in Revisions /\ sub[i] \in Subscriber /\ sub[i].buffer \in Seq(Nat) /\ ~sub[i].closed
    BY <1>4, <1>6 DEF Subscriber, Skips
  <2>2. Append(sub[i].buffer, n) \in Seq(Nat) /\ Frames(Append(sub[i].buffer, n)) = Frames(sub[i].buffer) \union {n}
    <3>1. PICK b \in Seq(Nat) : b = sub[i].buffer
      BY <2>1
    <3>2. QED
      BY <3>1, FramesOfAppend
  <2>3. /\ sub'[i].buffer = Append(sub[i].buffer, n) /\ sub'[i].closed = sub[i].closed /\ sub'[i].active = sub[i].active
        /\ \A j \in Revisions : j # i => sub'[j] = sub[j]
    BY <1>4, <1>6, <2>1 DEF Subscriber
  <2>4. Same /\ Grown(n)
    BY <2>2, <2>3 DEF Same, Grown
  <2>5. Landed(n, {}) /\ Emitted(n, {})
    BY <2>1, <2>2, <2>3 DEF Landed, Emitted
  <2>6. Move(t, {Top(t)}, {})
    BY <1>2, <1>6, Popped
  <2>7. QED
    BY <2>4, <2>5, <2>6
<1>7. ASSUME NEW i \in subscribers, ~Skips(i), ~Buffers(t, i), Then(t, <<F("deliver", i, n)>>), UNCHANGED sub
      PROVE  \E new : /\ Move(t, {Top(t)}, new) /\ Emitted(n, new) /\ Same /\ Grown(n) /\ Landed(n, new)
  <2>1. PICK f \in Frame : f = F("deliver", i, n) /\ f.at = "deliver" /\ f.i = i /\ f.n = n
    BY <1>4, FrameTyped DEF Points, Plain
  <2>2. Move(t, {Top(t)}, {f})
    BY <1>2, <1>7, <2>1, Replaced
  <2>3. Same /\ Grown(n) /\ Emitted(n, {f})
    BY <1>7, <2>1 DEF Same, Grown, Emitted
  <2>4. Landed(n, {f})
    BY <1>7, <2>1 DEF Landed, Brings, Skips, Buffers
  <2>5. QED
    BY <2>2, <2>3, <2>4
<1>8. ASSUME NEW i \in subscribers, ~Skips(i), ~Buffers(t, i),
             sub' = [sub EXCEPT ![i].owner = t, ![i].buffer = Append(@, n)], Then(t, <<F("drainSub", i, 0)>>)
      PROVE  \E new : /\ Move(t, {Top(t)}, new) /\ Emitted(n, new) /\ Same /\ Grown(n) /\ Landed(n, new)
  <2>1. i \in Revisions /\ sub[i] \in Subscriber /\ sub[i].buffer \in Seq(Nat) /\ ~sub[i].closed
    BY <1>4, <1>8 DEF Subscriber, Skips
  <2>2. Append(sub[i].buffer, n) \in Seq(Nat) /\ Frames(Append(sub[i].buffer, n)) = Frames(sub[i].buffer) \union {n}
    <3>1. PICK b \in Seq(Nat) : b = sub[i].buffer
      BY <2>1
    <3>2. QED
      BY <3>1, FramesOfAppend
  <2>3. /\ sub'[i].buffer = Append(sub[i].buffer, n) /\ sub'[i].closed = sub[i].closed /\ sub'[i].active = sub[i].active
        /\ \A j \in Revisions : j # i => sub'[j] = sub[j]
    <3>1. sub'[i] = [sub[i] EXCEPT !.owner = t, !.buffer = Append(sub[i].buffer, n)]
      BY <1>4, <1>8, <2>1
    <3>2. \A j \in Revisions : j # i => sub'[j] = sub[j]
      BY <1>4, <1>8, <2>1
    <3>3. QED
      BY <2>1, <3>1, <3>2 DEF Subscriber
  <2>4. PICK f \in Frame : f = F("drainSub", i, 0) /\ f.at = "drainSub" /\ f.i = i
    BY <2>1, FrameTyped DEF Points, Plain
  <2>5. Move(t, {Top(t)}, {f})
    BY <1>2, <1>8, <2>4, Replaced
  <2>6. Same /\ Grown(n)
    BY <2>2, <2>3 DEF Same, Grown
  <2>7. Emitted(n, {f})
    BY <1>8, <2>1, <2>3, <2>4 DEF Emitted, Buffers
  <2>8. Landed(n, {f})
    BY <2>1, <2>2, <2>3 DEF Landed
  <2>9. QED
    BY <2>5, <2>6, <2>7, <2>8
<1>9. QED
  BY <1>3, <1>5, <1>6, <1>7, <1>8 DEF Emit

LEMMA EmitFlow ==
  ASSUME ReplicationInv, ReplicationInv', FlowInv, NEW t \in Threads, Emit(t)
  PROVE  FlowInv'
<1>1. /\ "emit" \in Plain /\ At(t, "emit") /\ ProviderFree /\ seq' = seq /\ pending' = pending /\ replica' = replica
      /\ UNCHANGED <<revision, bound, subscription, subscribers, snap, providerLock>>
      /\ UNCHANGED <<reported, withdrawals, instance>>
  BY DEF Emit, Plain, source, binding, state, listener
<1>2. t # Rebinder /\ ~Idle(t) /\ Top(t).at = "emit" /\ stack \in [Threads -> Seq(Frame)]
  BY <1>1, TopPlain
<1>3. PICK n \in Nat : n = Top(t).n
  BY <1>2, TopTyped
<1>4. PICK new : /\ Move(t, {Top(t)}, new) /\ Emitted(n, new) /\ Same /\ Grown(n) /\ Landed(n, new)
  BY <1>3, EmitEffect
<1>5. Typed /\ Typed' /\ StartsInv /\ ActiveInv /\ NumberInv /\ CoverInv
  BY DEF ReplicationInv, FlowInv
<1>6. /\ seq' \in Nat /\ seq \in Nat /\ seq <= seq' /\ replica'.seq <= seq' /\ revision \in Revisions /\ replica.seq \in Nat
      /\ withdrawals' \in Nat /\ (withdrawals' = 0 => instance' = "registered" /\ withdrawals = 0)
  BY <1>1, <1>5 DEF Typed, NumberInv
<1>7. Number(n)'
  <2>1. Carries(Top(t))
    BY <1>2, <1>5, TopTyped DEF NumberInv
  <2>2. QED
    BY <1>1, <1>2, <1>3, <2>1 DEF Carries, Number
<1>8. NoOwn({Top(t)}) /\ NoOwn(new)
  BY <1>2, <1>4 DEF NoOwn, Emitted, Own, StarterPoints, StartPoints, ClosePoints
<1>9. ActiveInv'
  <2>1. \A f \in new : f.at = "drainSub" => f.i \in Revisions /\ sub'[f.i].active
    BY <1>4 DEF Emitted
  <2>2. \A i \in Revisions : sub[i].active => sub'[i].active
    BY <1>4 DEF Same
  <2>3. QED
    BY <1>4, <1>5, <2>1, <2>2, ActiveKept
<1>10. NumberInv'
  <2>1. \A f \in new : Carries(f)'
    BY <1>4, <1>7 DEF Emitted, Carries
  <2>2. \A d \in Frames(pending') : d.kind = "publication" => d \in Frames(pending) \/ Number(d.n)'
    BY <1>1
  <2>3. \A i \in Revisions : \A m \in Frames(sub'[i].buffer) : m \in Frames(sub[i].buffer) \/ Number(m)'
    BY <1>4, <1>7 DEF Grown
  <2>4. QED
    BY <1>4, <1>5, <1>6, <2>1, <2>2, <2>3, NumberKept
<1>11. ASSUME Watched PROVE Carried
  <2>1. ~Reading
    BY <1>1, ServiceReplicationAssumption DEF Reading, ProviderFree
  <2>2. ASSUME NEW m, m # n, Up(m) PROVE Up(m)'
    <3>1. CASE \E d \in Frames(pending) : d.kind = "publication" /\ d.n = m
      BY <1>1, <3>1 DEF Up
    <3>2. ASSUME NEW u \in Threads, NEW f \in Frames(stack[u]), f.at \in {"source", "emit"}, f.n = m PROVE Up(m)'
      <4>1. f # Top(t)
        BY <1>3, <2>2, <3>2
      <4>2. f \in Frames(stack'[u])
        BY <1>4, <3>2, <4>1 DEF Move
      <4>3. QED
        BY <3>2, <4>2 DEF Up
    <3>3. QED
      BY <2>2, <3>1, <3>2 DEF Up
  <2>3. Open(revision) => n \in Frames(sub'[revision].buffer) \/ (sub[revision].active /\ \E g \in new : Brings(g, n, revision))
    <3>1. SUFFICES ASSUME Open(revision)
                   PROVE  n \in Frames(sub'[revision].buffer) \/ (sub[revision].active /\ \E g \in new : Brings(g, n, revision))
      OBVIOUS
    <3>2. PICK i \in subscribers : /\ ~sub[i].closed
                                   /\ n \in Frames(sub'[i].buffer) \/ (sub[i].active /\ \E g \in new : Brings(g, n, i))
      BY <1>4, <3>1 DEF Landed, Open
    <3>3. i = revision
      BY <1>11, <3>2, OnlyOpen
    <3>4. QED
      BY <3>2, <3>3
  <2>4. revision' = revision /\ Frames(sub[revision].buffer) \subseteq Frames(sub'[revision].buffer)
    BY <1>1, <1>4, <1>6 DEF Grown
  <2>5. Buffering => \A m \in Nat : Queued(m) => Queued(m)'
    BY <2>2, <2>3, <2>4 DEF Buffering, Queued
  <2>6. PICK r \in Revisions : r = revision
    BY <1>6
  <2>7. ASSUME NEW m \in Nat, Down(m, r) PROVE Down(m, r)'
    <3>1. m \in Frames(sub[r].buffer) => m \in Frames(sub'[r].buffer) \/ \E g \in new : Brings(g, m, r)
      BY <2>4, <2>6
    <3>2. \A f \in {Top(t)} : Brings(f, m, r) => \E g \in new : Brings(g, m, r)
      BY <1>2 DEF Brings
    <3>3. QED
      BY <1>4, <2>7, <3>1, <3>2, DownKept
  <2>8. ASSUME NEW g \in new, Brings(g, n, r) PROVE Down(n, r)'
    BY <1>4, <2>8 DEF Down, Move, Brings
  <2>9. n \in Frames(sub'[r].buffer) => Down(n, r)'
    BY DEF Down
  <2>10. Following => \A m \in Nat : Coming(m) => Coming(m)'
    <3>1. SUFFICES ASSUME Following, NEW m \in Nat, Coming(m) PROVE Coming(m)'
      OBVIOUS
    <3>2. Open(revision) /\ revision' = r
      BY <2>4, <2>6, <3>1 DEF Following
    <3>3. CASE Down(m, r)
      BY <2>7, <3>2, <3>3 DEF Coming
    <3>4. CASE Up(m) /\ m # n
      BY <2>2, <3>4 DEF Coming
    <3>5. CASE m = n
      <4>1. Down(n, r)'
        BY <2>3, <2>6, <2>8, <2>9, <3>2
      <4>2. QED
        BY <3>2, <3>5, <4>1 DEF Coming
    <3>6. QED
      BY <2>6, <3>1, <3>3, <3>4, <3>5 DEF Coming
  <2>11. \A m \in (seq + 1)..seq' : FALSE
    BY <1>1, <1>6
  <2>12. Following => ~IsCold' /\ replica.seq <= replica'.seq
    BY <1>1, <1>6 DEF Following, IsCold, Cold
  <2>13. QED
    BY <2>1, <2>5, <2>10, <2>11, <2>12 DEF Carried
<1>12. reported \subseteq reported' /\ (withdrawals' = 0 => withdrawals = 0)
  BY <1>1
<1>13. QED
  BY <1>1, <1>2, <1>4, <1>6, <1>8, <1>9, <1>10, <1>11, <1>12, PlainFlow

(* A batch leaves the buffer, or the drain is over. *)
Batch(i, new) ==
  /\ \A f \in new : f.i = i /\ (f.at = "drainSub" \/ (f.at = "entries" /\ f.rest = sub[i].buffer))
  /\ \A j \in Revisions : Frames(sub'[j].buffer) \subseteq Frames(sub[j].buffer)
  /\ \A j \in Revisions : j # i => sub'[j].buffer = sub[j].buffer
  /\ \A n \in Frames(sub[i].buffer) : \E g \in new : Brings(g, n, i)

LEMMA DrainSubscriberEffect ==
  ASSUME ReplicationInv, NEW t \in Threads, DrainSubscriber(t), NEW i \in Revisions, i = Top(t).i
  PROVE  \E new : Move(t, {Top(t)}, new) /\ Same /\ Batch(i, new)
<1>1. "drainSub" \in Plain /\ At(t, "drainSub")
  BY DEF DrainSubscriber, Plain
<1>2. ~Idle(t) /\ Top(t).at = "drainSub" /\ stack \in [Threads -> Seq(Frame)]
  BY <1>1, TopPlain
<1>3. sub \in [Revisions -> Subscriber] /\ sub[i] \in Subscriber /\ sub[i].buffer \in Seq(Nat) /\ Top(t) \in Frame
  BY <1>2, TopTyped, SubTyped
<1>4. Frames(<<>>) = {} /\ <<>> \in Seq(Nat)
  BY FramesOfTuples
<1>5. CASE sub[i].buffer = <<>>
  <2>1. sub' = [sub EXCEPT ![i].owner = NoThread] /\ Return(t)
    BY <1>5 DEF DrainSubscriber
  <2>2. Move(t, {Top(t)}, {})
    BY <1>2, <2>1, Popped
  <2>3. \A j \in Revisions : sub'[j].buffer = sub[j].buffer /\ sub'[j].closed = sub[j].closed /\ sub'[j].active = sub[j].active
    BY <1>3, <2>1 DEF Subscriber
  <2>4. Same /\ Batch(i, {})
    BY <1>4, <1>5, <2>3 DEF Same, Batch
  <2>5. QED
    BY <2>2, <2>4
<1>6. CASE sub[i].buffer # <<>>
  <2>1. PICK e : e = [F("entries", i, 0) EXCEPT !.rest = sub[i].buffer]
    OBVIOUS
  <2>2. sub' = [sub EXCEPT ![i].buffer = <<>>] /\ Then(t, <<e, Top(t)>>)
    BY <1>6, <2>1 DEF DrainSubscriber
  <2>3. e \in Frame /\ e.at = "entries" /\ e.i = i /\ e.rest = sub[i].buffer
    <3>1. e = [at |-> "entries", i |-> i, n |-> 0, rest |-> sub[i].buffer]
      BY <2>1 DEF F
    <3>2. QED
      BY <1>3, <1>6, <3>1 DEF Frame, Points, Plain
  <2>4. Move(t, {Top(t)}, {e, Top(t)})
    BY <1>2, <1>3, <2>2, <2>3, Replaced2
  <2>5. /\ sub'[i].buffer = <<>>
        /\ \A j \in Revisions : /\ sub'[j].closed = sub[j].closed /\ sub'[j].active = sub[j].active
                                /\ j # i => sub'[j].buffer = sub[j].buffer
    BY <1>3, <2>2 DEF Subscriber
  <2>6. Batch(i, {e, Top(t)})
    BY <1>2, <1>4, <2>3, <2>5 DEF Batch, Brings
  <2>7. Same
    BY <2>5 DEF Same
  <2>8. QED
    BY <2>4, <2>6, <2>7
<1>7. QED
  BY <1>5, <1>6

LEMMA DrainSubscriberFlow ==
  ASSUME ReplicationInv, ReplicationInv', FlowInv, NEW t \in Threads, DrainSubscriber(t)
  PROVE  FlowInv'
<1>1. /\ "drainSub" \in Plain /\ At(t, "drainSub") /\ seq' = seq /\ pending' = pending /\ replica' = replica
      /\ UNCHANGED <<revision, bound, subscription, subscribers, snap, providerLock>>
      /\ UNCHANGED <<reported, withdrawals, instance>>
  BY DEF DrainSubscriber, Plain, source, binding, state, listener
<1>2. t # Rebinder /\ ~Idle(t) /\ Top(t).at = "drainSub" /\ stack \in [Threads -> Seq(Frame)]
  BY <1>1, TopPlain
<1>3. PICK i \in Revisions : i = Top(t).i
  BY <1>2, TopTyped
<1>4. PICK new : Move(t, {Top(t)}, new) /\ Same /\ Batch(i, new)
  BY <1>3, DrainSubscriberEffect
<1>5. Typed /\ Typed' /\ StartsInv /\ ActiveInv /\ NumberInv /\ CoverInv
  BY DEF ReplicationInv, FlowInv
<1>6. /\ seq' \in Nat /\ seq \in Nat /\ seq <= seq' /\ replica'.seq <= seq' /\ revision \in Revisions /\ replica.seq \in Nat
      /\ withdrawals' \in Nat /\ (withdrawals' = 0 => instance' = "registered" /\ withdrawals = 0)
  BY <1>1, <1>5 DEF Typed, NumberInv
<1>7. sub[i].active /\ sub'[i].active
  BY <1>2, <1>3, <1>4, <1>5, TopTyped DEF ActiveInv, Same
<1>8. NoOwn({Top(t)}) /\ NoOwn(new)
  BY <1>2, <1>4 DEF NoOwn, Batch, Own, StarterPoints, StartPoints, ClosePoints
<1>9. ActiveInv'
  <2>1. \A f \in new : f.at = "drainSub" => f.i \in Revisions /\ sub'[f.i].active
    BY <1>4, <1>7 DEF Batch
  <2>2. \A j \in Revisions : sub[j].active => sub'[j].active
    BY <1>4 DEF Same
  <2>3. QED
    BY <1>4, <1>5, <2>1, <2>2, ActiveKept
<1>10. NumberInv'
  <2>1. \A n \in Frames(sub[i].buffer) : Number(n)'
    BY <1>1, <1>5 DEF NumberInv, Number
  <2>2. \A f \in new : Carries(f)'
    BY <1>4, <2>1 DEF Batch, Carries
  <2>3. \A d \in Frames(pending') : d.kind = "publication" => d \in Frames(pending) \/ Number(d.n)'
    BY <1>1
  <2>4. \A j \in Revisions : \A m \in Frames(sub'[j].buffer) : m \in Frames(sub[j].buffer) \/ Number(m)'
    BY <1>4 DEF Batch
  <2>5. QED
    BY <1>4, <1>5, <1>6, <2>2, <2>3, <2>4, NumberKept
<1>11. Carried
  <2>1. ASSUME NEW n, Up(n) PROVE Up(n)'
    <3>1. \A d \in Frames(pending) : d.kind = "publication" =>
            d \in Frames(pending') \/ \E g \in new : g.at \in {"source", "emit"} /\ g.n = d.n
      BY <1>1
    <3>2. \A f \in {Top(t)} : f.at \in {"source", "emit"} => \E g \in new : g.at \in {"source", "emit"} /\ g.n = f.n
      BY <1>2
    <3>3. QED
      BY <1>4, <1>5, <2>1, <3>1, <3>2, UpKept
  <2>2. PICK r \in Revisions : r = revision
    BY <1>6
  <2>3. revision' = r
    BY <1>1, <2>2
  <2>4. ASSUME NEW n \in Nat, Down(n, r) PROVE Down(n, r)'
    <3>1. n \in Frames(sub[r].buffer) => n \in Frames(sub'[r].buffer) \/ \E g \in new : Brings(g, n, r)
      BY <1>4 DEF Batch
    <3>2. \A f \in {Top(t)} : Brings(f, n, r) => \E g \in new : Brings(g, n, r)
      BY <1>2 DEF Brings
    <3>3. QED
      BY <1>4, <2>4, <3>1, <3>2, DownKept
  <2>5. Buffering => \A n \in Nat : Queued(n) => Queued(n)'
    <3>1. Buffering => i # revision
      BY <1>7 DEF Buffering
    <3>2. i # revision => sub'[revision].buffer = sub[revision].buffer
      BY <1>4, <1>6 DEF Batch
    <3>3. QED
      BY <1>1, <2>1, <3>1, <3>2 DEF Queued
  <2>6. \A n \in Nat : Coming(n) => Coming(n)'
    BY <2>1, <2>2, <2>3, <2>4 DEF Coming
  <2>7. \A n \in (seq + 1)..seq' : FALSE
    BY <1>1, <1>6
  <2>8. Following => ~IsCold' /\ replica.seq <= replica'.seq
    BY <1>1, <1>6 DEF Following, IsCold, Cold
  <2>9. QED
    BY <2>1, <2>5, <2>6, <2>7, <2>8 DEF Carried
<1>12. reported \subseteq reported' /\ (withdrawals' = 0 => withdrawals = 0)
  BY <1>1
<1>13. QED
  BY <1>1, <1>2, <1>4, <1>6, <1>8, <1>9, <1>10, <1>11, <1>12, PlainFlow

(* A step of the replica that leaves nothing to watch, or goes on. *)
LEMMA ReplicaFlow ==
  ASSUME ReplicationInv, ReplicationInv', FlowInv, NEW t \in Threads, NEW at \in {"wipe", "apply"}, At(t, at),
         NEW new, Move(t, {Top(t)}, new), \A f \in new : f.at = "flush",
         UNCHANGED Wires, UNCHANGED <<seq, pending, sub, withdrawals, instance>>,
         reported \subseteq reported', replica'.seq <= seq,
         Watched /\ Watched' => /\ at = "apply" /\ ~IsCold' /\ replica.seq <= replica'.seq
                                /\ Top(t).n <= replica'.seq
  PROVE  FlowInv'
<1>1. at \in Plain /\ UNCHANGED <<revision, bound, subscription, subscribers, snap, providerLock>>
  BY DEF Plain, Wires
<1>2. t # Rebinder /\ ~Idle(t) /\ Top(t).at = at /\ stack \in [Threads -> Seq(Frame)]
  BY <1>1, TopPlain
<1>3. Typed /\ Typed' /\ StartsInv /\ ActiveInv /\ NumberInv /\ CoverInv /\ Same
  BY DEF ReplicationInv, FlowInv, Same
<1>4. /\ seq' \in Nat /\ seq \in Nat /\ seq <= seq' /\ replica'.seq <= seq' /\ revision \in Revisions
      /\ withdrawals' \in Nat /\ (withdrawals' = 0 => instance' = "registered" /\ withdrawals = 0)
  BY <1>3 DEF Typed, NumberInv
<1>5. NoOwn({Top(t)}) /\ NoOwn(new)
  BY <1>2 DEF NoOwn, Own, StarterPoints, StartPoints, ClosePoints
<1>6. ActiveInv'
  <2>1. \A f \in new : f.at = "drainSub" => f.i \in Revisions /\ sub'[f.i].active
    OBVIOUS
  <2>2. \A j \in Revisions : sub[j].active => sub'[j].active
    OBVIOUS
  <2>3. QED
    BY <1>3, <2>1, <2>2, ActiveKept
<1>7. NumberInv'
  <2>1. \A f \in new : Carries(f)'
    BY Carefree
  <2>2. \A d \in Frames(pending') : d.kind = "publication" => d \in Frames(pending) \/ Number(d.n)'
    OBVIOUS
  <2>3. \A j \in Revisions : \A m \in Frames(sub'[j].buffer) : m \in Frames(sub[j].buffer) \/ Number(m)'
    OBVIOUS
  <2>4. QED
    BY <1>3, <1>4, <2>1, <2>2, <2>3, NumberKept
<1>8. ASSUME Watched, Watched' PROVE Carried
  <2>0. at = "apply" /\ ~IsCold' /\ replica.seq <= replica'.seq /\ Top(t).n <= replica'.seq
    BY <1>8
  <2>1. ASSUME NEW n, Up(n) PROVE Up(n)'
    <3>1. \A d \in Frames(pending) : d.kind = "publication" =>
            d \in Frames(pending') \/ \E g \in new : g.at \in {"source", "emit"} /\ g.n = d.n
      OBVIOUS
    <3>2. \A f \in {Top(t)} : f.at \in {"source", "emit"} => \E g \in new : g.at \in {"source", "emit"} /\ g.n = f.n
      BY <1>2
    <3>3. QED
      BY <1>3, <2>1, <3>1, <3>2, UpKept
  <2>2. PICK r \in Revisions : r = revision
    BY <1>4
  <2>3. revision' = r
    BY <1>1, <2>2
  <2>4. ASSUME NEW n \in Nat, Down(n, r), n # Top(t).n PROVE Down(n, r)'
    <3>1. n \in Frames(sub[r].buffer) => n \in Frames(sub'[r].buffer) \/ \E g \in new : Brings(g, n, r)
      OBVIOUS
    <3>2. \A f \in {Top(t)} : Brings(f, n, r) => \E g \in new : Brings(g, n, r)
      BY <1>2, <2>0, <2>4 DEF Brings
    <3>3. QED
      BY <2>4, <3>1, <3>2, DownKept
  <2>5. \A n \in Nat : Queued(n) => Queued(n)'
    BY <1>1, <2>1 DEF Queued
  <2>6. \A n \in Nat : Coming(n) => Coming(n)' \/ n <= replica'.seq
    <3>1. SUFFICES ASSUME NEW n \in Nat, Coming(n) PROVE Coming(n)' \/ n <= replica'.seq
      OBVIOUS
    <3>2. CASE n = Top(t).n
      BY <2>0, <3>2
    <3>3. CASE n # Top(t).n
      BY <2>1, <2>2, <2>3, <2>4, <3>1, <3>3 DEF Coming
    <3>4. QED
      BY <3>2, <3>3
  <2>7. \A n \in (seq + 1)..seq' : FALSE
    BY <1>4
  <2>8. QED
    BY <2>0, <2>1, <2>5, <2>6, <2>7 DEF Carried
<1>9. withdrawals' = 0 => withdrawals = 0
  OBVIOUS
<1>10. QED
  BY <1>1, <1>2, <1>3, <1>4, <1>5, <1>6, <1>7, <1>8, <1>9, PlainFlow

LEMMA WipeFlow ==
  ASSUME ReplicationInv, ReplicationInv', FlowInv, NEW t \in Threads, Wipe(t)
  PROVE  FlowInv'
<1>1. /\ At(t, "wipe") /\ "wipe" \in Plain /\ Return(t) /\ Cleared /\ UNCHANGED Wires
      /\ UNCHANGED <<seq, pending, sub, withdrawals, instance>> /\ reported' = reported
  BY DEF Wipe, source, provider, binding, listener, Wires, Plain
<1>2. ~Idle(t) /\ Top(t).at = "wipe" /\ stack \in [Threads -> Seq(Frame)]
  BY <1>1, TopPlain
<1>3. Move(t, {Top(t)}, {}) /\ Top(t) \in Frames(stack[t])
  BY <1>1, <1>2, Popped
<1>4. ~Watched
  BY <1>2, <1>3 DEF FlowInv, NumberInv, Carries, Watched
<1>5. replica'.seq <= seq
  BY <1>1 DEF Cleared, Cold, ReplicationInv, Typed
<1>6. QED
  BY <1>1, <1>3, <1>4, <1>5, ReplicaFlow

LEMMA ApplyUpdateFlow ==
  ASSUME ReplicationInv, ReplicationInv', FlowInv, NEW t \in Threads, ApplyUpdate(t)
  PROVE  FlowInv'
<1>1. /\ At(t, "apply") /\ "apply" \in Plain /\ UNCHANGED Wires /\ UNCHANGED <<seq, pending, sub, withdrawals, instance>>
  BY DEF ApplyUpdate, source, provider, binding, Wires, Plain
<1>2. ~Idle(t) /\ Top(t).at = "apply" /\ stack \in [Threads -> Seq(Frame)]
  BY <1>1, TopPlain
<1>3. Top(t) \in Frames(stack[t]) /\ Top(t).n \in Nat /\ Top(t).i \in Revisions
  BY <1>2, TopTyped
<1>4. Top(t).n <= seq /\ replica.seq <= seq /\ seq \in Nat /\ replica \in [seq: Nat, value: Nat, torn: BOOLEAN, rev: Nat]
  BY <1>2, <1>3 DEF FlowInv, NumberInv, Carries, Number, ReplicationInv, Typed
<1>5. CASE Invalidated(Top(t).i) /\ Return(t) /\ UNCHANGED <<state, listener, reported>>
  <2>1. Move(t, {Top(t)}, {})
    BY <1>2, <1>5, Popped
  <2>2. Passes({Top(t)}, {})
    BY <1>2, <1>5 DEF Passes, Brings, Invalidated, Superseded
  <2>3. UNCHANGED Contents /\ withdrawals' = withdrawals /\ instance' = instance
    BY <1>1, <1>5 DEF Contents, state
  <2>4. QED
    BY <1>1, <2>1, <2>2, <2>3, TopFlow
<1>6. CASE ~Invalidated(Top(t).i) /\ reported' = reported \union {Top(t).i} /\ Return(t) /\ (replica' = replica \/ replica' = Cold)
  <2>1. Move(t, {Top(t)}, {})
    BY <1>2, <1>6, Popped
  <2>2. ~Watched'
    BY <1>1, <1>6 DEF Watched, Wires, Invalidated, Superseded
  <2>3. replica'.seq <= seq
    BY <1>4, <1>6 DEF Cold
  <2>4. QED
    BY <1>1, <1>6, <2>1, <2>2, <2>3, ReplicaFlow
<1>7. ASSUME NEW v, ~IsCold, Contiguous(Top(t).n), Deliver(t, <<>>), reported' = reported,
             replica' = [replica EXCEPT !.seq = Top(t).n, !.value = v]
      PROVE  FlowInv'
  <2>1. \E fs \in Seq(Frame) : /\ Then(t, fs) /\ Move(t, {Top(t)}, Frames(fs))
                               /\ \A f \in Frames(fs) : f.at = "flush" \/ f \in Frames(<<>>)
    <3>1. <<>> \in Seq(Frame)
      OBVIOUS
    <3>2. QED
      BY <1>2, <1>7, <3>1, DeliverStep
  <2>2. PICK fs \in Seq(Frame) : Move(t, {Top(t)}, Frames(fs)) /\ \A f \in Frames(fs) : f.at = "flush" \/ f \in Frames(<<>>)
    BY <2>1
  <2>3. PICK new : new = Frames(fs) /\ Move(t, {Top(t)}, new)
    BY <2>2
  <2>4. \A f \in new : f.at = "flush"
    BY <2>2, <2>3, FramesOfTuples
  <2>5. replica'.seq = Top(t).n /\ Top(t).n = replica.seq + 1
    BY <1>4, <1>7 DEF Contiguous
  <2>6. ~IsCold'
    BY <1>4, <2>5 DEF IsCold, Cold
  <2>7. replica'.seq <= seq /\ replica.seq <= replica'.seq /\ Top(t).n <= replica'.seq
    BY <1>3, <1>4, <2>5
  <2>8. QED
    BY <1>1, <1>7, <2>3, <2>4, <2>6, <2>7, ReplicaFlow
<1>8. QED
  BY <1>5, <1>6, <1>7 DEF ApplyUpdate, state, Cleared

-----------------------------------------------------------------------------
(* Steps of the start. *)

(* The start replaces its top frame, of revision i, by others of its own. *)
StarterMove(i, new) ==
  /\ ~Idle(Starter) /\ Top(Starter).at \in Own /\ Top(Starter).i = i
  /\ Move(Starter, {Top(Starter)}, new)
  /\ \A f \in new : /\ f.at \notin {"source", "emit", "deliver", "apply", "entries", "wipe"}
                    /\ f.at \in Own \union {"drainSub"} => f.i = i
  /\ UNCHANGED <<revision, bound, seq, pending, withdrawals, instance>> /\ reported \subseteq reported'

(* It is the start of revision i only, and leaves the other subscribers alone. *)
Starting(i, new) ==
  /\ subscription' \subseteq subscription \union {i} /\ subscribers' \subseteq subscribers \union {i}
  /\ \A j \in Revisions : j # i => sub'[j].closed = sub[j].closed /\ sub'[j].active = sub[j].active
  /\ sub[i].closed => sub'[i].closed
  /\ \A f \in OwnFrames' : f.at \in StartPoints => f \in new /\ subscription' = {}
  /\ \A f \in new : /\ f.at \in {"subscribe", "value"} => New(i)'
                    /\ f.at = "close" => ~(Place \in Settled /\ bound)
                    /\ f.at = "remove" => sub'[i].closed
  /\ i \in subscribers' /\ ~sub'[i].closed => Kept(i)'

LEMMA StarterPlace ==
  ASSUME ReplicationInv, StartsInv, NEW i, NEW new, StarterMove(i, new)
  PROVE  /\ Place' = Place /\ Closing' = Closing /\ Place \notin Taken
         /\ Top(Starter) \in OwnFrames
         /\ \A f \in OwnFrames' : f \in OwnFrames \/ f \in new
         /\ \A f \in OwnFrames : f = Top(Starter) \/ f \in OwnFrames'
         /\ \A f \in new : f.at \in Own => f \in OwnFrames'
<1>1. Starter \in Threads /\ Rebinder \in Threads /\ Starter # Rebinder /\ ~Idle(Starter) /\ Top(Starter).at \in Own
  BY ServiceReplicationAssumption DEF Threads, StarterMove
<1>2. Move(Starter, {Top(Starter)}, new) /\ stack'[Rebinder] = stack[Rebinder]
  BY <1>1 DEF StarterMove, Move
<1>3. Place \notin Taken
  <2>1. \A p \in Taken : p \in Stopped
    BY DEF Taken, Stopped
  <2>2. QED
    BY <1>1, <2>1 DEF ReplicationInv, RebindInv, Place
<1>4. Top(Starter) \in Frames(stack[Starter])
  BY <1>1, TopTyped DEF ReplicationInv, Typed
<1>5. QED
  BY <1>1, <1>2, <1>3, <1>4 DEF Place, Closing, OwnFrames, Move

LEMMA StarterStarts ==
  ASSUME ReplicationInv, StartsInv, NEW i \in Revisions, NEW new, StarterMove(i, new), Starting(i, new)
  PROVE  StartsInv'
<1>1. /\ Place' = Place /\ Closing' = Closing /\ Place \notin Taken
      /\ Top(Starter) \in OwnFrames /\ Top(Starter).i = i
      /\ \A f \in OwnFrames' : f \in OwnFrames \/ f \in new
      /\ \A f \in OwnFrames : f = Top(Starter) \/ f \in OwnFrames'
      /\ \A f \in new : f.at \in Own => f \in OwnFrames'
  BY StarterPlace DEF StarterMove
<1>2. BoundInv /\ OwnInv /\ FreshInv /\ OpenInv /\ revision' = revision /\ bound' = bound
  BY DEF StartsInv, StarterMove
<1>3. /\ Seen(i) /\ subscription \subseteq {i} /\ (Place \in Settled => i = revision)
      /\ \A f \in OwnFrames : f.i = i
  BY <1>1, <1>2 DEF OwnInv
<1>4. \A j : Seen(j)' <=> Seen(j)
  BY <1>1, <1>2 DEF Seen
<1>5. \A f \in OwnFrames' : f.i = i /\ f.at \in Own
  BY <1>1, <1>3 DEF OwnFrames, StarterMove
<1>6. BoundInv'
  BY <1>1, <1>2 DEF BoundInv
<1>7. OwnInv'
  <2>1. subscription' \subseteq {i}
    BY <1>3 DEF Starting
  <2>2. ASSUME NEW f \in OwnFrames' PROVE Place \in Settled /\ bound => f.at # "close"
    BY <1>1, <1>2 DEF OwnInv, Starting
  <2>3. ASSUME NEW f \in OwnFrames' PROVE f.at \in StartPoints => subscription' = {}
    BY DEF Starting
  <2>4. \A f \in Closing : Seen(f.i)
    BY <1>2 DEF OwnInv
  <2>5. QED
    BY <1>1, <1>2, <1>3, <1>4, <1>5, <2>1, <2>2, <2>3, <2>4 DEF OwnInv
<1>8. FreshInv'
  <2>1. ASSUME NEW j \in Revisions, ~Seen(j)' PROVE New(j)'
    <3>1. j # i /\ New(j)
      BY <1>2, <1>3, <1>4, <2>1 DEF FreshInv
    <3>2. QED
      BY <3>1 DEF New, Starting
  <2>2. ASSUME NEW f \in OwnFrames', f.at \in {"subscribe", "value"} PROVE New(f.i)'
    <3>1. f \in new /\ f.i = i
      BY <1>5, <2>2 DEF Starting, StartPoints
    <3>2. New(i)'
      BY <2>2, <3>1 DEF Starting
    <3>3. QED
      BY <3>1, <3>2
  <2>3. QED
    BY <2>1, <2>2 DEF FreshInv
<1>9. OpenInv'
  <2>1. ASSUME NEW j \in subscribers', ~sub'[j].closed PROVE Kept(j)'
    <3>1. CASE j = i
      BY <2>1, <3>1 DEF Starting
    <3>2. CASE j # i
      <4>1. j \in subscribers /\ j \in Revisions
        BY <3>2 DEF Starting, ReplicationInv, Typed
      <4>2. ~sub[j].closed
        BY <2>1, <3>2, <4>1 DEF Starting
      <4>3. Kept(j)
        BY <1>2, <4>1, <4>2 DEF OpenInv
      <4>4. \E f \in Closing : f.at = "close" /\ f.i = j
        BY <1>3, <3>2, <4>3 DEF Kept
      <4>5. QED
        BY <1>1, <4>4 DEF Kept
    <3>3. QED
      BY <3>1, <3>2
  <2>2. ASSUME NEW f \in OwnFrames' \union Closing', f.at = "remove" PROVE sub'[f.i].closed
    <3>1. CASE f \in new /\ f \in OwnFrames'
      BY <1>5, <2>2, <3>1 DEF Starting
    <3>2. CASE f \in OwnFrames \union Closing
      <4>1. sub[f.i].closed
        BY <1>2, <2>2, <3>2 DEF OpenInv
      <4>2. f.i \in Revisions
        <5>1. \A t \in Threads : \A g \in Frames(stack[t]) : g \in Frame
          BY FramesOfSeq DEF ReplicationInv, Typed
        <5>2. QED
          BY <3>2, <5>1 DEF OwnFrames, Closing, Frame, Threads
      <4>3. QED
        BY <4>1, <4>2 DEF Starting
    <3>3. QED
      BY <1>1, <2>2, <3>1, <3>2
  <2>3. QED
    BY <2>1, <2>2 DEF OpenInv
<1>10. QED
  BY <1>6, <1>7, <1>8, <1>9 DEF StartsInv

LEMMA StarterFlow ==
  ASSUME ReplicationInv, ReplicationInv', FlowInv, NEW i \in Revisions, NEW new, StarterMove(i, new), Starting(i, new),
         \A f \in new : f.at = "drainSub" => sub'[i].active, sub[i].active => sub'[i].active,
         \A j \in Revisions : Frames(sub'[j].buffer) \subseteq Frames(sub[j].buffer), replica'.seq <= seq,
         Watched /\ Watched' /\ i = revision => (ToStart \/ Reading \/ Buffering \/ Following)'
  PROVE  FlowInv'
<1>1. Typed /\ Typed' /\ StartsInv /\ ActiveInv /\ NumberInv /\ CoverInv /\ Starter \in Threads
  BY DEF ReplicationInv, FlowInv, Threads
<1>2. /\ seq' = seq /\ seq' \in Nat /\ seq <= seq' /\ withdrawals' = withdrawals /\ withdrawals' \in Nat /\ pending' = pending
      /\ withdrawals' = 0 => instance' = "registered"
      /\ Move(Starter, {Top(Starter)}, new) /\ reported \subseteq reported' /\ bound' = bound /\ revision' = revision
  <2>1. /\ seq' = seq /\ withdrawals' = withdrawals /\ pending' = pending /\ instance' = instance
        /\ Move(Starter, {Top(Starter)}, new) /\ reported \subseteq reported' /\ bound' = bound /\ revision' = revision
    BY DEF StarterMove
  <2>2. seq \in Nat /\ withdrawals \in Nat /\ (withdrawals = 0 => instance = "registered")
    BY <1>1 DEF Typed, NumberInv
  <2>3. QED
    BY <2>1, <2>2
<1>3. StartsInv' /\ Place' = Place /\ Top(Starter) \in OwnFrames /\ Top(Starter).i = i
  <2>1. StartsInv'
    BY <1>1, StarterStarts
  <2>2. Place' = Place /\ Top(Starter) \in OwnFrames
    BY <1>1, StarterPlace
  <2>3. QED
    BY <2>1, <2>2 DEF StarterMove
<1>4. ActiveInv'
  <2>1. \A f \in new : f.at = "drainSub" => f.i \in Revisions /\ sub'[f.i].active
    BY DEF StarterMove
  <2>2. \A j \in Revisions : sub[j].active => sub'[j].active
    BY DEF Starting
  <2>3. QED
    BY <1>1, <1>2, <2>1, <2>2, ActiveKept
<1>5. NumberInv'
  <2>1. \A f \in new : Carries(f)'
    BY Carefree DEF StarterMove
  <2>2. \A d \in Frames(pending') : d.kind = "publication" => d \in Frames(pending) \/ Number(d.n)'
    BY <1>2
  <2>3. \A j \in Revisions : \A m \in Frames(sub'[j].buffer) : m \in Frames(sub[j].buffer) \/ Number(m)'
    OBVIOUS
  <2>4. replica'.seq <= seq' /\ (withdrawals' = 0 => withdrawals = 0)
    BY <1>2
  <2>5. QED
    BY <1>1, <1>2, <2>1, <2>2, <2>3, <2>4, NumberKept
<1>6. CoverInv'
  <2>1. Watched' => Watched
    BY <1>2, <1>3 DEF Watched
  <2>2. Watched => i = revision
    BY <1>1, <1>3 DEF Watched, StartsInv, OwnInv
  <2>3. QED
    BY <2>1, <2>2 DEF CoverInv
<1>7. QED
  BY <1>3, <1>4, <1>5, <1>6 DEF FlowInv

(* What is on its way stays so. *)
LEMMA StarterUp ==
  ASSUME ReplicationInv, NEW i, NEW new, StarterMove(i, new), NEW n, Up(n)
  PROVE  Up(n)'
<1>1. Starter \in Threads /\ Move(Starter, {Top(Starter)}, new) /\ pending' = pending /\ Typed /\ Top(Starter).at \in Own
  BY DEF StarterMove, Threads, ReplicationInv
<1>2. \A d \in Frames(pending) : d.kind = "publication" =>
        d \in Frames(pending') \/ \E g \in new : g.at \in {"source", "emit"} /\ g.n = d.n
  BY <1>1
<1>3. \A f \in {Top(Starter)} : f.at \in {"source", "emit"} => \E g \in new : g.at \in {"source", "emit"} /\ g.n = f.n
  BY <1>1 DEF Own, StarterPoints, StartPoints, ClosePoints
<1>4. QED
  BY <1>1, <1>2, <1>3, UpKept

LEMMA StarterDown ==
  ASSUME ReplicationInv, NEW i, NEW new, StarterMove(i, new), NEW r \in Revisions, sub'[r].buffer = sub[r].buffer,
         NEW n, Down(n, r)
  PROVE  Down(n, r)'
<1>1. Starter \in Threads /\ Move(Starter, {Top(Starter)}, new) /\ Top(Starter).at \in Own
  BY DEF StarterMove, Threads
<1>2. \A f \in {Top(Starter)} : Brings(f, n, r) => \E g \in new : Brings(g, n, r)
  BY <1>1 DEF Brings, Own, StarterPoints, StartPoints, ClosePoints
<1>3. QED
  BY <1>1, <1>2, DownKept

LEMMA Follows ==
  ASSUME ReplicationInv, FlowInv, Watched, NEW t \in Threads, t = Starter, ~Idle(t), Top(t).at \notin StartPoints
  PROVE  Following
<1>1. \A f \in Frames(stack[Starter]) : f.at \notin StartPoints
  <2>1. SUFFICES ASSUME NEW f \in Frames(stack[Starter]), f.at \in StartPoints PROVE FALSE
    OBVIOUS
  <2>2. stack[Starter] = <<f>>
    BY <2>1 DEF ReplicationInv, StartInv
  <2>3. Top(t) = f
    BY <2>2 DEF Top
  <2>4. QED
    BY <2>1, <2>3
<1>2. ~ToStart /\ ~Reading /\ ~Buffering
  BY <1>1 DEF ToStart, Reading, Buffering, Has, StartPoints
<1>3. QED
  BY <1>2 DEF FlowInv, CoverInv

(* The start goes on without touching the subscriber or the replica. *)
LEMMA FollowingKept ==
  ASSUME ReplicationInv, ReplicationInv', FlowInv, NEW new, StarterMove(revision, new), Following,
         Top(Starter).at \notin StartPoints \union {"activate"}, \A f \in new : f.at \notin StartPoints,
         UNCHANGED <<sub, subscribers, replica>>
  PROVE  Following'
<1>1. /\ revision' = revision /\ revision \in Revisions /\ seq' = seq
      /\ Starter \in Threads /\ Move(Starter, {Top(Starter)}, new)
  BY DEF StarterMove, ReplicationInv, Typed, Threads
<1>2. \A f \in OwnFrames' : f.at \notin StartPoints
  <2>1. \A f \in OwnFrames' : f \in OwnFrames \/ f \in new
    BY StarterPlace DEF FlowInv
  <2>2. QED
    BY <2>1 DEF Following
<1>3. PICK r \in Revisions : r = revision
  BY <1>1
<1>4. Has(stack[Starter], "activate", r) => Has(stack'[Starter], "activate", r)
  <2>1. \A f \in {Top(Starter)} : f.at = "activate" /\ f.i = r => \E g \in new : g.at = "activate" /\ g.i = r
    OBVIOUS
  <2>2. QED
    BY <1>1, <2>1, HasKept
<1>5. \A n \in (replica.seq + 1)..seq : Up(n)' \/ Down(n, r)'
  BY <1>3, StarterUp, StarterDown DEF Following
<1>6. ~IsCold' /\ Open(revision)'
  BY <1>1 DEF Following, IsCold, Cold, Open
<1>7. \A n \in (replica'.seq + 1)..seq' : Up(n)' \/ Down(n, revision)'
  <2>1. revision' = r /\ replica' = replica
    BY <1>1, <1>3
  <2>2. QED
    BY <1>1, <1>5, <2>1
<1>8. QED
  BY <1>1, <1>2, <1>3, <1>4, <1>6, <1>7 DEF Following

LEMMA OneTuple ==
  ASSUME NEW f \in Frame
  PROVE  \E fs \in Seq(Frame) : fs = <<f>> /\ Frames(fs) = {f}
<1>1. <<f>> \in Seq(Frame) /\ Frames(<<f>>) = {f}
  BY FramesOfTuples
<1>2. QED
  BY <1>1

(* Before its snapshot is installed the start has one frame. *)
LEMMA OneFrame ==
  ASSUME ReplicationInv, FlowInv, NEW t \in Threads, NEW at \in StartPoints, At(t, at), NEW frames \in Seq(Frame), Then(t, frames)
  PROVE  /\ t = Starter /\ ~Idle(t) /\ Top(t).at = at /\ Top(t).at \in Own /\ Top(t).i \in Revisions
         /\ stack'[Starter] = frames /\ Move(Starter, {Top(t)}, Frames(frames))
         /\ OwnFrames = {Top(t)} /\ subscription = {}
         /\ \A f \in OwnFrames' : f \in Frames(frames)
<1>1. /\ Typed /\ StartInv /\ ~Idle(t) /\ Top(t).at = at /\ stack \in [Threads -> Seq(Frame)]
  BY DEF ReplicationInv, At, Typed
<1>2. t = Starter /\ stack[t] = <<Top(t)>> /\ stack'[t] = frames /\ Move(t, {Top(t)}, Frames(frames))
  BY <1>1, StartStep
<1>3. Top(t).at \in Own /\ Top(t).i \in Revisions
  BY <1>1, TopTyped DEF Own, StarterPoints
<1>4. OwnFrames = {Top(t)}
  <2>1. Frames(<<Top(t)>>) = {Top(t)}
    BY FramesOfTuples
  <2>2. QED
    BY <1>2, <1>3, <2>1 DEF OwnFrames
<1>5. subscription = {}
  BY <1>1, <1>4 DEF FlowInv, StartsInv, OwnInv
<1>6. QED
  BY <1>1, <1>2, <1>3, <1>4, <1>5 DEF OwnFrames

LEMMA ReadSequenceFlow ==
  ASSUME ReplicationInv, ReplicationInv', FlowInv, NEW t \in Threads, ReadSequence(t)
  PROVE  FlowInv'
<1>1. /\ At(t, "subscribe") /\ "subscribe" \in StartPoints /\ replica' = replica /\ sub' = sub
      /\ UNCHANGED <<revision, bound, seq, pending, withdrawals, instance>> /\ reported \subseteq reported'
      /\ subscription' = subscription /\ subscribers' = subscribers
  BY DEF ReadSequence, source, binding, state, listener, StartPoints
<1>2. replica'.seq <= seq /\ seq \in Nat /\ StartsInv
  BY <1>1 DEF FlowInv, NumberInv, ReplicationInv, Typed
<1>3. ASSUME NEW i \in Revisions, NEW new, StarterMove(i, new), OwnFrames = {Top(t)}, Top(t).at = "subscribe", Top(t).i = i,
             subscription = {}, \A f \in OwnFrames' : f \in new, \A f \in new : f.at = "value"
      PROVE  Starting(i, new)
  <2>1. Closing' = Closing /\ New(i)
    BY <1>2, <1>3, StarterPlace DEF StartsInv, FreshInv
  <2>2. New(i)'
    BY <1>1, <2>1 DEF New
  <2>3. i \in subscribers' /\ ~sub'[i].closed => Kept(i)'
    BY <1>1, <1>2, <1>3, <2>1 DEF StartsInv, OpenInv, Kept
  <2>4. QED
    BY <1>1, <1>3, <2>2, <2>3 DEF Starting
<1>4. CASE Return(t) /\ reported' = reported \union {Top(t).i}
  <2>1. <<>> \in Seq(Frame) /\ Frames(<<>>) = {} /\ Then(t, <<>>)
    BY <1>4, FramesOfTuples DEF Return
  <2>2. /\ t = Starter /\ ~Idle(t) /\ Top(t).at = "subscribe" /\ Top(t).at \in Own /\ Top(t).i \in Revisions
        /\ Move(Starter, {Top(t)}, {}) /\ OwnFrames = {Top(t)} /\ subscription = {} /\ \A f \in OwnFrames' : f \in {}
    BY <1>1, <2>1, OneFrame
  <2>3. PICK i \in Revisions : i = Top(t).i
    BY <2>2
  <2>4. StarterMove(i, {})
    BY <1>1, <2>2, <2>3 DEF StarterMove
  <2>5. Starting(i, {})
    BY <1>3, <2>2, <2>3, <2>4
  <2>6. ~(Watched' /\ i = revision)
    BY <1>1, <1>4, <2>3 DEF Watched
  <2>7. \A j \in Revisions : Frames(sub'[j].buffer) \subseteq Frames(sub[j].buffer)
    BY <1>1
  <2>8. QED
    BY <1>1, <1>2, <2>4, <2>5, <2>6, <2>7, StarterFlow
<1>5. CASE /\ providerLock' = t /\ snap' = [snap EXCEPT !.seq = seq] /\ Then(t, <<F("value", Top(t).i, 0)>>)
  <2>1. PICK i \in Revisions : i = Top(t).i
    BY <1>1, TopStarter DEF StarterPoints
  <2>2. PICK f \in Frame : f = F("value", i, 0) /\ f.at = "value" /\ f.i = i
    BY OwnFrame DEF StarterPoints, StartPoints
  <2>3. PICK fs \in Seq(Frame) : fs = <<f>> /\ Frames(fs) = {f}
    BY OneTuple
  <2>4. Then(t, fs)
    BY <1>5, <2>1, <2>2, <2>3
  <2>5. /\ t = Starter /\ ~Idle(t) /\ Top(t).at = "subscribe" /\ Top(t).at \in Own
        /\ Move(Starter, {Top(t)}, {f}) /\ OwnFrames = {Top(t)} /\ subscription = {} /\ \A g \in OwnFrames' : g \in {f}
    BY <1>1, <2>3, <2>4, OneFrame
  <2>6. StarterMove(i, {f})
    BY <1>1, <2>1, <2>2, <2>5 DEF StarterMove
  <2>7. Starting(i, {f})
    BY <1>3, <2>1, <2>2, <2>5, <2>6
  <2>8. i = revision => Reading'
    <3>1. SUFFICES ASSUME i = revision PROVE Reading'
      OBVIOUS
    <3>2. f \in Frames(stack'[Starter])
      BY <2>5 DEF Move
    <3>3. Has(stack'[Starter], "value", revision')
      BY <1>1, <2>2, <3>1, <3>2 DEF Has
    <3>4. snap'.seq = seq /\ seq' = seq
      BY <1>1, <1>5 DEF ReplicationInv, Typed
    <3>5. \A n \in (snap'.seq + 1)..seq' : FALSE
      BY <1>2, <3>4
    <3>6. QED
      BY <1>5, <2>5, <3>3, <3>5 DEF Reading
  <2>9. \A j \in Revisions : Frames(sub'[j].buffer) \subseteq Frames(sub[j].buffer)
    BY <1>1
  <2>10. \A g \in {f} : g.at # "drainSub"
    BY <2>2
  <2>11. QED
    BY <1>1, <1>2, <2>6, <2>7, <2>8, <2>9, <2>10, StarterFlow
<1>6. QED
  BY <1>4, <1>5 DEF ReadSequence

LEMMA ReadValueFlow ==
  ASSUME ReplicationInv, ReplicationInv', FlowInv, NEW t \in Threads, ReadValue(t)
  PROVE  FlowInv'
<1>1. /\ At(t, "value") /\ "value" \in StartPoints /\ replica' = replica /\ sub' = sub
      /\ UNCHANGED <<revision, bound, seq, pending, withdrawals, instance>> /\ reported \subseteq reported'
      /\ subscription' = subscription
  BY DEF ReadValue, source, binding, state, listener, StartPoints
<1>2. replica'.seq <= seq /\ seq \in Nat /\ StartsInv
  BY <1>1 DEF FlowInv, NumberInv, ReplicationInv, Typed
<1>3. PICK i \in Revisions : i = Top(t).i
  BY <1>1, TopStarter DEF StarterPoints
<1>4. PICK at : at = IF Current(i) THEN "install" ELSE "close"
  OBVIOUS
<1>5. PICK f \in Frame : f = F(at, i, 0) /\ f.at = at /\ f.i = i
  BY <1>4, OwnFrame DEF StarterPoints, StartPoints, ClosePoints
<1>6. PICK fs \in Seq(Frame) : fs = <<f>> /\ Frames(fs) = {f}
  BY OneTuple
<1>7. Then(t, fs) /\ subscribers' = subscribers \union {i} /\ snap' = IF Current(i) THEN [snap EXCEPT !.value = seq] ELSE NoSnapshot
  BY <1>3, <1>4, <1>5, <1>6 DEF ReadValue
<1>8. /\ t = Starter /\ ~Idle(t) /\ Top(t).at = "value" /\ Top(t).at \in Own
      /\ Move(Starter, {Top(t)}, {f}) /\ OwnFrames = {Top(t)} /\ subscription = {} /\ \A g \in OwnFrames' : g \in {f}
  BY <1>1, <1>6, <1>7, OneFrame
<1>9. StarterMove(i, {f})
  BY <1>1, <1>3, <1>4, <1>5, <1>8 DEF StarterMove
<1>10. f \in OwnFrames' /\ New(i) /\ (Place \in Settled => i = revision)
  <2>1. f.at \in Own
    BY <1>4, <1>5 DEF Own, StarterPoints, StartPoints, ClosePoints
  <2>2. QED
    BY <1>2, <1>3, <1>8, <1>9, <2>1, StarterPlace DEF StartsInv, FreshInv, OwnInv
<1>11. at = "close" => ~(Place \in Settled /\ bound)
  BY <1>4, <1>10 DEF Current, Superseded
<1>12. Starting(i, {f})
  <2>1. Kept(i)'
    BY <1>4, <1>5, <1>10 DEF Kept
  <2>2. QED
    BY <1>1, <1>4, <1>5, <1>7, <1>8, <1>11, <2>1 DEF Starting
<1>13. ASSUME Watched, i = revision PROVE Buffering'
  <2>1. at = "install" /\ Current(i)
    BY <1>4, <1>11, <1>13 DEF Watched
  <2>2. Reading
    <3>1. \A g \in Frames(stack[Starter]) : g.at \in Own => g.at = "value"
      BY <1>8 DEF OwnFrames
    <3>2. ~ToStart /\ ~Buffering
      BY <3>1 DEF ToStart, Buffering, Has, Own, StarterPoints, StartPoints
    <3>3. ~Following
      BY <1>8 DEF Following, StartPoints
    <3>4. QED
      BY <1>13, <3>2, <3>3 DEF FlowInv, CoverInv
  <2>3. Has(stack'[Starter], "install", revision')
    BY <1>1, <1>5, <1>10, <1>13, <2>1 DEF Has, OwnFrames
  <2>4. Open(revision)' /\ ~sub'[revision'].active
    BY <1>1, <1>7, <1>10, <1>13 DEF Open, New
  <2>5. snap'.seq = snap.seq /\ seq' = seq
    BY <1>1, <1>7, <2>1 DEF ReplicationInv, Typed
  <2>6. \A n \in (snap'.seq + 1)..seq' : Up(n)'
    BY <1>9, <2>2, <2>5, StarterUp DEF Reading
  <2>7. QED
    BY <2>3, <2>4, <2>6 DEF Buffering
<1>14. \A j \in Revisions : Frames(sub'[j].buffer) \subseteq Frames(sub[j].buffer)
  BY <1>1
<1>15. \A g \in {f} : g.at # "drainSub"
  BY <1>4, <1>5
<1>16. QED
  BY <1>1, <1>2, <1>9, <1>12, <1>13, <1>14, <1>15, StarterFlow

LEMMA InstallFlow ==
  ASSUME ReplicationInv, ReplicationInv', FlowInv, NEW t \in Threads, Install(t)
  PROVE  FlowInv'
<1>1. /\ At(t, "install") /\ "install" \in StartPoints /\ sub' = sub
      /\ UNCHANGED <<revision, bound, seq, pending, withdrawals, instance>> /\ reported \subseteq reported'
      /\ subscription' = subscription /\ subscribers' = subscribers
  BY DEF Install, source, binding, StartPoints
<1>2. /\ replica.seq <= seq /\ seq \in Nat /\ StartsInv /\ snap.seq <= seq /\ snap.seq \in Nat
  BY <1>1 DEF FlowInv, NumberInv, ReplicationInv, Typed, SnapInv
<1>3. PICK i \in Revisions : i = Top(t).i
  BY <1>1, TopStarter DEF StarterPoints
<1>4. Top(t).at = "install" /\ ~Idle(t)
  BY <1>1 DEF At
<1>5. \A j \in Revisions : Frames(sub'[j].buffer) \subseteq Frames(sub[j].buffer)
  BY <1>1
<1>6. CASE Invalidated(i) /\ Then(t, <<F("close", i, 0)>>) /\ replica' = replica
  <2>1. PICK f \in Frame : f = F("close", i, 0) /\ f.at = "close" /\ f.i = i
    BY OwnFrame DEF ClosePoints
  <2>2. PICK fs \in Seq(Frame) : fs = <<f>> /\ Frames(fs) = {f}
    BY OneTuple
  <2>3. Then(t, fs)
    BY <1>6, <2>1, <2>2
  <2>4. /\ t = Starter /\ Top(t).at \in Own
        /\ Move(Starter, {Top(t)}, {f}) /\ OwnFrames = {Top(t)} /\ subscription = {} /\ \A g \in OwnFrames' : g \in {f}
    BY <1>1, <2>2, <2>3, OneFrame
  <2>5. StarterMove(i, {f})
    BY <1>1, <1>3, <1>4, <2>1, <2>4 DEF StarterMove
  <2>6. f \in OwnFrames' /\ Place \notin Settled
    <3>1. f.at \in Own
      BY <2>1 DEF Own, ClosePoints
    <3>2. Place \in Settled => i = revision
      BY <1>2, <1>3, <2>4 DEF StartsInv, OwnInv
    <3>3. QED
      BY <1>2, <1>6, <2>5, <3>1, <3>2, StarterPlace DEF Invalidated, Superseded
  <2>7. Starting(i, {f})
    <3>1. Kept(i)'
      BY <2>1, <2>6 DEF Kept
    <3>2. QED
      BY <1>1, <2>1, <2>4, <2>6, <3>1 DEF Starting, StartPoints
  <2>8. i # revision /\ \A g \in {f} : g.at # "drainSub"
    BY <1>6, <2>1 DEF Invalidated, Superseded
  <2>9. replica'.seq <= seq
    BY <1>2, <1>6
  <2>10. QED
    BY <1>1, <1>5, <2>5, <2>7, <2>8, <2>9, StarterFlow
<1>7. CASE /\ replica' = [seq |-> snap.seq, value |-> snap.value, torn |-> snap.value # snap.seq, rev |-> i]
           /\ Deliver(t, <<F("activate", i, 0)>>)
  <2>1. PICK f \in Frame : f = F("activate", i, 0) /\ f.at = "activate" /\ f.i = i
    BY OwnFrame DEF StarterPoints
  <2>2. PICK next \in Seq(Frame) : next = <<f>> /\ Frames(next) = {f}
    BY OneTuple
  <2>3. Deliver(t, next) /\ Top(t).at # "flush"
    BY <1>4, <1>7, <2>1, <2>2
  <2>4. PICK fs \in Seq(Frame) : /\ Then(t, fs) /\ Frames(next) \subseteq Frames(fs)
                                 /\ \A g \in Frames(fs) : g.at = "flush" \/ g \in Frames(next)
    BY <1>4, <2>3, DeliverStep
  <2>5. PICK new : new = Frames(fs) /\ f \in new /\ \A g \in new : g.at = "flush" \/ g = f
    BY <2>2, <2>4
  <2>6. /\ t = Starter /\ Top(t).at \in Own
        /\ Move(Starter, {Top(t)}, new) /\ OwnFrames = {Top(t)} /\ subscription = {} /\ \A g \in OwnFrames' : g \in new
    BY <1>1, <2>4, <2>5, OneFrame
  <2>7. StarterMove(i, new)
    BY <1>1, <1>3, <1>4, <2>1, <2>5, <2>6 DEF StarterMove, Own, StarterPoints, StartPoints, ClosePoints
  <2>8. f \in OwnFrames'
    <3>1. f.at \in Own
      BY <2>1 DEF Own, StarterPoints
    <3>2. QED
      BY <1>2, <2>5, <2>7, <3>1, StarterPlace
  <2>9. \A g \in new : g.at \in {"flush", "activate"}
    BY <2>1, <2>5
  <2>10. Starting(i, new)
    <3>1. Kept(i)'
      BY <2>1, <2>8 DEF Kept
    <3>2. QED
      BY <1>1, <2>6, <2>9, <3>1 DEF Starting, StartPoints
  <2>11. ASSUME Watched, i = revision PROVE Following'
    <3>1. Buffering
      <4>1. \A g \in Frames(stack[Starter]) : g.at \in Own => g.at = "install"
        BY <1>4, <2>6 DEF OwnFrames
      <4>2. ~ToStart /\ ~Reading
        BY <4>1 DEF ToStart, Reading, Has, Own, StarterPoints, StartPoints
      <4>3. ~Following
        BY <1>4, <2>6 DEF Following, StartPoints
      <4>4. QED
        BY <2>11, <4>2, <4>3 DEF FlowInv, CoverInv
    <3>2. \A g \in OwnFrames' : g.at \notin StartPoints
      BY <2>6, <2>9 DEF StartPoints
    <3>3. ~IsCold'
      <4>1. replica'.rev = i /\ i # MaxRebinds + 1
        BY <1>7, ServiceReplicationAssumption DEF Revisions
      <4>2. QED
        BY <4>1 DEF IsCold, Cold
    <3>4. Open(revision)' /\ Has(stack'[Starter], "activate", revision')
      BY <1>1, <2>1, <2>8, <2>11, <3>1 DEF Buffering, Open, Has, OwnFrames
    <3>5. replica'.seq = snap.seq /\ seq' = seq /\ revision' = i
      BY <1>1, <1>7, <2>11
    <3>6. \A n \in (replica'.seq + 1)..seq' : Up(n)' \/ Down(n, i)'
      <4>1. SUFFICES ASSUME NEW n \in (snap.seq + 1)..seq PROVE Up(n)' \/ Down(n, i)'
        BY <3>5
      <4>2. CASE Up(n)
        BY <2>7, <4>2, StarterUp
      <4>3. CASE n \in Frames(sub[i].buffer)
        BY <1>1, <4>3 DEF Down
      <4>4. QED
        BY <2>11, <3>1, <4>2, <4>3 DEF Buffering
    <3>7. \A n \in (replica'.seq + 1)..seq' : Up(n)' \/ Down(n, revision)'
      BY <3>5, <3>6
    <3>8. QED
      BY <3>2, <3>3, <3>4, <3>7 DEF Following
  <2>12. replica'.seq <= seq /\ \A g \in new : g.at # "drainSub"
    BY <1>2, <1>7, <2>9
  <2>13. QED
    BY <1>1, <1>5, <2>7, <2>10, <2>11, <2>12, StarterFlow
<1>8. QED
  BY <1>3, <1>6, <1>7 DEF Install, state

(* After the snapshot is installed no frame of the start comes before it. *)
LEMMA Started ==
  ASSUME ReplicationInv, FlowInv, ~Idle(Starter), Top(Starter).at \in Own \ StartPoints, NEW new, Move(Starter, {Top(Starter)}, new),
         \A f \in new : f.at \notin StartPoints
  PROVE  /\ \A f \in OwnFrames : f.at \notin StartPoints
         /\ \A f \in OwnFrames' : f.at \notin StartPoints
         /\ Watched => Following
<1>1. \A f \in Frames(stack[Starter]) : f.at \notin StartPoints
  <2>1. SUFFICES ASSUME NEW f \in Frames(stack[Starter]), f.at \in StartPoints PROVE FALSE
    OBVIOUS
  <2>2. stack[Starter] = <<f>>
    BY <2>1 DEF ReplicationInv, StartInv
  <2>3. Top(Starter) = f
    BY <2>2 DEF Top
  <2>4. QED
    BY <2>1, <2>3
<1>2. \A f \in OwnFrames' : f.at \notin StartPoints
  BY <1>1 DEF OwnFrames, Move, Threads
<1>3. Watched => Following
  <2>1. Starter \in Threads
    BY DEF Threads
  <2>2. QED
    BY <2>1, Follows
<1>4. QED
  BY <1>1, <1>2, <1>3 DEF OwnFrames

LEMMA ActivateFlow ==
  ASSUME ReplicationInv, ReplicationInv', FlowInv, NEW t \in Threads, Activate(t)
  PROVE  FlowInv'
<1>1. /\ At(t, "activate") /\ "activate" \in StarterPoints /\ replica' = replica /\ subscription' = {Top(t).i}
      /\ UNCHANGED <<revision, bound, seq, pending, withdrawals, instance>> /\ reported \subseteq reported'
      /\ subscribers' = subscribers
  BY DEF Activate, source, state, listener, StarterPoints
<1>2. /\ t = Starter /\ ~Idle(t) /\ Top(t).at = "activate" /\ stack \in [Threads -> Seq(Frame)] /\ Top(t).at \in Own \ StartPoints
  BY <1>1, TopStarter DEF Own, StarterPoints, StartPoints
<1>3. PICK i \in Revisions : i = Top(t).i
  BY <1>1, TopStarter
<1>4. /\ replica'.seq <= seq /\ seq \in Nat /\ StartsInv /\ sub \in [Revisions -> Subscriber] /\ sub[i] \in Subscriber
      /\ replica \in [seq: Nat, value: Nat, torn: BOOLEAN, rev: Nat]
  BY <1>1, SubTyped DEF FlowInv, NumberInv, ReplicationInv, Typed
<1>5. PICK v \in Frame : v = F("revalidate", i, 0) /\ v.at = "revalidate" /\ v.i = i
  BY OwnFrame DEF StarterPoints
<1>6. Kept(i)'
  BY <1>1, <1>3 DEF Kept
<1>7. CASE sub[i].closed
  <2>1. Then(t, <<v>>) /\ UNCHANGED sub
    BY <1>3, <1>5, <1>7 DEF Activate
  <2>2. Move(Starter, {Top(Starter)}, {v})
    BY <1>2, <2>1, Replaced
  <2>3. \A g \in {v} : g.at = "revalidate" /\ g.i = i
    BY <1>5
  <2>4. StarterMove(i, {v})
    BY <1>1, <1>2, <1>3, <2>2, <2>3 DEF StarterMove
  <2>5. (\A f \in OwnFrames' : f.at \notin StartPoints) /\ (Watched => Following)
    <3>1. PICK new : new = {v}
      OBVIOUS
    <3>2. Move(Starter, {Top(Starter)}, new) /\ (\A f \in new : f.at \notin StartPoints)
      BY <2>2, <2>3, <3>1 DEF StartPoints
    <3>3. QED
      BY <1>2, <3>2, Started
  <2>6. Starting(i, {v})
    BY <1>1, <1>3, <1>6, <2>1, <2>3, <2>5 DEF Starting
  <2>7. ~(Watched /\ i = revision)
    BY <1>7, <2>5 DEF Following, Open
  <2>8. (\A g \in {v} : g.at = "drainSub" => sub'[i].active) /\ \A j \in Revisions : Frames(sub'[j].buffer) \subseteq Frames(sub[j].buffer)
    BY <2>1, <2>3
  <2>9. QED
    BY <1>4, <2>1, <2>4, <2>6, <2>7, <2>8, StarterFlow
<1>8. CASE ~sub[i].closed
  <2>1. PICK d \in Frame : d = F("drainSub", i, 0) /\ d.at = "drainSub" /\ d.i = i
    BY FrameTyped DEF Points, Plain
  <2>2. PICK p \in Frame : p = F("reap", i, 0) /\ p.at = "reap" /\ p.i = i
    BY OwnFrame DEF StarterPoints
  <2>3. sub' = [sub EXCEPT ![i].active = TRUE, ![i].owner = t] /\ Then(t, <<d, p, v>>)
    BY <1>3, <1>5, <1>8, <2>1, <2>2 DEF Activate
  <2>4. <<d, p, v>> \in Seq(Frame) /\ Frames(<<d, p, v>>) = {d, p, v}
    BY FramesOfTuples
  <2>5. PICK new : new = {d, p, v} /\ Move(Starter, {Top(Starter)}, new)
    BY <1>2, <2>3, <2>4, ReplaceTop
  <2>6. \A g \in new : g.at \in {"drainSub", "reap", "revalidate"} /\ g.i = i
    BY <1>5, <2>1, <2>2, <2>5
  <2>7. StarterMove(i, new)
    BY <1>1, <1>2, <1>3, <2>5, <2>6 DEF StarterMove
  <2>8. (\A f \in OwnFrames' : f.at \notin StartPoints) /\ (Watched => Following)
    BY <1>2, <2>5, <2>6, Started DEF StartPoints
  <2>9. /\ sub'[i].active /\ sub'[i].closed = sub[i].closed /\ sub'[i].buffer = sub[i].buffer
        /\ \A j \in Revisions : j # i => sub'[j] = sub[j]
    <3>1. sub'[i] = [sub[i] EXCEPT !.active = TRUE, !.owner = t] /\ \A j \in Revisions : j # i => sub'[j] = sub[j]
      BY <1>4, <2>3
    <3>2. QED
      BY <1>4, <3>1 DEF Subscriber
  <2>10. Starting(i, new)
    BY <1>1, <1>3, <1>6, <2>6, <2>8, <2>9 DEF Starting
  <2>11. ASSUME Watched, i = revision PROVE Following'
    <3>1. Following /\ revision' = i /\ seq' = seq
      BY <1>1, <2>8, <2>11
    <3>2. ~IsCold' /\ Open(revision)' /\ sub'[revision'].active
      BY <1>1, <2>9, <2>11, <3>1 DEF Following, IsCold, Cold, Open
    <3>3. \A n \in (replica.seq + 1)..seq : Up(n)' \/ Down(n, i)'
      BY <2>7, <2>9, <2>11, <3>1, StarterUp, StarterDown DEF Following
    <3>4. \A n \in (replica'.seq + 1)..seq' : Up(n)' \/ Down(n, revision)'
      BY <1>1, <3>1, <3>3
    <3>5. QED
      BY <2>8, <3>2, <3>4 DEF Following
  <2>12. \A j \in Revisions : Frames(sub'[j].buffer) \subseteq Frames(sub[j].buffer)
    BY <2>9
  <2>13. QED
    BY <1>4, <2>7, <2>9, <2>10, <2>11, <2>12, StarterFlow
<1>9. QED
  BY <1>7, <1>8

(* The start's last steps: nothing but its own frames and the binding changes. *)
Last(at, new) ==
  /\ At(Starter, at) /\ Move(Starter, {Top(Starter)}, new) /\ \A f \in new : f.at \in ClosePoints /\ f.i = Top(Starter).i
  /\ \A f \in new : f.at = "remove" => sub[Top(Starter).i].closed
  /\ \A f \in new : f.at = "close" => ~(Place \in Settled /\ bound)
  /\ UNCHANGED <<revision, bound, seq, pending, withdrawals, instance, reported>> /\ UNCHANGED <<sub, subscribers>>
  /\ \/ replica' = replica /\ subscription' = subscription
     \/ replica' = Cold /\ subscription' = {} /\ \E f \in new : f.at = "close"

LEMMA LastFlow ==
  ASSUME ReplicationInv, ReplicationInv', FlowInv, NEW at \in {"reap", "revalidate"}, NEW new, Last(at, new)
  PROVE  FlowInv'
<1> USE DEF Last
<1>1. at \in StarterPoints /\ Starter \in Threads
  BY DEF StarterPoints, Threads
<1>2. /\ ~Idle(Starter) /\ Top(Starter).at = at /\ stack \in [Threads -> Seq(Frame)] /\ Top(Starter).at \in Own \ StartPoints
      /\ Top(Starter).at \notin StartPoints \union {"activate"}
  BY <1>1, TopStarter DEF Own, StarterPoints, StartPoints
<1>3. PICK i \in Revisions : i = Top(Starter).i
  BY <1>1, TopStarter
<1>4. /\ replica'.seq <= seq /\ StartsInv
  BY DEF FlowInv, NumberInv, ReplicationInv, Typed, Cold
<1>5. StarterMove(i, new)
  BY <1>2, <1>3 DEF StarterMove, ClosePoints
<1>6. /\ \A f \in new : f.at \notin StartPoints
      /\ \A f \in new : f.at \in Own
  BY DEF StartPoints, ClosePoints, Own
<1>7. /\ \A f \in OwnFrames' : f.at \notin StartPoints
      /\ Watched => Following
  BY <1>2, <1>6, Started
<1>8. /\ Closing' = Closing
      /\ \A f \in OwnFrames : f = Top(Starter) \/ f \in OwnFrames'
      /\ \A f \in new : f \in OwnFrames'
      /\ Place' = Place
  BY <1>4, <1>5, <1>6, StarterPlace
<1>9. i \in subscribers' /\ ~sub'[i].closed => Kept(i)'
  <2>1. SUFFICES ASSUME i \in subscribers, ~sub[i].closed PROVE Kept(i)'
    OBVIOUS
  <2>2. CASE \E f \in new : f.at = "close"
    BY <1>3, <1>8, <2>2 DEF Kept
  <2>3. CASE subscription' = subscription
    <3>1. Kept(i)
      BY <1>4, <2>1 DEF StartsInv, OpenInv
    <3>2. QED
      BY <1>2, <1>8, <2>3, <3>1 DEF Kept
  <2>4. QED
    BY <2>2, <2>3
<1>10. Starting(i, new)
  BY <1>3, <1>7, <1>9 DEF Starting, ClosePoints
<1>11. ASSUME Watched, i = revision PROVE Following'
  <2>1. ~\E f \in new : f.at = "close"
    BY <1>11 DEF Watched
  <2>2. UNCHANGED <<sub, subscribers, replica>> /\ Following /\ StarterMove(revision, new)
    BY <1>5, <1>7, <1>11, <2>1
  <2>3. QED
    BY <1>2, <1>6, <2>2, FollowingKept
<1>12. \A f \in new : f.at # "drainSub"
  BY DEF ClosePoints
<1>13. \A j \in Revisions : Frames(sub'[j].buffer) \subseteq Frames(sub[j].buffer)
  OBVIOUS
<1>14. QED
  BY <1>4, <1>5, <1>10, <1>11, <1>12, <1>13, StarterFlow

LEMMA ReapFlow ==
  ASSUME ReplicationInv, ReplicationInv', FlowInv, NEW t \in Threads, Reap(t)
  PROVE  FlowInv'
<1>1. /\ At(t, "reap") /\ "reap" \in StarterPoints
      /\ UNCHANGED <<revision, bound, seq, pending, withdrawals, instance, reported>> /\ UNCHANGED <<sub, subscribers>>
      /\ replica' = replica /\ subscription' = subscription
  BY DEF Reap, source, provider, binding, state, listener, StarterPoints
<1>2. /\ t = Starter /\ ~Idle(t) /\ Top(t).at = "reap" /\ Top(t).i \in Revisions /\ stack \in [Threads -> Seq(Frame)]
  BY <1>1, TopStarter
<1>3. CASE sub[Top(t).i].closed
  <2>1. PICK f \in Frame : f = F("remove", Top(t).i, 0) /\ f.at = "remove" /\ f.i = Top(t).i
    <3>1. "remove" \in StarterPoints \union ClosePoints
      BY DEF ClosePoints
    <3>2. QED
      BY <1>2, <3>1, OwnFrame
  <2>2. Move(Starter, {Top(Starter)}, {f})
    BY <1>2, <1>3, <2>1, Replaced DEF Reap
  <2>3. \A g \in {f} : g.at \in ClosePoints /\ g.at = "remove" /\ g.i = Top(Starter).i
    BY <1>2, <2>1 DEF ClosePoints
  <2>4. Last("reap", {f})
    BY <1>1, <1>2, <1>3, <2>2, <2>3 DEF Last
  <2>5. QED
    BY <2>4, LastFlow
<1>4. CASE ~sub[Top(t).i].closed
  <2>1. Return(t)
    BY <1>4 DEF Reap, Return
  <2>2. Move(Starter, {Top(Starter)}, {})
    BY <1>2, <2>1, Popped
  <2>3. Last("reap", {})
    BY <1>1, <1>2, <2>2 DEF Last
  <2>4. QED
    BY <2>3, LastFlow
<1>5. QED
  BY <1>3, <1>4

LEMMA RevalidateFlow ==
  ASSUME ReplicationInv, ReplicationInv', FlowInv, NEW t \in Threads, Revalidate(t)
  PROVE  FlowInv'
<1>1. /\ At(t, "revalidate") /\ "revalidate" \in StarterPoints
      /\ UNCHANGED <<revision, bound, seq, pending, withdrawals, instance, reported>> /\ UNCHANGED <<sub, subscribers>>
  BY DEF Revalidate, source, provider, listener, StarterPoints
<1>2. /\ t = Starter /\ ~Idle(t) /\ Top(t).at = "revalidate" /\ Top(t).i \in Revisions /\ stack \in [Threads -> Seq(Frame)]
      /\ Top(t) \in Frames(stack[t])
  BY <1>1, TopStarter
<1>3. CASE Return(t) /\ UNCHANGED <<subscription, state>>
  <2>1. Move(Starter, {Top(Starter)}, {})
    BY <1>2, <1>3, Popped
  <2>2. replica' = replica /\ subscription' = subscription
    BY <1>3 DEF state
  <2>3. Last("revalidate", {})
    BY <1>1, <1>2, <2>1, <2>2 DEF Last
  <2>4. QED
    BY <2>3, LastFlow
<1>4. CASE ~Current(Top(t).i) /\ subscription' = {} /\ Cleared /\ Then(t, <<F("close", Top(t).i, 0)>>)
  <2>1. PICK f \in Frame : f = F("close", Top(t).i, 0) /\ f.at = "close" /\ f.i = Top(t).i
    <3>1. "close" \in StarterPoints \union ClosePoints
      BY DEF ClosePoints
    <3>2. QED
      BY <1>2, <3>1, OwnFrame
  <2>2. Move(Starter, {Top(Starter)}, {f})
    BY <1>2, <1>4, <2>1, Replaced
  <2>3. \A g \in {f} : g.at \in ClosePoints /\ g.at = "close" /\ g.i = Top(Starter).i
    BY <1>2, <2>1 DEF ClosePoints
  <2>4. ~(Place \in Settled /\ bound)
    <3>1. Top(t) \in OwnFrames
      BY <1>1, <1>2 DEF OwnFrames, Own
    <3>2. QED
      BY <1>4, <3>1 DEF FlowInv, StartsInv, OwnInv, Current, Superseded
  <2>5. replica' = Cold /\ subscription' = {} /\ \E g \in {f} : g.at = "close"
    BY <1>4, <2>3 DEF Cleared
  <2>6. \A g \in {f} : g.at = "remove" => sub[Top(Starter).i].closed
    BY <2>3
  <2>7. Last("revalidate", {f})
    BY <1>1, <1>2, <2>2, <2>3, <2>4, <2>5, <2>6 DEF Last
  <2>8. QED
    BY <2>7, LastFlow
<1>5. QED
  BY <1>3, <1>4 DEF Revalidate

LEMMA StarterCloseFlow ==
  ASSUME ReplicationInv, ReplicationInv', FlowInv, Close(Starter) \/ RemoveFromProvider(Starter)
  PROVE  FlowInv'
<1>1. PICK at \in ClosePoints : At(Starter, at)
  BY DEF Close, RemoveFromProvider, ClosePoints
<1>2. /\ UNCHANGED <<revision, bound, seq, pending, withdrawals, instance, reported>>
      /\ replica' = replica /\ subscription' = subscription
  BY DEF Close, RemoveFromProvider, source, binding, state, listener
<1>3. /\ Starter \in Threads /\ ~Idle(Starter) /\ Top(Starter).at = at /\ stack \in [Threads -> Seq(Frame)]
      /\ Top(Starter).at \in Own \ StartPoints /\ Top(Starter).i \in Revisions /\ Top(Starter) \in Frames(stack[Starter])
  <2>1. Starter \in Threads /\ ~Idle(Starter) /\ Top(Starter).at = at /\ stack \in [Threads -> Seq(Frame)]
    BY <1>1 DEF Threads, At, ReplicationInv, Typed
  <2>2. QED
    BY <1>1, <2>1, TopTyped DEF Own, ClosePoints, StartPoints
<1>4. PICK i \in Revisions : i = Top(Starter).i
  BY <1>3
<1>5. /\ replica'.seq <= seq /\ StartsInv /\ sub \in [Revisions -> Subscriber] /\ sub[i] \in Subscriber /\ Top(Starter) \in OwnFrames
  BY <1>2, <1>3, SubTyped DEF FlowInv, NumberInv, OwnFrames
<1>6. ASSUME NEW new, Move(Starter, {Top(Starter)}, new), \A f \in new : f.at = "remove" /\ f.i = i,
             subscribers' \subseteq subscribers, sub'[i].closed \/ i \notin subscribers',
             sub'[i].closed \/ new = {}, sub[i].closed => sub'[i].closed, sub'[i].active = sub[i].active,
             Frames(sub'[i].buffer) \subseteq Frames(sub[i].buffer), \A j \in Revisions : j # i => sub'[j] = sub[j],
             Watched => i # revision
      PROVE  FlowInv'
  <2>1. StarterMove(i, new)
    BY <1>2, <1>3, <1>4, <1>6 DEF StarterMove
  <2>2. \A f \in OwnFrames' : f.at \notin StartPoints
    BY <1>3, <1>6, Started DEF StartPoints
  <2>3. Starting(i, new)
    BY <1>2, <1>6, <2>2 DEF Starting
  <2>4. /\ \A f \in new : f.at = "drainSub" => sub'[i].active
        /\ \A j \in Revisions : Frames(sub'[j].buffer) \subseteq Frames(sub[j].buffer)
        /\ sub[i].active => sub'[i].active
    BY <1>6
  <2>5. QED
    BY <1>5, <1>6, <2>1, <2>3, <2>4, StarterFlow
<1>7. CASE Close(Starter)
  <2>1. at = "close" /\ subscribers' = subscribers
    BY <1>3, <1>7 DEF Close, At
  <2>2. ~Watched
    BY <1>3, <1>5, <2>1 DEF StartsInv, OwnInv, Watched
  <2>3. CASE sub[i].closed
    <3>1. Return(Starter) /\ sub' = sub
      BY <1>4, <1>7, <2>3 DEF Close
    <3>2. Move(Starter, {Top(Starter)}, {})
      BY <1>3, <3>1, Popped
    <3>3. QED
      BY <1>6, <2>1, <2>2, <2>3, <3>1, <3>2
  <2>4. CASE ~sub[i].closed
    <3>1. PICK f \in Frame : f = F("remove", i, 0) /\ f.at = "remove" /\ f.i = i
      BY OwnFrame DEF ClosePoints
    <3>2. Then(Starter, <<f>>) /\ sub' = [sub EXCEPT ![i].closed = TRUE, ![i].buffer = <<>>]
      BY <1>4, <1>7, <2>4, <3>1 DEF Close
    <3>3. Move(Starter, {Top(Starter)}, {f})
      BY <1>3, <3>2, Replaced
    <3>4. /\ sub'[i] = [sub[i] EXCEPT !.closed = TRUE, !.buffer = <<>>]
          /\ \A j \in Revisions : j # i => sub'[j] = sub[j]
      BY <1>5, <3>2
    <3>5. /\ sub'[i].closed /\ sub'[i].active = sub[i].active /\ sub'[i].buffer = <<>>
      BY <1>5, <3>4 DEF Subscriber
    <3>6. Frames(sub'[i].buffer) \subseteq Frames(sub[i].buffer)
      BY <3>5, FramesOfTuples
    <3>7. \A g \in {f} : g.at = "remove" /\ g.i = i
      BY <3>1
    <3>8. QED
      BY <1>6, <2>1, <2>2, <3>3, <3>4, <3>5, <3>6, <3>7
  <2>5. QED
    BY <2>3, <2>4
<1>8. CASE RemoveFromProvider(Starter)
  <2>1. at = "remove" /\ subscribers' = subscribers \ {i} /\ sub' = sub /\ Return(Starter)
    BY <1>3, <1>4, <1>8 DEF RemoveFromProvider, At
  <2>2. Move(Starter, {Top(Starter)}, {})
    BY <1>3, <2>1, Popped
  <2>3. sub[i].closed
    BY <1>3, <1>4, <1>5, <2>1 DEF StartsInv, OpenInv
  <2>4. Watched => i # revision
    <3>1. PICK new : new = {}
      OBVIOUS
    <3>2. Move(Starter, {Top(Starter)}, new) /\ \A f \in new : f.at \notin StartPoints
      BY <2>2, <3>1
    <3>3. Watched => Following
      BY <1>3, <3>2, Started
    <3>4. QED
      BY <2>3, <3>3 DEF Following, Open
  <2>5. QED
    BY <1>6, <2>1, <2>2, <2>3, <2>4
<1>9. QED
  BY <1>7, <1>8

-----------------------------------------------------------------------------
(* Steps of the rebinder and the flow. *)

(* Where its steps lead. *)
Turn(p, q) ==
  /\ q \notin Bumping /\ (q \in Unbinding => p \in Unbinding)
  /\ p[1] \in {"bump", "clear"} => q \notin Settled /\ q \notin Taken
  /\ p[1] = "bump" => p \in Bumping
  /\ p[1] # "bump" => p \notin Bumping
  /\ p[1] = "await" => /\ q \notin Taken /\ p \notin Bumping
                       /\ q \in Settled => p \in Settled
  /\ p[1] \in {"take", "close", "remove"} => p \in Stopped /\ p \notin Settled /\ (q \in Settled => p \in Unbinding)
  /\ p[1] \in {"close", "remove"} => p \in Taken
  /\ p[1] = "respawn" => p \in Taken /\ p \in Stopped /\ p \notin Settled /\ q \in Settled

LEMMA PlacesTurn ==
  ASSUME NEW p \in AllPlaces, p # <<>>
  PROVE  /\ Turn(p, Tail(p))
         /\ p[1] = "take" => Turn(p, <<"close">> \o Tail(p))
         /\ p[1] = "close" => Turn(p, <<"remove">> \o Tail(p))
<1> USE DEF Turn, Bumping, Unbinding, Settled, Taken, Stopped
<1>1. CASE p = <<"take">>
  <2>1. Tail(p) = <<>>
    BY <1>1
  <2>2. <<"close">> \o Tail(p) = <<"close">>
    BY <2>1, CloseThen
  <2>3. QED
    BY <1>1, <2>1, <2>2
<1>2. CASE p = <<"take", "respawn", "await">>
  <2>1. Tail(p) = <<"respawn", "await">>
    BY <1>2
  <2>2. <<"close">> \o Tail(p) = <<"close", "respawn", "await">>
    BY <2>1, CloseThen
  <2>3. QED
    BY <1>2, <2>1, <2>2
<1>3. CASE p = <<"close">>
  <2>1. Tail(p) = <<>>
    BY <1>3
  <2>2. <<"remove">> \o Tail(p) = <<"remove">>
    BY <2>1, CloseThen
  <2>3. QED
    BY <1>3, <2>1, <2>2
<1>4. CASE p = <<"close", "respawn", "await">>
  <2>1. Tail(p) = <<"respawn", "await">>
    BY <1>4
  <2>2. <<"remove">> \o Tail(p) = <<"remove", "respawn", "await">>
    BY <2>1, CloseThen
  <2>3. QED
    BY <1>4, <2>1, <2>2
<1>5. CASE p = <<"remove">>
  <2>1. Tail(p) = <<>>
    BY <1>5
  <2>2. QED
    BY <1>5, <2>1
<1>6. CASE p = <<"remove", "respawn", "await">>
  <2>1. Tail(p) = <<"respawn", "await">>
    BY <1>6
  <2>2. QED
    BY <1>6, <2>1
<1>7. CASE p = <<"respawn", "await">>
  <2>1. Tail(p) = <<"await">>
    BY <1>7
  <2>2. QED
    BY <1>7, <2>1
<1>8. CASE p = <<"await">>
  <2>1. Tail(p) = <<>>
    BY <1>8
  <2>2. QED
    BY <1>8, <2>1
<1>9. CASE p = <<"bump", "clear", "await", "take">>
  <2>1. Tail(p) = <<"clear", "await", "take">>
    BY <1>9
  <2>2. QED
    BY <1>9, <2>1
<1>10. CASE p = <<"bump", "clear", "await", "take", "respawn", "await">>
  <2>1. Tail(p) = <<"clear", "await", "take", "respawn", "await">>
    BY <1>10
  <2>2. QED
    BY <1>10, <2>1
<1>11. CASE p = <<"clear", "await", "take">>
  <2>1. Tail(p) = <<"await", "take">>
    BY <1>11
  <2>2. QED
    BY <1>11, <2>1
<1>12. CASE p = <<"clear", "await", "take", "respawn", "await">>
  <2>1. Tail(p) = <<"await", "take", "respawn", "await">>
    BY <1>12
  <2>2. QED
    BY <1>12, <2>1
<1>13. CASE p = <<"await", "take">>
  <2>1. Tail(p) = <<"take">>
    BY <1>13
  <2>2. QED
    BY <1>13, <2>1
<1>14. CASE p = <<"await", "take", "respawn", "await">>
  <2>1. Tail(p) = <<"take", "respawn", "await">>
    BY <1>14
  <2>2. QED
    BY <1>14, <2>1
<1>15. QED
  BY <1>1, <1>2, <1>3, <1>4, <1>5, <1>6, <1>7, <1>8, <1>9, <1>10, <1>11, <1>12, <1>13, <1>14 DEF AllPlaces, Stopping

LEMMA PlaceReturn ==
  ASSUME ReplicationInv, NEW at \in Points, At(Rebinder, at), Return(Rebinder)
  PROVE  Turn(Place, Place') /\ Place[1] = at /\ Place' = Tail(Place) /\ Move(Rebinder, {Top(Rebinder)}, {})
<1>1. /\ Rebinder \in Threads /\ ~Idle(Rebinder) /\ stack \in [Threads -> Seq(Frame)]
      /\ Place \in AllPlaces /\ Place # <<>> /\ Place[1] = at
  BY TopRebinder DEF Place
<1>2. <<>> \in Seq(Frame) /\ Then(Rebinder, <<>>) /\ Places(<<>>) = <<>>
  BY PlacesOfTuples DEF Return
<1>3. Place' = <<>> \o Tail(Place)
  BY <1>1, <1>2, PlacesOfThen DEF Place
<1>4. <<>> \o Tail(Place) = Tail(Place)
  <2>1. stack[Rebinder] \in Seq(Frame)
    BY <1>1
  <2>2. Place \in Seq(Points)
    BY <2>1, PlacesTyped DEF Place
  <2>3. PICK q \in Seq(Points) : q = Tail(Place)
    BY <1>1, <2>2, HeadTailProperties
  <2>4. <<>> \o q = q
    BY ConcatEmptySeq
  <2>5. QED
    BY <2>3, <2>4
<1>5. Move(Rebinder, {Top(Rebinder)}, {})
  BY <1>1, Popped
<1>6. QED
  BY <1>1, <1>3, <1>4, <1>5, PlacesTurn

LEMMA PlaceClose ==
  ASSUME ReplicationInv, NEW at \in Points, At(Rebinder, at), NEW f \in Frame, Then(Rebinder, <<f>>),
         (at = "take" /\ f.at = "close") \/ (at = "close" /\ f.at = "remove")
  PROVE  Turn(Place, Place') /\ Place[1] = at /\ Move(Rebinder, {Top(Rebinder)}, {f})
<1>1. /\ Rebinder \in Threads /\ ~Idle(Rebinder) /\ stack \in [Threads -> Seq(Frame)]
      /\ Place \in AllPlaces /\ Place # <<>> /\ Place[1] = at
  BY TopRebinder DEF Place
<1>2. PICK fs \in Seq(Frame) : fs = <<f>> /\ Frames(fs) = {f}
  BY OneTuple
<1>3. Then(Rebinder, fs) /\ Places(fs) = <<f.at>>
  BY <1>2, PlacesOfTuples
<1>4. Place' = <<f.at>> \o Tail(Place)
  BY <1>1, <1>3, PlacesOfThen DEF Place
<1>5. Move(Rebinder, {Top(Rebinder)}, {f})
  BY <1>1, Replaced
<1>6. QED
  BY <1>1, <1>4, <1>5, PlacesTurn

(* A step that closes the old subscription or goes on to the next stage. *)
RebinderMove(gone, new) ==
  /\ Move(Rebinder, gone, new)
  /\ \A f \in gone : f.at \notin Plain /\ (f.at = "close" => sub'[f.i].closed)
  /\ \A f \in new : /\ f.at \in ClosePoints \union RebindPoints
                    /\ f.at \in ClosePoints => Seen(f.i)'
                    /\ f.at = "remove" => sub'[f.i].closed
  /\ \A j \in Revisions : Seen(j) => Seen(j)'
  /\ Place' \in Settled => \/ Place \in Settled /\ UNCHANGED <<revision, bound>>
                           \/ ~bound' /\ OwnFrames = {} /\ subscription' = {}
  /\ subscription' \subseteq subscription /\ subscribers' \subseteq subscribers
  /\ \A j \in subscription \ subscription' : \E f \in new : f.at = "close" /\ f.i = j
  /\ UNCHANGED sub \/ OwnFrames = {}
  /\ \A j \in Revisions : /\ sub'[j].active = sub[j].active /\ Frames(sub'[j].buffer) \subseteq Frames(sub[j].buffer)
                          /\ sub[j].closed => sub'[j].closed
                          /\ sub'[j].closed => sub[j].closed \/ Seen(j)'
  /\ UNCHANGED <<seq, pending, withdrawals, instance>> /\ replica'.seq <= seq

LEMMA RebinderOwn ==
  ASSUME ReplicationInv, NEW gone, NEW new, Move(Rebinder, gone, new)
  PROVE  /\ OwnFrames' = OwnFrames /\ Rebinder \in Threads
         /\ \A f \in Closing' : f \in Closing \/ f \in new
         /\ \A f \in Closing : f \in gone \/ f \in Closing'
         /\ \A f \in new : f.at \in ClosePoints => f \in Closing'
<1>1. Starter \in Threads /\ Rebinder \in Threads /\ Starter # Rebinder
  BY ServiceReplicationAssumption DEF Threads
<1>2. stack'[Starter] = stack[Starter]
  BY <1>1 DEF Move
<1>3. QED
  BY <1>1, <1>2 DEF OwnFrames, Closing, Move

LEMMA RebinderStarts ==
  ASSUME ReplicationInv, StartsInv, NEW gone, NEW new, RebinderMove(gone, new), BoundInv'
  PROVE  StartsInv'
<1>1. /\ OwnFrames' = OwnFrames
      /\ \A f \in Closing' : f \in Closing \/ f \in new
      /\ \A f \in Closing : f \in gone \/ f \in Closing'
      /\ \A f \in new : f.at \in ClosePoints => f \in Closing'
  BY RebinderOwn DEF RebinderMove
<1>2. OwnInv /\ FreshInv /\ OpenInv
  BY DEF StartsInv
<1>3. /\ \A f \in OwnFrames \union Closing : f.i \in Revisions
      /\ subscription \subseteq Revisions /\ subscribers \subseteq Revisions
  <2>1. \A t \in Threads : \A f \in Frames(stack[t]) : f \in Frame
    BY FramesOfSeq DEF ReplicationInv, Typed
  <2>2. QED
    BY <2>1 DEF OwnFrames, Closing, Frame, Threads, ReplicationInv, Typed
<1>4. OwnInv'
  <2>1. \A f, g \in OwnFrames' : f.i = g.i
    BY <1>1, <1>2 DEF OwnInv
  <2>2. ASSUME NEW f \in OwnFrames'
        PROVE  /\ Seen(f.i)' /\ subscription' \subseteq {f.i}
               /\ f.at \in StartPoints => subscription' = {}
               /\ Place' \in Settled => f.i = revision'
               /\ Place' \in Settled /\ bound' => f.at # "close"
    <3>1. /\ f \in OwnFrames /\ Seen(f.i) /\ subscription \subseteq {f.i} /\ (f.at \in StartPoints => subscription = {})
          /\ (Place \in Settled => f.i = revision) /\ (Place \in Settled /\ bound => f.at # "close") /\ f.i \in Revisions
      BY <1>1, <1>2, <1>3 DEF OwnInv
    <3>2. QED
      BY <3>1 DEF RebinderMove
  <2>3. ASSUME NEW j \in subscription' PROVE Seen(j)' /\ (Place' \in Settled => j = revision')
    <3>1. j \in subscription /\ Seen(j) /\ (Place \in Settled => j = revision) /\ j \in Revisions
      BY <1>2, <1>3 DEF OwnInv, RebinderMove
    <3>2. QED
      BY <3>1 DEF RebinderMove
  <2>4. \A j, k \in subscription' : j = k
    BY <1>2 DEF OwnInv, RebinderMove
  <2>5. ASSUME NEW f \in Closing' PROVE Seen(f.i)'
    <3>1. CASE f \in Closing
      <4>1. Seen(f.i) /\ f.i \in Revisions
        BY <1>2, <1>3, <3>1 DEF OwnInv
      <4>2. QED
        BY <4>1 DEF RebinderMove
    <3>2. CASE f \in new
      BY <3>2 DEF RebinderMove, Closing
    <3>3. QED
      BY <1>1, <3>1, <3>2
  <2>6. QED
    BY <2>1, <2>2, <2>3, <2>4, <2>5 DEF OwnInv
<1>5. FreshInv'
  <2>1. ASSUME NEW j \in Revisions, ~Seen(j)' PROVE New(j)'
    <3>1. New(j)
      BY <1>2, <2>1 DEF RebinderMove, FreshInv
    <3>2. QED
      BY <2>1, <3>1 DEF RebinderMove, New
  <2>2. ASSUME NEW f \in OwnFrames', f.at \in {"subscribe", "value"} PROVE New(f.i)'
    <3>1. sub' = sub
      BY <1>1, <2>2 DEF RebinderMove
    <3>2. New(f.i)
      BY <1>1, <1>2, <2>2 DEF FreshInv
    <3>3. QED
      BY <3>1, <3>2 DEF New
  <2>3. QED
    BY <2>1, <2>2 DEF FreshInv
<1>6. OpenInv'
  <2>1. ASSUME NEW j \in subscribers', ~sub'[j].closed PROVE Kept(j)'
    <3>1. j \in subscribers /\ j \in Revisions /\ ~sub[j].closed
      BY <1>3, <2>1 DEF RebinderMove
    <3>2. Kept(j)
      BY <1>2, <3>1 DEF OpenInv
    <3>3. CASE j \in subscription
      <4>1. CASE j \in subscription'
        BY <4>1 DEF Kept
      <4>2. CASE j \notin subscription'
        <5>1. PICK f \in new : f.at = "close" /\ f.i = j
          BY <3>3, <4>2 DEF RebinderMove
        <5>2. f \in Closing'
          BY <1>1, <5>1 DEF ClosePoints
        <5>3. QED
          BY <5>1, <5>2 DEF Kept
      <4>3. QED
        BY <4>1, <4>2
    <3>4. CASE \E f \in OwnFrames : f.at \in {"install", "activate", "close"} /\ f.i = j
      BY <1>1, <3>4 DEF Kept
    <3>5. CASE \E f \in Closing : f.at = "close" /\ f.i = j
      <4>1. PICK f \in Closing : f.at = "close" /\ f.i = j
        BY <3>5
      <4>2. f \notin gone
        BY <2>1, <4>1 DEF RebinderMove
      <4>3. QED
        BY <1>1, <4>1, <4>2 DEF Kept
    <3>6. QED
      BY <3>2, <3>3, <3>4, <3>5 DEF Kept
  <2>2. ASSUME NEW f \in OwnFrames' \union Closing', f.at = "remove" PROVE sub'[f.i].closed
    <3>1. CASE f \in new
      BY <2>2, <3>1 DEF RebinderMove
    <3>2. CASE f \in OwnFrames \union Closing
      <4>1. sub[f.i].closed /\ f.i \in Revisions
        BY <1>2, <1>3, <2>2, <3>2 DEF OpenInv
      <4>2. QED
        BY <4>1 DEF RebinderMove
    <3>3. QED
      BY <1>1, <3>1, <3>2
  <2>3. QED
    BY <2>1, <2>2 DEF OpenInv
<1>7. QED
  BY <1>4, <1>5, <1>6 DEF StartsInv

LEMMA RebinderFlow ==
  ASSUME ReplicationInv, ReplicationInv', FlowInv, NEW gone, NEW new, RebinderMove(gone, new), BoundInv',
         Watched' => (ToStart \/ Reading \/ Buffering \/ Following)'
  PROVE  FlowInv'
<1>1. Typed /\ Typed' /\ StartsInv /\ ActiveInv /\ NumberInv /\ Rebinder \in Threads
  BY DEF ReplicationInv, FlowInv, Threads
<1>2. /\ seq' = seq /\ seq' \in Nat /\ seq <= seq' /\ withdrawals' = withdrawals /\ withdrawals' \in Nat /\ pending' = pending
      /\ withdrawals' = 0 => instance' = "registered"
      /\ Move(Rebinder, gone, new)
  BY <1>1 DEF RebinderMove, Typed, NumberInv
<1>3. StartsInv'
  BY <1>1, RebinderStarts
<1>4. ActiveInv'
  <2>1. \A f \in new : f.at # "drainSub"
    BY DEF RebinderMove, ClosePoints, RebindPoints
  <2>2. \A j \in Revisions : sub[j].active => sub'[j].active
    BY DEF RebinderMove
  <2>3. QED
    BY <1>1, <1>2, <2>1, <2>2, ActiveKept
<1>5. NumberInv'
  <2>1. \A f \in new : Carries(f)'
    BY Carefree DEF RebinderMove, ClosePoints, RebindPoints
  <2>2. \A d \in Frames(pending') : d.kind = "publication" => d \in Frames(pending) \/ Number(d.n)'
    BY <1>2
  <2>3. \A j \in Revisions : \A m \in Frames(sub'[j].buffer) : m \in Frames(sub[j].buffer) \/ Number(m)'
    BY DEF RebinderMove
  <2>4. replica'.seq <= seq' /\ (withdrawals' = 0 => withdrawals = 0)
    BY <1>2 DEF RebinderMove
  <2>5. QED
    BY <1>1, <1>2, <2>1, <2>2, <2>3, <2>4, NumberKept
<1>6. CoverInv'
  BY DEF CoverInv
<1>7. QED
  BY <1>3, <1>4, <1>5, <1>6 DEF FlowInv

LEMMA Resting ==
  ASSUME ReplicationInv, Place \in Stopped
  PROVE  OwnFrames = {}
BY FramesOfTuples DEF ReplicationInv, RebindInv, Place, Idle, OwnFrames

LEMMA SeenKept ==
  ASSUME UNCHANGED revision, Place \in Settled \union Bumping => Place' \in Settled \union Bumping
  PROVE  \A j \in Revisions : Seen(j) => Seen(j)'
BY DEF Seen

(* What the steps of a rebind leave alone. *)
Apart == UNCHANGED <<seq, pending, withdrawals, instance, reported, providerLock, snap, subscribers, sub>>

LEMMA RebindFlow ==
  ASSUME ReplicationInv, ReplicationInv', FlowInv, NEW b \in BOOLEAN, Rebind(b)
  PROVE  FlowInv'
<1>1. /\ Idle(Rebinder) /\ bound' = b /\ Apart /\ UNCHANGED <<revision, subscription, replica>>
  BY DEF Rebind, Apart, source, provider, state, listener
<1>2. PICK fs \in Seq(Frame) :
        /\ stack' = [stack EXCEPT ![Rebinder] = fs]
        /\ \/ Places(fs) = <<"bump", "clear", "await", "take">> /\ ~b
           \/ Places(fs) = <<"bump", "clear", "await", "take", "respawn", "await">> /\ b
        /\ \A f \in Frames(fs) : f.at \in RebindPoints
  BY RebindFrames
<1>3. Rebinder \in Threads /\ stack \in [Threads -> Seq(Frame)]
  BY DEF Threads, ReplicationInv, Typed
<1>4. Move(Rebinder, {}, Frames(fs)) /\ Place' = Places(fs)
  BY <1>1, <1>2, <1>3, StartOn DEF Place
<1>5. /\ Place' \in Bumping /\ Place' \notin Settled /\ Place' \notin Taken
      /\ Place' \in Unbinding => ~bound'
  <2>1. PICK p : p = Place'
    OBVIOUS
  <2>2. CASE p = <<"bump", "clear", "await", "take">> /\ ~b
    <3>1. p \in Bumping /\ p \notin Settled /\ p \notin Taken
      BY <2>2 DEF Bumping, Settled, Taken
    <3>2. QED
      BY <1>1, <2>1, <2>2, <3>1, Zenon
  <2>3. CASE p = <<"bump", "clear", "await", "take", "respawn", "await">> /\ b
    <3>1. p \in Bumping /\ p \notin Settled /\ p \notin Taken /\ p \notin Unbinding
      BY <2>3 DEF Bumping, Settled, Taken, Unbinding
    <3>2. QED
      BY <2>1, <3>1
  <2>4. QED
    BY <1>2, <1>4, <2>1, <2>2, <2>3, Zenon
<1>6. BoundInv'
  BY <1>5 DEF BoundInv
<1>7. \A j \in Revisions : Seen(j) => Seen(j)'
  BY <1>1, <1>5, SeenKept
<1>8. \A f \in Frames(fs) : f.at \in RebindPoints /\ f.at \notin ClosePoints /\ f.at # "remove"
  BY <1>2 DEF RebindPoints, ClosePoints
<1>9. replica.seq <= seq
  BY DEF FlowInv, NumberInv
<1>10. RebinderMove({}, Frames(fs))
  BY <1>1, <1>4, <1>5, <1>7, <1>8, <1>9 DEF RebinderMove, Apart
<1>11. ~Watched'
  BY <1>5 DEF Watched
<1>12. PICK gone : gone = {}
  OBVIOUS
<1>13. RebinderMove(gone, Frames(fs))
  BY <1>10, <1>12
<1>14. QED
  BY <1>6, <1>11, <1>13, RebinderFlow

(* A step of the rebinder that returns from its top frame. *)
LEMMA ReturnFlow ==
  ASSUME ReplicationInv, ReplicationInv', FlowInv, NEW at \in RebindPoints, At(Rebinder, at), Return(Rebinder), Apart,
         UNCHANGED <<bound, subscription>>, replica'.seq <= seq, Place' \notin Taken,
         \A j \in Revisions : Seen(j) => Seen(j)',
         Place' \in Settled => Place \in Settled /\ UNCHANGED revision,
         Watched' => (ToStart \/ Reading \/ Buffering \/ Following)'
  PROVE  FlowInv'
<1>1. at \in Points
  BY DEF Points
<1>2. Turn(Place, Place') /\ Move(Rebinder, {Top(Rebinder)}, {}) /\ Top(Rebinder).at = at
  BY <1>1, PlaceReturn DEF At
<1>3. BoundInv'
  BY <1>2 DEF BoundInv, FlowInv, StartsInv, Turn
<1>4. PICK gone, new : gone = {Top(Rebinder)} /\ new = {}
  OBVIOUS
<1>5. \A f \in gone : f.at \notin Plain /\ f.at # "close"
  BY <1>2, <1>4 DEF RebindPoints, Plain
<1>6. RebinderMove(gone, new)
  BY <1>2, <1>4, <1>5 DEF RebinderMove, Apart
<1>7. QED
  BY <1>3, <1>6, RebinderFlow

LEMMA BumpFlow ==
  ASSUME ReplicationInv, ReplicationInv', FlowInv, Bump
  PROVE  FlowInv'
<1>1. /\ At(Rebinder, "bump") /\ Return(Rebinder) /\ Apart /\ revision' = revision + 1 /\ UNCHANGED <<bound, subscription, replica>>
      /\ "bump" \in RebindPoints /\ "bump" \in Points
  BY DEF Bump, Apart, source, provider, state, listener, RebindPoints, Points
<1>2. Turn(Place, Place') /\ Place[1] = "bump"
  BY <1>1, PlaceReturn
<1>3. Place' \notin Settled /\ Place' \notin Taken
  BY <1>2 DEF Turn
<1>4. revision \in Nat /\ \A j \in Revisions : j \in Nat
  BY ZeroTyped DEF ReplicationInv, Typed
<1>5. \A j \in Revisions : Seen(j) => Seen(j)'
  BY <1>1, <1>4 DEF Seen
<1>6. ~Watched' /\ replica'.seq <= seq
  BY <1>1, <1>3 DEF Watched, FlowInv, NumberInv
<1>7. QED
  BY <1>1, <1>3, <1>5, <1>6, ReturnFlow

LEMMA FacadeClearFlow ==
  ASSUME ReplicationInv, ReplicationInv', FlowInv, FacadeClear
  PROVE  FlowInv'
<1>1. /\ At(Rebinder, "clear") /\ Return(Rebinder) /\ Apart /\ UNCHANGED <<bound, subscription, revision>> /\ replica' = Cold
      /\ "clear" \in RebindPoints /\ "clear" \in Points
  BY DEF FacadeClear, Cleared, Apart, source, provider, listener, RebindPoints, Points
<1>2. Turn(Place, Place') /\ Place[1] = "clear" /\ Place # <<>>
  BY <1>1, PlaceReturn, TopRebinder DEF Place
<1>3. Place' \notin Settled /\ Place' \notin Taken /\ Place \notin Bumping /\ Place \notin Settled
  BY <1>2 DEF Turn, Settled
<1>4. \A j \in Revisions : Seen(j) => Seen(j)'
  BY <1>1, <1>3, SeenKept
<1>5. ~Watched' /\ replica'.seq <= seq
  BY <1>1, <1>3 DEF Watched, Cold, ReplicationInv, Typed
<1>6. QED
  BY <1>1, <1>3, <1>4, <1>5, ReturnFlow

LEMMA StopAwaitFlow ==
  ASSUME ReplicationInv, ReplicationInv', FlowInv, StopAwait
  PROVE  FlowInv'
<1>1. /\ At(Rebinder, "await") /\ Return(Rebinder) /\ Apart /\ UNCHANGED <<bound, subscription, revision, replica>>
      /\ "await" \in RebindPoints /\ "await" \in Points
  BY DEF StopAwait, Apart, source, provider, binding, state, listener, RebindPoints, Points
<1>2. /\ Turn(Place, Place') /\ Place[1] = "await" /\ Place' = Tail(Place) /\ Place # <<>> /\ Top(Rebinder).at = "await"
      /\ Move(Rebinder, {Top(Rebinder)}, {}) /\ Rebinder \in Threads
  BY <1>1, PlaceReturn, TopRebinder DEF Place
<1>3. Place' \notin Taken /\ Place \notin Bumping /\ (Place' \in Settled => Place \in Settled)
  BY <1>2 DEF Turn
<1>4. Place \in Settled => Place' \in Settled
  <2>1. Tail(<<"await">>) = <<>>
    OBVIOUS
  <2>2. QED
    BY <1>2, <2>1 DEF Settled
<1>5. \A j \in Revisions : Seen(j) => Seen(j)'
  BY <1>1, <1>3, <1>4, SeenKept
<1>6. PICK gone, new : gone = {Top(Rebinder)} /\ new = {} /\ Move(Rebinder, gone, new)
  BY <1>2
<1>7. CoverInv'
  <2>1. Typed /\ Typed' /\ CoverInv /\ seq \in Nat /\ revision \in Revisions /\ revision' = revision /\ sub' = sub /\ pending' = pending
    BY <1>1 DEF ReplicationInv, FlowInv, Typed, Apart
  <2>2. \A f \in gone : f.at = "await"
    BY <1>2, <1>6
  <2>3. ASSUME NEW n, Up(n) PROVE Up(n)'
    BY <1>2, <1>6, <2>1, <2>2, <2>3, UpKept
  <2>4. ASSUME NEW n, Down(n, revision) PROVE Down(n, revision)'
    <3>1. PICK r \in Revisions : r = revision
      BY <2>1
    <3>2. \A f \in gone : ~Brings(f, n, r)
      BY <2>2 DEF Brings
    <3>3. Down(n, r)'
      BY <1>2, <1>6, <2>1, <2>4, <3>1, <3>2, DownKept
    <3>4. QED
      BY <2>1, <3>1, <3>3
  <2>5. Steady
    <3>1. OwnFrames' = OwnFrames
      BY <1>6, RebinderOwn
    <3>2. QED
      BY <1>1, <3>1 DEF Steady, Same, Apart
  <2>6. Carried
    <3>1. seq' = seq /\ \A n \in (seq + 1)..seq' : FALSE
      BY <1>1, <2>1 DEF Apart
    <3>2. Following => ~IsCold' /\ replica.seq <= replica'.seq
      BY <1>1, <2>1 DEF Following, IsCold, Cold, Typed
    <3>3. QED
      BY <2>1, <2>3, <2>4, <3>1, <3>2 DEF Carried, Queued, Coming
  <2>7. Watched' => Watched
    BY <1>1, <1>3 DEF Watched, Apart
  <2>8. seq <= seq'
    BY <1>1, <2>1 DEF Apart
  <2>9. QED
    BY <2>1, <2>5, <2>6, <2>7, <2>8, CoverKept
<1>8. replica'.seq <= seq
  BY <1>1 DEF FlowInv, NumberInv
<1>9. Watched' => (ToStart \/ Reading \/ Buffering \/ Following)'
  BY <1>7 DEF CoverInv
<1>10. QED
  BY <1>1, <1>3, <1>5, <1>8, <1>9, ReturnFlow

LEMMA StopTakeFlow ==
  ASSUME ReplicationInv, ReplicationInv', FlowInv, StopTake
  PROVE  FlowInv'
<1>1. /\ At(Rebinder, "take") /\ subscription' = {} /\ Apart /\ UNCHANGED <<bound, revision, replica>> /\ "take" \in Points
  BY DEF StopTake, Apart, source, provider, state, listener, RebindPoints, Points
<1>2. /\ Place # <<>> /\ Top(Rebinder).at = "take" /\ subscription \subseteq Revisions
      /\ OwnInv /\ BoundInv /\ replica'.seq <= seq
  BY <1>1, TopRebinder DEF Place, ReplicationInv, Typed, FlowInv, StartsInv, NumberInv
<1>3. ASSUME NEW new, Turn(Place, Place'), Place[1] = "take", Move(Rebinder, {Top(Rebinder)}, new),
             \A f \in new : f.at = "close" /\ f.i \in subscription, \A j \in subscription : \E f \in new : f.at = "close" /\ f.i = j
      PROVE  FlowInv'
  <2>1. /\ Place \in Stopped /\ Place \notin Settled /\ Place \notin Bumping
        /\ (Place' \in Settled \/ Place' \in Unbinding) => Place \in Unbinding
    BY <1>3 DEF Turn
  <2>2. OwnFrames = {} /\ (Place' \in Settled => ~bound') /\ BoundInv'
    <3>1. OwnFrames = {}
      BY <2>1, Resting
    <3>2. Place \in Unbinding => ~bound'
      BY <1>1, <1>2 DEF BoundInv
    <3>3. QED
      BY <1>1, <2>1, <3>1, <3>2 DEF BoundInv
  <2>3. \A j \in Revisions : Seen(j) => Seen(j)'
    BY <1>1, <2>1, SeenKept
  <2>4. PICK gone : gone = {Top(Rebinder)}
    OBVIOUS
  <2>5. \A f \in gone : f.at \notin Plain /\ f.at # "close"
    BY <1>2, <2>4 DEF Plain
  <2>6. \A f \in new : f.at \in ClosePoints /\ f.at # "remove" /\ Seen(f.i)'
    BY <1>2, <1>3, <2>3 DEF OwnInv, ClosePoints
  <2>7. RebinderMove(gone, new)
    BY <1>1, <1>2, <1>3, <2>2, <2>3, <2>4, <2>5, <2>6 DEF RebinderMove, Apart
  <2>8. ~Watched'
    BY <2>2 DEF Watched
  <2>9. QED
    BY <2>2, <2>7, <2>8, RebinderFlow
<1>4. CASE subscription = {}
  <2>1. Return(Rebinder)
    BY <1>4 DEF StopTake, Return
  <2>2. Turn(Place, Place') /\ Place[1] = "take" /\ Move(Rebinder, {Top(Rebinder)}, {})
    BY <1>1, <2>1, PlaceReturn
  <2>3. PICK new : new = {}
    OBVIOUS
  <2>4. QED
    BY <1>3, <1>4, <2>2, <2>3
<1>5. CASE subscription # {}
  <2>1. PICK i \in Revisions : i = (CHOOSE j \in subscription : TRUE) /\ i \in subscription
    BY <1>2, <1>5
  <2>2. PICK f \in Frame : f = F("close", i, 0) /\ f.at = "close" /\ f.i = i
    BY OwnFrame DEF ClosePoints
  <2>3. Then(Rebinder, <<f>>)
    BY <1>5, <2>1, <2>2 DEF StopTake
  <2>4. Turn(Place, Place') /\ Place[1] = "take" /\ Move(Rebinder, {Top(Rebinder)}, {f})
    BY <1>1, <2>2, <2>3, PlaceClose
  <2>5. PICK new : new = {f}
    OBVIOUS
  <2>6. \A j \in subscription : j = i
    BY <1>2, <2>1 DEF OwnInv
  <2>7. (\A g \in new : g.at = "close" /\ g.i \in subscription) /\ \A j \in subscription : \E g \in new : g.at = "close" /\ g.i = j
    BY <2>1, <2>2, <2>5, <2>6
  <2>8. QED
    BY <1>3, <2>4, <2>5, <2>7
<1>6. QED
  BY <1>4, <1>5

LEMMA RebinderCloseFlow ==
  ASSUME ReplicationInv, ReplicationInv', FlowInv, Close(Rebinder) \/ RemoveFromProvider(Rebinder)
  PROVE  FlowInv'
<1>1. PICK at \in ClosePoints : At(Rebinder, at)
  BY DEF Close, RemoveFromProvider, ClosePoints
<1>2. UNCHANGED <<revision, bound, seq, pending, withdrawals, instance, subscription, replica>> /\ at \in Points
  BY DEF Close, RemoveFromProvider, source, binding, state, listener, Points
<1>3. /\ Rebinder \in Threads /\ Place # <<>> /\ Top(Rebinder).at = at /\ Top(Rebinder).i \in Revisions
      /\ Top(Rebinder) \in Frames(stack[Rebinder]) /\ ~Idle(Rebinder) /\ stack \in [Threads -> Seq(Frame)]
  BY <1>1, <1>2, TopRebinder DEF Place
<1>4. PICK i \in Revisions : i = Top(Rebinder).i
  BY <1>3
<1>5. /\ OwnInv /\ BoundInv /\ OpenInv /\ replica'.seq <= seq /\ Top(Rebinder) \in Closing /\ sub \in [Revisions -> Subscriber]
      /\ sub[i] \in Subscriber
  BY <1>1, <1>2, <1>3, SubTyped DEF FlowInv, StartsInv, NumberInv, Closing
<1>6. ASSUME NEW new, Turn(Place, Place'), Place[1] = at, Move(Rebinder, {Top(Rebinder)}, new),
             \A f \in new : f.at = "remove" /\ f.i = i, subscribers' \subseteq subscribers,
             at = "close" \/ new # {} => sub'[i].closed, sub[i].closed => sub'[i].closed, sub'[i].active = sub[i].active,
             Frames(sub'[i].buffer) \subseteq Frames(sub[i].buffer), \A j \in Revisions : j # i => sub'[j] = sub[j]
      PROVE  FlowInv'
  <2>1. /\ Place \in Stopped /\ Place \in Taken /\ Place \notin Settled /\ Place \notin Bumping
        /\ (Place' \in Settled \/ Place' \in Unbinding) => Place \in Unbinding
    BY <1>6 DEF Turn, ClosePoints
  <2>2. OwnFrames = {} /\ subscription = {} /\ (Place' \in Settled => ~bound') /\ BoundInv'
    <3>1. OwnFrames = {}
      BY <2>1, Resting
    <3>2. (Place \in Unbinding => ~bound') /\ subscription = {}
      BY <1>2, <1>5, <2>1 DEF BoundInv
    <3>3. QED
      BY <1>2, <2>1, <3>1, <3>2 DEF BoundInv
  <2>3. \A j \in Revisions : Seen(j) => Seen(j)'
    BY <1>2, <2>1, SeenKept
  <2>4. Seen(i)'
    BY <1>4, <1>5, <2>3 DEF OwnInv
  <2>5. PICK gone : gone = {Top(Rebinder)}
    OBVIOUS
  <2>6. \A f \in gone : f.at \notin Plain /\ (f.at = "close" => sub'[f.i].closed)
    BY <1>3, <1>4, <1>6, <2>5 DEF Plain, ClosePoints
  <2>7. \A f \in new : f.at \in ClosePoints /\ Seen(f.i)' /\ sub'[f.i].closed
    BY <1>6, <2>4 DEF ClosePoints
  <2>8. \A j \in Revisions : /\ sub'[j].active = sub[j].active /\ Frames(sub'[j].buffer) \subseteq Frames(sub[j].buffer)
                             /\ sub[j].closed => sub'[j].closed
                             /\ sub'[j].closed => sub[j].closed \/ Seen(j)'
    BY <1>6, <2>4
  <2>9. RebinderMove(gone, new)
    BY <1>2, <1>5, <1>6, <2>2, <2>3, <2>5, <2>6, <2>7, <2>8 DEF RebinderMove
  <2>10. ~Watched'
    BY <2>2 DEF Watched
  <2>11. QED
    BY <2>2, <2>9, <2>10, RebinderFlow
<1>7. CASE Close(Rebinder)
  <2>1. at = "close" /\ subscribers' = subscribers
    BY <1>3, <1>7 DEF Close, At
  <2>2. CASE sub[i].closed
    <3>1. Return(Rebinder) /\ sub' = sub
      BY <1>4, <1>7, <2>2 DEF Close
    <3>2. Turn(Place, Place') /\ Place[1] = at /\ Move(Rebinder, {Top(Rebinder)}, {})
      BY <1>1, <1>2, <3>1, PlaceReturn
    <3>3. PICK new : new = {}
      OBVIOUS
    <3>4. QED
      BY <1>6, <2>1, <2>2, <3>1, <3>2, <3>3
  <2>3. CASE ~sub[i].closed
    <3>1. PICK f \in Frame : f = F("remove", i, 0) /\ f.at = "remove" /\ f.i = i
      BY OwnFrame DEF ClosePoints
    <3>2. Then(Rebinder, <<f>>) /\ sub' = [sub EXCEPT ![i].closed = TRUE, ![i].buffer = <<>>]
      BY <1>4, <1>7, <2>3, <3>1 DEF Close
    <3>3. Turn(Place, Place') /\ Place[1] = at /\ Move(Rebinder, {Top(Rebinder)}, {f})
      BY <1>1, <1>2, <2>1, <3>1, <3>2, PlaceClose
    <3>4. /\ sub'[i] = [sub[i] EXCEPT !.closed = TRUE, !.buffer = <<>>]
          /\ \A j \in Revisions : j # i => sub'[j] = sub[j]
      BY <1>5, <3>2
    <3>5. /\ sub'[i].closed /\ sub'[i].active = sub[i].active /\ sub'[i].buffer = <<>>
      BY <1>5, <3>4 DEF Subscriber
    <3>6. Frames(sub'[i].buffer) \subseteq Frames(sub[i].buffer)
      BY <3>5, FramesOfTuples
    <3>7. PICK new : new = {f}
      OBVIOUS
    <3>8. \A g \in new : g.at = "remove" /\ g.i = i
      BY <3>1, <3>7
    <3>9. QED
      BY <1>6, <2>1, <3>3, <3>4, <3>5, <3>6, <3>7, <3>8
  <2>4. QED
    BY <2>2, <2>3
<1>8. CASE RemoveFromProvider(Rebinder)
  <2>1. at = "remove" /\ subscribers' \subseteq subscribers /\ sub' = sub /\ Return(Rebinder)
    BY <1>3, <1>8 DEF RemoveFromProvider, At
  <2>2. Turn(Place, Place') /\ Place[1] = at /\ Move(Rebinder, {Top(Rebinder)}, {})
    BY <1>1, <1>2, <2>1, PlaceReturn
  <2>3. PICK new : new = {}
    OBVIOUS
  <2>4. QED
    BY <1>6, <2>1, <2>2, <2>3
<1>9. QED
  BY <1>7, <1>8

LEMMA RespawnFlow ==
  ASSUME ReplicationInv, ReplicationInv', FlowInv, Respawn
  PROVE  FlowInv'
<1>1. Apart /\ UNCHANGED <<bound, revision, subscription, replica>>
  BY DEF Respawn, Apart, source, provider, state, listener
<1>2. /\ Rebinder \in Threads /\ Starter \in Threads /\ Rebinder # Starter /\ revision \in Revisions /\ Revisions \subseteq Nat
      /\ OwnInv /\ BoundInv /\ FreshInv /\ OpenInv /\ ActiveInv /\ NumberInv
  BY ServiceReplicationAssumption, ZeroTyped DEF Threads, ReplicationInv, Typed, FlowInv, StartsInv
<1>3. PICK g \in Frame : /\ g = F("subscribe", revision, 0) /\ g.at = "subscribe"
                         /\ stack'[Starter] = <<g>> /\ Frames(stack'[Starter]) = {g}
  BY RespawnFrames
<1>4. /\ Frames(stack[Starter]) = {}
      /\ Frames(stack[Rebinder]) = {Top(Rebinder)} \union Frames(stack'[Rebinder]) /\ Top(Rebinder).at = "respawn"
      /\ \A u \in Threads : u # Starter /\ u # Rebinder => stack'[u] = stack[u]
      /\ Place \in Stopped /\ Place[1] = "respawn" /\ Place' = <<"await">>
  BY RespawnFrames DEF Place
<1>5. Place \in Taken /\ Place \notin Settled /\ Place \notin Bumping
  BY <1>4 DEF Stopped, Taken, Settled, Bumping
<1>6. Place' \in Settled /\ Place' \notin Unbinding /\ Place' \notin Taken
  BY <1>4 DEF Settled, Unbinding, Taken
<1>7. subscription = {} /\ subscription' = {}
  BY <1>1, <1>2, <1>5 DEF BoundInv
<1>8. /\ \A j \in Revisions : Seen(j) => Seen(j)'
      /\ ~Seen(revision) /\ Seen(revision)'
  BY <1>1, <1>2, <1>5, <1>6 DEF Seen
<1>9. \A u \in Threads : \A f \in Frames(stack'[u]) : f \in Frames(stack[u]) \/ f = g
  BY <1>2, <1>3, <1>4
<1>10. OwnFrames = {} /\ OwnFrames' = {g} /\ Closing' = Closing /\ g.i = revision
  <2>1. Closing' = Closing
    BY <1>4 DEF Closing, ClosePoints
  <2>2. QED
    BY <1>3, <1>4, <2>1 DEF OwnFrames, Own, StarterPoints, StartPoints, F
<1>11. \A f \in Closing : f.i \in Revisions
  <2>1. \A f \in Frames(stack[Rebinder]) : f \in Frame
    BY <1>2, FramesOfSeq DEF ReplicationInv, Typed
  <2>2. QED
    BY <2>1 DEF Closing, Frame
<1>12. StartsInv'
  <2>1. BoundInv'
    BY <1>6 DEF BoundInv
  <2>2. OwnInv'
    <3>1. \A f \in Closing' : Seen(f.i)'
      BY <1>2, <1>8, <1>10, <1>11 DEF OwnInv
    <3>2. \A f \in OwnFrames' : f.i = revision' /\ f.at # "close" /\ Seen(f.i)'
      BY <1>1, <1>3, <1>8, <1>10
    <3>3. QED
      BY <1>7, <3>1, <3>2 DEF OwnInv
  <2>3. FreshInv'
    BY <1>1, <1>2, <1>8, <1>10 DEF FreshInv, New, Apart
  <2>4. OpenInv'
    BY <1>1, <1>2, <1>3, <1>7, <1>10 DEF OpenInv, Kept, Apart
  <2>5. QED
    BY <2>1, <2>2, <2>3, <2>4 DEF StartsInv
<1>13. ActiveInv'
  BY <1>1, <1>2, <1>3, <1>9 DEF ActiveInv, Apart
<1>14. NumberInv'
  <2>1. ASSUME NEW u \in Threads, NEW f \in Frames(stack'[u]) PROVE Carries(f)'
    <3>1. CASE f = g
      BY <1>3, <3>1 DEF Carries
    <3>2. CASE f \in Frames(stack[u])
      <4>1. Carries(f)
        BY <1>2, <3>2 DEF NumberInv
      <4>2. QED
        BY <1>1, <4>1 DEF Carries, Number, Apart
    <3>3. QED
      BY <1>9, <3>1, <3>2
  <2>2. QED
    BY <1>1, <1>2, <2>1 DEF NumberInv, Number, Apart
<1>15. CoverInv'
  BY <1>1, <1>3, <1>10 DEF CoverInv, ToStart, Has
<1>16. QED
  BY <1>12, <1>13, <1>14, <1>15 DEF FlowInv
-----------------------------------------------------------------------------
(* The newest revision's start loses nothing. *)

LEMMA FlowInit == Init => FlowInv
<1> SUFFICES ASSUME Init PROVE FlowInv
  OBVIOUS
<1> USE ServiceReplicationAssumption
<1>1. /\ Starter \in Threads /\ Rebinder \in Threads /\ Starter # Rebinder /\ 0 \in Revisions
  BY ZeroTyped DEF Threads
<1>2. PICK g \in Frame : g = Do("subscribe") /\ g.at = "subscribe" /\ g.i = 0
  BY DoTyped DEF Points, StarterPoints, StartPoints
<1>3. Frames(<<g>>) = {g} /\ Frames(<<>>) = {} /\ Places(<<>>) = <<>>
  BY FramesOfTuples, PlacesOfTuples
<1>4. /\ stack[Starter] = <<g>> /\ Frames(stack[Starter]) = {g}
      /\ \A u \in Threads : u # Starter => stack[u] = <<>>
  BY <1>1, <1>2, <1>3 DEF Init
<1>5. \A u \in Threads : \A f \in Frames(stack[u]) : f = g
  BY <1>3, <1>4
<1>6. Place = <<>> /\ OwnFrames = {g} /\ Closing = {}
  BY <1>1, <1>2, <1>3, <1>4 DEF Place, OwnFrames, Own, StarterPoints, StartPoints, Closing
<1>7. Place \in Settled /\ Place \notin Unbinding /\ Place \notin Taken
  BY <1>6 DEF Settled, Unbinding, Taken
<1>8. revision = 0 /\ subscription = {} /\ subscribers = {} /\ \A i \in Revisions : New(i) /\ sub[i].buffer = <<>>
  BY DEF Init, New, Closed
<1>9. StartsInv
  <2>1. BoundInv
    BY <1>7 DEF BoundInv
  <2>2. OwnInv
    BY <1>2, <1>6, <1>7, <1>8 DEF OwnInv, Seen
  <2>3. FreshInv
    BY <1>1, <1>2, <1>6, <1>8 DEF FreshInv
  <2>4. OpenInv
    BY <1>2, <1>6, <1>8 DEF OpenInv
  <2>5. QED
    BY <2>1, <2>2, <2>3, <2>4 DEF StartsInv
<1>10. ActiveInv
  BY <1>2, <1>5 DEF ActiveInv
<1>11. NumberInv
  <2>1. \A u \in Threads : \A f \in Frames(stack[u]) : Carries(f)
    BY <1>2, <1>5 DEF Carries
  <2>2. Frames(pending) = {} /\ \A i \in Revisions : Frames(sub[i].buffer) = {}
    BY <1>3, <1>8 DEF Init
  <2>3. replica.seq <= seq /\ withdrawals \in Nat /\ instance = "registered"
    BY DEF Init, Cold
  <2>4. QED
    BY <2>1, <2>2, <2>3 DEF NumberInv
<1>12. CoverInv
  BY <1>2, <1>4, <1>8 DEF CoverInv, ToStart, Has
<1>13. QED
  BY <1>9, <1>10, <1>11, <1>12 DEF FlowInv

LEMMA FlowStutter ==
  ASSUME FlowInv, UNCHANGED vars
  PROVE  FlowInv'
<1>1. /\ UNCHANGED <<stack, seq, pending, instance, providerLock, subscribers, sub, snap>>
      /\ UNCHANGED <<bound, revision, subscription, replica, reported, withdrawals>>
  BY DEF vars, source, provider, binding, state
<1>2. OwnFrames' = OwnFrames /\ Closing' = Closing /\ Place' = Place /\ \A i : Seen(i)' <=> Seen(i)
  BY <1>1 DEF OwnFrames, Closing, Place, Seen
<1>3. BoundInv' /\ OwnInv'
  BY <1>1, <1>2 DEF FlowInv, StartsInv, BoundInv, OwnInv
<1>4. FreshInv'
  BY <1>1, <1>2 DEF FlowInv, StartsInv, FreshInv, New
<1>5. OpenInv'
  BY <1>1, <1>2 DEF FlowInv, StartsInv, OpenInv, Kept
<1>6. ActiveInv' /\ NumberInv'
  BY <1>1 DEF FlowInv, ActiveInv, NumberInv, Carries, Number
<1>7. CoverInv'
  <2>1. Watched' => Watched
    BY <1>1, <1>2 DEF Watched
  <2>2. (\A n : Up(n)' <=> Up(n)) /\ (\A n : Down(n, revision)' <=> Down(n, revision))
    BY <1>1 DEF Up, Down
  <2>3. (ToStart => ToStart') /\ (Reading => Reading') /\ (Buffering => Buffering')
    BY <1>1, <2>2 DEF ToStart, Reading, Buffering, Open
  <2>4. Following => Following'
    BY <1>1, <1>2, <2>2 DEF Following, IsCold, Cold, Open
  <2>5. QED
    BY <2>1, <2>3, <2>4 DEF FlowInv, CoverInv
<1>8. QED
  BY <1>3, <1>4, <1>5, <1>6, <1>7 DEF FlowInv, StartsInv

LEMMA CloserFlow ==
  ASSUME ReplicationInv, ReplicationInv', FlowInv, NEW t \in Threads, Close(t) \/ RemoveFromProvider(t)
  PROVE  FlowInv'
<1>1. ~Idle(t) /\ Top(t).at \in ClosePoints /\ stack \in [Threads -> Seq(Frame)]
  BY DEF Close, RemoveFromProvider, At, ClosePoints, ReplicationInv, Typed
<1>2. t = Starter \/ t = Rebinder
  BY <1>1, TopTyped DEF ReplicationInv, StartInv
<1>3. QED
  BY <1>2, StarterCloseFlow, RebinderCloseFlow

LEMMA FlowNext ==
  ASSUME ReplicationInv, ReplicationInv', FlowInv, [Next]_vars
  PROVE  FlowInv'
<1>1. ASSUME NEW t \in Threads, Publish(t) \/ Run(t)
      PROVE  FlowInv'
  BY <1>1, PublishFlow, ListenerFlow, DrainDispatchesFlow, DispatchSourceFlow, EmitFlow, DrainSubscriberFlow, NextEntryFlow,
     ReadSequenceFlow, ReadValueFlow, CloserFlow, FlushFlow, CheckUpdateFlow, WipeFlow, ApplyUpdateFlow, InstallFlow,
     ActivateFlow, ReapFlow, RevalidateFlow DEF Run
<1>2. ASSUME NEW t \in Publishers, LocalSubscribe(t) \/ LocalUnsubscribe(t) \/ Withdraw(t) \/ Provide(t)
      PROVE  FlowInv'
  BY <1>2, LocalSubscribeFlow, PublisherFlow
<1>3. ASSUME NEW b \in BOOLEAN, Rebind(b)
      PROVE  FlowInv'
  BY <1>3, RebindFlow
<1>4. CASE RebindSteps
  BY <1>4, BumpFlow, FacadeClearFlow, StopAwaitFlow, StopTakeFlow, RespawnFlow DEF RebindSteps
<1>5. CASE UNCHANGED vars
  BY <1>5, FlowStutter
<1>6. QED
  BY <1>1, <1>2, <1>3, <1>4, <1>5 DEF Next

LEMMA FlowInvariant == Spec => [](ReplicationInv /\ FlowInv)
<1>1. Init => ReplicationInv /\ FlowInv
  BY ReplicationInit, FlowInit
<1>2. (ReplicationInv /\ FlowInv) /\ [Next]_vars => (ReplicationInv /\ FlowInv)'
  <2> SUFFICES ASSUME ReplicationInv, FlowInv, [Next]_vars PROVE ReplicationInv' /\ FlowInv'
    OBVIOUS
  <2>1. ReplicationInv'
    BY ReplicationNext
  <2>2. QED
    BY <2>1, FlowNext
<1>3. QED
  BY <1>1, <1>2, PTL DEF Spec

(* When every thread has returned, a bound consumer of a service that was never withdrawn, told  *)
(* of no error, has the latest sequence and, unless its snapshot was torn, the latest value: what *)
(* was published after the snapshot was buffered until the activation or delivered after it, and *)
(* a rebind never leaves the new start behind.                                                   *)
THEOREM SettledIsCurrentHolds == Spec => []SettledIsCurrent
<1>1. ReplicationInv /\ FlowInv => SettledIsCurrent
  <2> SUFFICES ASSUME ReplicationInv, FlowInv, Quiet, bound, withdrawals = 0, revision \notin reported
               PROVE  ~IsCold /\ replica.seq = seq /\ (replica.torn \/ replica.value = seq)
    BY DEF SettledIsCurrent
  <2>1. Typed /\ SourceInv /\ BufferInv /\ NumberInv /\ CoverInv /\ Starter \in Threads /\ Rebinder \in Threads
    BY DEF ReplicationInv, FlowInv, Threads
  <2>2. \A t \in Threads : Frames(stack[t]) = {} /\ \A at, i : ~Has(stack[t], at, i)
    BY FramesOfTuples DEF Quiet, Idle, Has
  <2>3. Place \in Settled
    BY <2>1, PlacesOfTuples DEF Place, Settled, Quiet, Idle
  <2>4. Following /\ sub[revision].active
    BY <2>1, <2>2, <2>3 DEF CoverInv, Watched, ToStart, Reading, Buffering, Following
  <2>5. pending = <<>> /\ Frames(pending) = {}
    BY <2>1, <2>2, FramesOfTuples DEF SourceInv, Typed
  <2>6. Frames(sub[revision].buffer) = {}
    <3>1. revision \in Revisions /\ sub[revision].owner \in Threads \union {NoThread}
      BY <2>1, SubTyped DEF Typed, Subscriber
    <3>2. sub[revision].buffer = <<>>
      BY <2>1, <2>2, <2>4, <3>1 DEF BufferInv
    <3>3. QED
      BY <3>2, FramesOfTuples
  <2>7. \A n : ~Up(n) /\ ~Down(n, revision)
    BY <2>2, <2>5, <2>6 DEF Up, Down
  <2>8. \A n \in (replica.seq + 1)..seq : FALSE
    BY <2>4, <2>7 DEF Following
  <2>9. replica.seq \in Nat /\ seq \in Nat /\ replica.seq <= seq
    BY <2>1 DEF Typed, NumberInv
  <2>10. replica.seq = seq
    <3>1. SUFFICES ASSUME replica.seq < seq PROVE FALSE
      BY <2>9
    <3>2. seq \in (replica.seq + 1)..seq
      BY <2>9, <3>1
    <3>3. QED
      BY <2>8, <3>2
  <2>11. replica.torn \/ replica.value = replica.seq
    BY DEF ReplicationInv, HoldsItsLabel
  <2>12. QED
    BY <2>4, <2>10, <2>11 DEF Following
<1>2. QED
  BY <1>1, FlowInvariant, PTL

=============================================================================
