------------------------ MODULE ServiceEndpointProofs ------------------------
(* Theorems about ServiceEndpoint for every number of calls and updates and every queue limit. *)
EXTENDS ServiceEndpoint, Integers, FiniteSetTheorems, SequenceTheorems, TLAPS

CallStates ==
  {"none", "admitted", "subscribed", "rejected", "registered", "draining", "activated", "finishing",
   "done"}
RemovalStates == {"none", "closing", "finishing", "done"}
DisposeStates == {"none", "check", "wait", "take", "closing", "done"}
FeedStates == {"none", "buffering", "active", "closed"}
WorkerStates == {"none", "receive", "check", "admit", "publishing", "closing", "stopped"}

Queue == [items: Seq(Nat), depth: Int]
Worker == [at: WorkerStates, update: Nat, counted: BOOLEAN]

(* Every variable has its type; the flags and the history of leaks are left out. *)
TypeOK ==
  /\ current \in Calls \union {None} /\ taken \in Calls \union {None}
  /\ operations \in Int /\ emitted \in Nat
  /\ call \in [Calls -> CallStates] /\ removal \in [Calls -> RemovalStates]
  /\ dispose \in DisposeStates
  /\ queue \in [Calls -> Queue]
  /\ token \in [Calls -> Calls \union {None}]
  /\ worker \in [Calls -> Worker]
  /\ feed \in [Calls -> FeedStates]
  /\ buffer \in [Calls -> Seq(Nat)] /\ delivered \in [Calls -> Seq(Nat)]
  /\ told \in [Calls -> Seq(Nat)]
  /\ displaced \subseteq Calls

-----------------------------------------------------------------------------
(* Deliveries.  What the provider told the listener of a subscription is, in this order,       *)
(* delivered, in the hands of the worker, and queued.                                          *)

Early(g) == call[g] \in {"none", "admitted"}
Alive(g) == worker[g].at \notin {"closing", "stopped"}
Held(g) == IF worker[g].at \in {"check", "admit"} THEN 1 ELSE 0
Reached(g) == Len(delivered[g]) + Held(g)
Whole(items) == \A k \in 1..Len(items) : items[k] # Overflow
Continues(items, all, n) == \A k \in 1..Len(items) : n + k <= Len(all) /\ items[k] = all[n + k]
ContinuesToMarker(items, all, n) ==
  \A k \in 1..Len(items) :
    (\A j \in 1..k : items[j] # Overflow) => n + k <= Len(all) /\ items[k] = all[n + k]

(* The stages of a subscribe call, of its feed and of its worker fit together. *)
StageInv ==
  \A g \in Calls :
    /\ Early(g) => feed[g] \notin {"buffering", "active"}
    /\ worker[g].at # "none" => call[g] \in {"finishing", "done"}
    /\ removal[g] # "none" => call[g] \in {"registered", "draining", "activated", "finishing", "done"}

(* Until the worker ends: nothing is missing up to the first overflow marker, and without a    *)
(* marker nothing is missing at all.                                                           *)
Flow(g) ==
  /\ Continues(delivered[g], told[g], 0)
  /\ Alive(g) =>
       /\ Held(g) = 1 => Reached(g) <= Len(told[g]) /\ worker[g].update = told[g][Reached(g)]
       /\ ContinuesToMarker(queue[g].items, told[g], Reached(g))
       /\ Whole(queue[g].items) => Len(told[g]) = Reached(g) + Len(queue[g].items)

FlowInv == \A g \in Calls : Flow(g)

-----------------------------------------------------------------------------
(* Registrations.  A subscription is registered once, and its worker knows it. *)
CurrentInv ==
  current # None =>
    /\ call[current] \in {"registered", "draining", "activated", "finishing", "done"}
    /\ removal[current] = "none"
    /\ worker[current].at # "none" => token[current] = current
    /\ ~disposed => Alive(current)

-----------------------------------------------------------------------------
(* Disposal.  The counter counts the calls and the deliveries that are under way. *)

Busy == {g \in Calls : call[g] \notin {"none", "done"}}
Removing == {g \in Calls : removal[g] \in {"closing", "finishing"}}
Counted == {g \in Calls : worker[g].counted}

CountInv ==
  /\ operations = Cardinality(Busy) + Cardinality(Removing) + Cardinality(Counted)
  /\ \A g \in Calls :
       /\ worker[g].at = "publishing" => worker[g].counted
       /\ worker[g].counted => worker[g].at \in {"publishing", "closing"}

(* Once the disposal has seen no operation under way, none can begin. *)
DisposeInv ==
  /\ disposed => dispose # "none"
  /\ dispose # "none" => disposed
  /\ dispose \in {"take", "closing", "done"} => operations = 0
  /\ dispose \in {"closing", "done"} => current = None
  /\ dispose = "closing" => taken # None

(* Somebody is responsible for every subscription that the provider still feeds. *)
OwnedInv ==
  \A g \in Calls :
    feed[g] \in {"buffering", "active"} =>
      \/ call[g] \in {"subscribed", "rejected"}
      \/ current = g
      \/ removal[g] = "closing"
      \/ \E w \in Calls : worker[w].at = "closing" /\ token[w] = g
      \/ g \in displaced
      \/ dispose = "closing" /\ taken = g

-----------------------------------------------------------------------------
(* Types. *)

LEMMA CallsType == Calls \subseteq Nat /\ 0 \notin Calls /\ IsFiniteSet(Calls)
BY ServiceEndpointAssumption, FS_Interval DEF Calls

(* An update put into a queue, or the marker in its place. *)
LEMMA ListenType ==
  ASSUME NEW q \in Queue, NEW n \in Nat
  PROVE  Listen(q, n) \in Queue
BY DEF Listen, Overflow, Queue

(* What is left of a queue or a buffer. *)
LEMMA TailType ==
  ASSUME NEW items \in Seq(Nat), items # <<>>
  PROVE  Head(items) \in Nat /\ Tail(items) \in Seq(Nat)
OBVIOUS

(* The names of the stages. *)
LEMMA StageNames ==
  /\ "none" \in CallStates /\ "admitted" \in CallStates /\ "subscribed" \in CallStates /\ "rejected" \in CallStates
  /\ "registered" \in CallStates /\ "draining" \in CallStates /\ "activated" \in CallStates /\ "finishing" \in CallStates /\ "done" \in CallStates
  /\ "none" \in RemovalStates /\ "closing" \in RemovalStates /\ "finishing" \in RemovalStates /\ "done" \in RemovalStates
  /\ "none" \in DisposeStates /\ "check" \in DisposeStates /\ "wait" \in DisposeStates /\ "take" \in DisposeStates /\ "closing" \in DisposeStates
  /\ "done" \in DisposeStates
  /\ "none" \in FeedStates /\ "buffering" \in FeedStates /\ "active" \in FeedStates /\ "closed" \in FeedStates
  /\ "none" \in WorkerStates /\ "receive" \in WorkerStates /\ "check" \in WorkerStates /\ "admit" \in WorkerStates
  /\ "publishing" \in WorkerStates /\ "closing" \in WorkerStates /\ "stopped" \in WorkerStates
BY DEF CallStates, RemovalStates, DisposeStates, FeedStates, WorkerStates

(* A provider subscription is closed. *)
LEMMA CloseTypes ==
  ASSUME TypeOK, NEW g, CloseFeed(g)
  PROVE  /\ feed' \in [Calls -> FeedStates] /\ buffer' \in [Calls -> Seq(Nat)]
         /\ emitted' = emitted /\ told' = told
<1>1. feed' \in [Calls -> FeedStates]
  BY StageNames DEF TypeOK, CloseFeed
<1>2. buffer' \in [Calls -> Seq(Nat)]
  <2>1. ASSUME NEW h \in Calls PROVE buffer'[h] \in Seq(Nat)
    <3>1. buffer'[h] \in {<<>>, buffer[h]}
      BY DEF TypeOK, CloseFeed
    <3>2. <<>> \in Seq(Nat) /\ buffer[h] \in Seq(Nat)
      BY DEF TypeOK
    <3>3. QED
      BY <3>1, <3>2
  <2>2. buffer' = [h \in Calls |-> buffer'[h]]
    BY DEF TypeOK, CloseFeed
  <2>3. QED
    BY <2>1, <2>2
<1>3. QED
  BY <1>1, <1>2 DEF CloseFeed

(* The locals of a worker. *)
LEMMA WorkerTypes ==
  /\ NoWorker \in Worker /\ [NoWorker EXCEPT !.at = "receive"] \in Worker
  /\ \A g : Ends(g) \in Worker
  /\ \A w \in Worker, at \in WorkerStates : [w EXCEPT !.at = at] \in Worker
BY StageNames DEF NoWorker, Ends, Worker

-----------------------------------------------------------------------------
(* The steps, without the flags and the records that no invariant below needs (pending,       *)
(* closing, error, permit and leaked), and with a step of its own for each branch.            *)

Registers(g) ==
  /\ call[g] = "subscribed" /\ ~disposed
  /\ call' = [call EXCEPT ![g] = "registered"] /\ current' = g
  /\ displaced' = displaced \union ({current} \ {None})
  /\ UNCHANGED <<operations, disposed, removal, dispose, taken, emitted, feed, buffer, told, queue, token,
                 worker, delivered>>

IsRefused(g) ==
  /\ call[g] = "subscribed" /\ disposed
  /\ call' = [call EXCEPT ![g] = "rejected"]
  /\ UNCHANGED <<current, operations, disposed, removal, dispose, taken, emitted, feed, buffer, told, queue,
                 token, worker, delivered, displaced>>

FinishesSubscribe(g) ==
  /\ call[g] = "finishing" /\ call' = [call EXCEPT ![g] = "done"] /\ operations' = operations - 1
  /\ UNCHANGED <<current, disposed, removal, dispose, taken, emitted, feed, buffer, told, queue, token, worker,
                 delivered, displaced>>

FinishesUnsubscribe(g) ==
  /\ removal[g] = "finishing" /\ removal' = [removal EXCEPT ![g] = "done"]
  /\ operations' = operations - 1
  /\ UNCHANGED <<current, disposed, call, dispose, taken, emitted, feed, buffer, told, queue, token, worker,
                 delivered, displaced>>

Dequeues(g) ==
  /\ worker[g].at = "receive" /\ queue[g].items # <<>> /\ Head(queue[g].items) # Overflow
  /\ queue' = [queue EXCEPT ![g] = [items |-> Tail(queue[g].items), depth |-> queue[g].depth - 1]]
  /\ worker' = [worker EXCEPT ![g] = [at |-> "check", update |-> Head(queue[g].items), counted |-> FALSE]]
  /\ UNCHANGED <<current, operations, disposed, call, removal, dispose, taken, emitted, feed, buffer, told,
                 token, delivered, displaced>>

(* A worker finds itself current, or, on an overflow or a failed publish, takes its             *)
(* subscription from the table to close it, or ends.                                            *)
Confirms(g) ==
  /\ worker[g].at = "check" /\ worker' = [worker EXCEPT ![g] = [worker[g] EXCEPT !.at = "admit"]]
  /\ UNCHANGED <<current, operations, disposed, call, removal, dispose, taken, emitted, feed, buffer, told,
                 queue, token, delivered, displaced>>

Settles(counted) ==
  \/ counted /\ operations' = operations - 1
  \/ ~counted /\ operations' = operations

Evicts(g, counted) ==
  /\ \/ worker[g].at = "receive" /\ counted = FALSE
     \/ worker[g].at = "publishing" /\ counted = worker[g].counted
  /\ token[g] # None /\ token[g] = current /\ current' = None
  /\ worker' = [worker EXCEPT ![g] = [at |-> "closing", update |-> 0, counted |-> counted]]
  /\ \E q \in Queue : queue' = [queue EXCEPT ![g] = q]
  /\ UNCHANGED <<operations, disposed, call, removal, dispose, taken, emitted, feed, buffer, told, token,
                 delivered, displaced>>

GivesUp(g) ==
  /\ \/ worker[g].at \in {"receive", "check"} /\ operations' = operations /\ ~IsCurrent(g)
     \/ worker[g].at = "admit" /\ operations' = operations /\ disposed
     \/ worker[g].at = "publishing" /\ Settles(worker[g].counted) /\ ~IsCurrent(g)
  /\ worker' = [worker EXCEPT ![g] = Ends(g)]
  /\ \E q \in Queue : queue' = [queue EXCEPT ![g] = q]
  /\ UNCHANGED <<current, disposed, call, removal, dispose, taken, emitted, feed, buffer, told, token,
                 delivered, displaced>>

Hands(g) ==
  /\ worker[g].at = "admit" /\ ~disposed
  /\ worker' = [worker EXCEPT ![g] = [worker[g] EXCEPT !.at = "publishing", !.counted = TRUE]]
  /\ operations' = operations + 1
  /\ delivered' = [delivered EXCEPT ![g] = Append(delivered[g], worker[g].update)]
  /\ UNCHANGED <<current, disposed, call, removal, dispose, taken, emitted, feed, buffer, told, queue, token,
                 displaced>>

Published(g) ==
  /\ worker[g].at = "publishing" /\ Settles(worker[g].counted)
  /\ worker' = [worker EXCEPT ![g] = [NoWorker EXCEPT !.at = "receive"]]
  /\ UNCHANGED <<current, disposed, call, removal, dispose, taken, emitted, feed, buffer, told, queue, token,
                 delivered, displaced>>

Closes(g) ==
  /\ worker[g].at = "closing" /\ Settles(worker[g].counted)
  /\ CloseFeed(token[g])
  /\ worker' = [worker EXCEPT ![g] = Ends(g)]
  /\ UNCHANGED <<current, disposed, call, removal, dispose, taken, queue, token, delivered, displaced>>

(* Each of the branching actions is one of these steps. *)
LEMMA RegisterKinds ==
  ASSUME NEW g, RegisterSubscription(g)
  PROVE  Registers(g) \/ IsRefused(g)
BY DEF RegisterSubscription, Registers, IsRefused, provider, workers

LEMMA FinishKinds ==
  ASSUME NEW g
  PROVE  /\ FinishSubscribe(g) => FinishesSubscribe(g)
         /\ FinishUnsubscribe(g) => FinishesUnsubscribe(g)
BY DEF FinishSubscribe, FinishesSubscribe, FinishUnsubscribe, FinishesUnsubscribe, Complete, provider,
       workers

LEMMA Settling ==
  ASSUME NEW counted, IF counted THEN Complete(FALSE) ELSE UNCHANGED <<operations, permit>>
  PROVE  Settles(counted)
BY Zenon DEF Complete, Settles

LEMMA EvictKinds ==
  ASSUME NEW g, NEW counted, Evict(g, counted)
  PROVE  \/ /\ IsCurrent(g) /\ current' = None
            /\ worker' = [worker EXCEPT ![g] = [at |-> "closing", update |-> 0, counted |-> counted]]
            /\ operations' = operations
         \/ /\ ~IsCurrent(g) /\ worker' = [worker EXCEPT ![g] = Ends(g)]
            /\ Settles(counted) /\ current' = current
<1>1. CASE IsCurrent(g)
  BY ONLY <1>1, Evict(g, counted) DEF Evict
<1>2. CASE ~IsCurrent(g)
  <2>1. /\ worker' = [worker EXCEPT ![g] = Ends(g)]
        /\ IF counted THEN Complete(FALSE) ELSE UNCHANGED <<operations, permit>>
        /\ current' = current
    BY ONLY <1>2, Evict(g, counted) DEF Evict
  <2>2. QED
    BY <1>2, <2>1, Settling
<1>3. QED
  BY <1>1, <1>2

LEMMA ReceiveKinds ==
  ASSUME TypeOK, NEW g \in Calls, Receive(g)
  PROVE  Dequeues(g) \/ Evicts(g, FALSE) \/ GivesUp(g)
<1>1. /\ worker[g].at = "receive" /\ queue[g].items # <<>>
      /\ UNCHANGED <<disposed, call, removal, dispose, taken, emitted, feed, buffer, told, token, delivered,
                     displaced>>
  BY DEF Receive, provider
<1>2. CASE Head(queue[g].items) # Overflow
  BY <1>1, <1>2 DEF Receive, Dequeues
<1>3. CASE Head(queue[g].items) = Overflow
  <2>1. queue' = [queue EXCEPT ![g].items = Tail(queue[g].items)] /\ Evict(g, FALSE)
    BY <1>3 DEF Receive
  <2>2. queue[g] \in Queue /\ queue[g].items \in Seq(Nat) /\ Tail(queue[g].items) \in Seq(Nat)
    BY <1>1, TailType DEF TypeOK, Queue
  <2> DEFINE q == [queue[g] EXCEPT !.items = Tail(queue[g].items)]
  <2>3. q \in Queue /\ queue' = [queue EXCEPT ![g] = q]
    BY <2>1, <2>2 DEF Queue
  <2> HIDE DEF q
  <2>4. \E r \in Queue : queue' = [queue EXCEPT ![g] = r]
    BY <2>3
  <2>5. CASE IsCurrent(g)
    <3>1. /\ current' = None /\ operations' = operations
          /\ worker' = [worker EXCEPT ![g] = [at |-> "closing", update |-> 0, counted |-> FALSE]]
      BY ONLY <2>1, <2>5 DEF Evict
    <3>2. QED
      BY <1>1, <2>4, <2>5, <3>1 DEF Evicts, IsCurrent
  <2>6. CASE ~IsCurrent(g)
    <3>1. /\ current' = current /\ operations' = operations
          /\ worker' = [worker EXCEPT ![g] = Ends(g)]
      BY ONLY <2>1, <2>6 DEF Evict
    <3>2. QED
      BY <1>1, <2>4, <2>6, <3>1 DEF GivesUp
  <2>7. QED
    BY <2>5, <2>6
<1>4. QED
  BY <1>2, <1>3

LEMMA CheckKinds ==
  ASSUME TypeOK, NEW g \in Calls, CheckCurrent(g)
  PROVE  Confirms(g) \/ GivesUp(g)
<1>1. /\ worker[g].at = "check"
      /\ UNCHANGED <<current, operations, disposed, call, removal, dispose, taken, emitted, feed, buffer, told,
                     queue, token, delivered, displaced>>
  BY DEF CheckCurrent, state, provider
<1>2. CASE IsCurrent(g)
  BY <1>1, <1>2 DEF CheckCurrent, Confirms
<1>3. CASE ~IsCurrent(g)
  <2>1. queue[g] \in Queue /\ queue' = [queue EXCEPT ![g] = queue[g]]
    BY <1>1 DEF TypeOK
  <2>2. worker' = [worker EXCEPT ![g] = Ends(g)]
    BY <1>3 DEF CheckCurrent
  <2>3. QED
    BY <1>1, <1>3, <2>1, <2>2 DEF GivesUp
<1>4. QED
  BY <1>2, <1>3

LEMMA AdmitKinds ==
  ASSUME TypeOK, NEW g \in Calls, AdmitDelivery(g)
  PROVE  Hands(g) \/ GivesUp(g)
<1>1. /\ worker[g].at = "admit"
      /\ UNCHANGED <<current, disposed, call, removal, dispose, taken, emitted, feed, buffer, told, queue, token,
                     displaced>>
  BY DEF AdmitDelivery, provider
<1>2. CASE disposed
  <2>1. queue[g] \in Queue /\ queue' = [queue EXCEPT ![g] = queue[g]]
    BY <1>1 DEF TypeOK
  <2>2. worker' = [worker EXCEPT ![g] = Ends(g)] /\ UNCHANGED <<operations, delivered>>
    BY ONLY <1>2, AdmitDelivery(g) DEF AdmitDelivery
  <2>3. QED
    BY <1>1, <1>2, <2>1, <2>2 DEF GivesUp
<1>3. CASE ~disposed
  <2>1. /\ CountDelivery(g)
        /\ delivered' = [delivered EXCEPT ![g] = Append(delivered[g], worker[g].update)]
    BY ONLY <1>3, AdmitDelivery(g) DEF AdmitDelivery
  <2>2. /\ operations' = operations + 1
        /\ worker' = [worker EXCEPT ![g] = [worker[g] EXCEPT !.at = "publishing", !.counted = TRUE]]
    BY <2>1 DEF CountDelivery, Reserve, TypeOK, Worker
  <2>3. QED
    BY <1>1, <1>3, <2>1, <2>2 DEF Hands
<1>4. QED
  BY <1>2, <1>3

LEMMA PublishKinds ==
  ASSUME TypeOK, NEW g \in Calls
  PROVE  /\ PublishDone(g) => Published(g)
         /\ PublishFails(g) => Evicts(g, worker[g].counted) \/ GivesUp(g)
         /\ WorkerClose(g) => Closes(g)
<1>1. ASSUME PublishDone(g) PROVE Published(g)
  <2>1. Settles(worker[g].counted)
    BY ONLY <1>1, Settling DEF PublishDone
  <2>2. /\ worker[g].at = "publishing" /\ worker' = [worker EXCEPT ![g] = [NoWorker EXCEPT !.at = "receive"]]
        /\ UNCHANGED <<current, disposed, call, removal, dispose, taken, emitted, feed, buffer, told, queue, token,
                       delivered, displaced>>
    BY ONLY <1>1 DEF PublishDone, provider
  <2>3. QED
    BY <2>1, <2>2 DEF Published
<1>2. ASSUME PublishFails(g) PROVE Evicts(g, worker[g].counted) \/ GivesUp(g)
  <2>1. /\ worker[g].at = "publishing" /\ Evict(g, worker[g].counted)
        /\ UNCHANGED <<disposed, call, removal, dispose, taken, emitted, feed, buffer, told, queue, token,
                       delivered, displaced>>
    BY ONLY <1>2 DEF PublishFails, provider
  <2>2. queue[g] \in Queue /\ queue' = [queue EXCEPT ![g] = queue[g]]
    BY <2>1 DEF TypeOK
  <2>3. CASE IsCurrent(g)
    <3>1. /\ current' = None /\ operations' = operations
          /\ worker' = [worker EXCEPT ![g] = [at |-> "closing", update |-> 0, counted |-> worker[g].counted]]
      BY ONLY <2>1, <2>3, EvictKinds
    <3>2. QED
      BY <2>1, <2>2, <2>3, <3>1 DEF Evicts, IsCurrent
  <2>4. CASE ~IsCurrent(g)
    <3>1. /\ current' = current /\ Settles(worker[g].counted)
          /\ worker' = [worker EXCEPT ![g] = Ends(g)]
      BY ONLY <2>1, <2>4, EvictKinds
    <3>2. QED
      BY <2>1, <2>2, <2>4, <3>1 DEF GivesUp
  <2>5. QED
    BY <2>3, <2>4
<1>3. ASSUME WorkerClose(g) PROVE Closes(g)
  <2>1. Settles(worker[g].counted)
    BY ONLY <1>3, Settling DEF WorkerClose
  <2>2. /\ worker[g].at = "closing" /\ CloseFeed(token[g])
        /\ worker' = [worker EXCEPT ![g] = Ends(g)]
        /\ UNCHANGED <<current, disposed, call, removal, dispose, taken, queue, token, delivered, displaced>>
    BY ONLY <1>3 DEF WorkerClose
  <2>3. QED
    BY <2>1, <2>2 DEF Closes
<1>4. QED
  BY <1>1, <1>2, <1>3

Emits == \E inline \in SUBSET Overtakable : EmitUpdate(inline)

Steps ==
  \/ Emits \/ TakeDeliveryError \/ AdmitUnsubscribe
  \/ BeginDispose \/ CheckIdle \/ AwaitNotify \/ TakeSubscriptions \/ DisposeClose
  \/ \E g \in Calls :
       \/ AdmitSubscribe(g) \/ ProviderSubscribe(g) \/ ProviderRefuse(g) \/ Registers(g) \/ IsRefused(g)
       \/ RejectClose(g) \/ Activate(g) \/ DrainSubscriber(g) \/ Activated(g) \/ SpawnUpdateWorker(g)
       \/ FinishesSubscribe(g)
       \/ UnsubscribeClose(g) \/ FinishesUnsubscribe(g)
       \/ Dequeues(g) \/ Confirms(g) \/ (\E counted \in BOOLEAN : Evicts(g, counted)) \/ GivesUp(g)
       \/ Hands(g) \/ Published(g) \/ Closes(g)
  \/ UNCHANGED vars

LEMMA StepKinds ==
  ASSUME TypeOK, [Next]_vars
  PROVE  Steps
<1>1. ASSUME NEW g \in Calls, AdmitSubscribe(g) \/ SubscribeSteps(g) \/ UnsubscribeSteps(g)
      PROVE  Steps
  BY <1>1, RegisterKinds, FinishKinds DEF SubscribeSteps, UnsubscribeSteps, Steps
<1>2. ASSUME NEW g \in Calls, WorkerSteps(g)
      PROVE  Steps
  <2>1. worker[g].counted \in BOOLEAN /\ FALSE \in BOOLEAN
    BY DEF TypeOK, Worker
  <2>2. \/ Dequeues(g) \/ Confirms(g) \/ (\E counted \in BOOLEAN : Evicts(g, counted)) \/ GivesUp(g)
        \/ Hands(g) \/ Published(g) \/ Closes(g)
    BY <1>2, <2>1, ReceiveKinds, CheckKinds, AdmitKinds, PublishKinds, Zenon DEF WorkerSteps
  <2>3. QED
    BY <2>2 DEF Steps
<1>3. QED
  BY <1>1, <1>2, Zenon DEF Next, DisposeSteps, Emits, Steps

(* Every step of the endpoint and of the provider keeps the types. *)
LEMMA TypeStep ==
  ASSUME TypeOK, [Next]_vars
  PROVE  TypeOK'
<1>0. Steps
  BY StepKinds
<1> USE CallsType, StageNames DEF TypeOK, None, state, provider, workers
<1>1. CASE Emits
  <2>0. PICK inline \in SUBSET Overtakable : EmitUpdate(inline)
    BY <1>1 DEF Emits
  <2>1. emitted' \in Nat
    BY <2>0 DEF EmitUpdate
  <2>2. buffer' \in [Calls -> Seq(Nat)] /\ told' \in [Calls -> Seq(Nat)]
    BY <2>0, <2>1 DEF EmitUpdate
  <2>3. queue' \in [Calls -> Queue]
    BY <2>0, <2>1, ListenType DEF EmitUpdate
  <2>4. QED
    BY <2>0, <2>1, <2>2, <2>3 DEF EmitUpdate
<1>2. CASE TakeDeliveryError
  BY <1>2 DEF TakeDeliveryError
<1>3. CASE AdmitUnsubscribe
  BY <1>3 DEF AdmitUnsubscribe, Reserve
<1>4. CASE BeginDispose
  BY <1>4 DEF BeginDispose
<1>5. CASE CheckIdle
  BY <1>5 DEF CheckIdle
<1>6. CASE AwaitNotify
  BY <1>6 DEF AwaitNotify
<1>7. CASE TakeSubscriptions
  BY <1>7 DEF TakeSubscriptions
<1>8. CASE DisposeClose
  BY <1>8, CloseTypes DEF DisposeClose
<1>9. ASSUME NEW g \in Calls, AdmitSubscribe(g) PROVE TypeOK'
  BY <1>9 DEF AdmitSubscribe, Reserve
<1>10. ASSUME NEW g \in Calls, ProviderSubscribe(g) PROVE TypeOK'
  BY <1>10 DEF ProviderSubscribe
<1>11. ASSUME NEW g \in Calls, ProviderRefuse(g) PROVE TypeOK'
  BY <1>11 DEF ProviderRefuse
<1>12. ASSUME NEW g \in Calls, Registers(g) PROVE TypeOK'
  BY <1>12 DEF Registers
<1>13. ASSUME NEW g \in Calls, IsRefused(g) PROVE TypeOK'
  BY <1>13 DEF IsRefused
<1>14. ASSUME NEW g \in Calls, RejectClose(g) PROVE TypeOK'
  BY <1>14, CloseTypes DEF RejectClose
<1>15. ASSUME NEW g \in Calls, DrainSubscriber(g) PROVE TypeOK'
  <2>1. Head(buffer[g]) \in Nat /\ Tail(buffer[g]) \in Seq(Nat)
    BY <1>15, TailType DEF DrainSubscriber
  <2>2. Listen(queue[g], Head(buffer[g])) \in Queue
    BY <2>1, ListenType
  <2>3. told[g] \in Seq(Nat) /\ Append(told[g], Head(buffer[g])) \in Seq(Nat)
    BY <2>1
  <2>4. /\ buffer' \in [Calls -> Seq(Nat)] /\ queue' \in [Calls -> Queue]
        /\ told' \in [Calls -> Seq(Nat)]
    BY <1>15, <2>1, <2>2, <2>3 DEF DrainSubscriber
  <2>5. QED
    BY <1>15, <2>4 DEF DrainSubscriber
<1>16. ASSUME NEW g \in Calls, Activate(g) PROVE TypeOK'
  BY <1>16 DEF Activate
<1>17. ASSUME NEW g \in Calls, SpawnUpdateWorker(g) PROVE TypeOK'
  <2>1. worker' \in [Calls -> Worker]
    BY <1>17 DEF SpawnUpdateWorker, Worker
  <2>2. QED
    BY <1>17, <2>1 DEF SpawnUpdateWorker
<1>18. ASSUME NEW g \in Calls, FinishesSubscribe(g) PROVE TypeOK'
  BY <1>18 DEF FinishesSubscribe
<1>19. ASSUME NEW g \in Calls, UnsubscribeClose(g) PROVE TypeOK'
  BY <1>19, CloseTypes DEF UnsubscribeClose
<1>20. ASSUME NEW g \in Calls, FinishesUnsubscribe(g) PROVE TypeOK'
  BY <1>20 DEF FinishesUnsubscribe
<1>21. ASSUME NEW g \in Calls, Dequeues(g) PROVE TypeOK'
  <2>1. queue[g].items \in Seq(Nat) /\ queue[g].depth \in Int
    BY DEF Queue
  <2>2. Head(queue[g].items) \in Nat /\ Tail(queue[g].items) \in Seq(Nat)
    BY <1>21, <2>1, TailType DEF Dequeues
  <2>3. /\ [items |-> Tail(queue[g].items), depth |-> queue[g].depth - 1] \in Queue
        /\ [at |-> "check", update |-> Head(queue[g].items), counted |-> FALSE] \in Worker
    BY <2>1, <2>2 DEF Queue, Worker
  <2>4. QED
    BY <1>21, <2>3 DEF Dequeues
<1>22. ASSUME NEW g \in Calls, Confirms(g) PROVE TypeOK'
  BY <1>22, WorkerTypes DEF Confirms
<1>23. ASSUME NEW g \in Calls, NEW counted \in BOOLEAN, Evicts(g, counted) PROVE TypeOK'
  <2>1. [at |-> "closing", update |-> 0, counted |-> counted] \in Worker
    BY DEF Worker
  <2>2. QED
    BY <1>23, <2>1, SMTT(40) DEF Evicts
<1>24. ASSUME NEW g \in Calls, GivesUp(g) PROVE TypeOK'
  <2>1. operations' \in Int
    BY <1>24 DEF GivesUp, Settles
  <2>2. Ends(g) \in Worker
    BY WorkerTypes
  <2>3. queue' \in [Calls -> Queue]
    BY <1>24 DEF GivesUp
  <2>4. QED
    BY <1>24, <2>1, <2>2, <2>3 DEF GivesUp
<1>25. ASSUME NEW g \in Calls, Hands(g) PROVE TypeOK'
  <2>1. [worker[g] EXCEPT !.at = "publishing", !.counted = TRUE] \in Worker /\ worker[g].update \in Nat
    BY DEF Worker
  <2>2. operations' \in Int /\ delivered' \in [Calls -> Seq(Nat)]
    BY <1>25, <2>1 DEF Hands
  <2>3. worker' \in [Calls -> Worker]
    BY <1>25, <2>1 DEF Hands
  <2>4. QED
    BY <1>25, <2>2, <2>3 DEF Hands
<1>26. ASSUME NEW g \in Calls, Published(g) PROVE TypeOK'
  <2>1. operations' \in Int
    BY <1>26 DEF Published, Settles
  <2>2. [NoWorker EXCEPT !.at = "receive"] \in Worker
    BY WorkerTypes
  <2>3. QED
    BY <1>26, <2>1, <2>2 DEF Published
<1>27. ASSUME NEW g \in Calls, Closes(g) PROVE TypeOK'
  <2>1. operations' \in Int
    BY <1>27 DEF Closes, Settles
  <2>2. Ends(g) \in Worker
    BY WorkerTypes
  <2>3. QED
    BY <1>27, <2>1, <2>2, CloseTypes DEF Closes
<1>28. ASSUME NEW g \in Calls, Activated(g) PROVE TypeOK'
  BY <1>28 DEF Activated
<1>29. CASE UNCHANGED vars
  BY <1>29 DEF vars
<1> HIDE DEF TypeOK
<1>30. QED
  BY <1>0, <1>1, <1>2, <1>3, <1>4, <1>5, <1>6, <1>7, <1>8, <1>9, <1>10, <1>11, <1>12, <1>13, <1>14,
     <1>15, <1>16, <1>17, <1>18, <1>19, <1>20, <1>21, <1>22, <1>23, <1>24, <1>25, <1>26, <1>27,
     <1>28, <1>29, Zenon DEF Steps

LEMMA InitTypes == Init => TypeOK
<1>1. [items |-> <<>>, depth |-> 0] \in Queue
  BY DEF Queue
<1>2. QED
  BY <1>1, CallsType, StageNames, WorkerTypes DEF Init, TypeOK, None

(* Every step keeps the stages of calls, feeds and workers in line. *)
LEMMA StageStep ==
  ASSUME TypeOK, StageInv, CurrentInv, [Next]_vars
  PROVE  StageInv'
<1>0. Steps
  BY StepKinds
<1> USE CallsType DEF TypeOK, StageInv, Early, None, state, provider, workers, CloseFeed, NoWorker, Ends, Settles
<1>1. CASE Emits
  BY <1>1 DEF Emits, EmitUpdate
<1>2. CASE TakeDeliveryError
  BY <1>2 DEF TakeDeliveryError
<1>3. CASE AdmitUnsubscribe
  BY <1>3 DEF AdmitUnsubscribe, Reserve, CurrentInv
<1>4. CASE BeginDispose
  BY <1>4 DEF BeginDispose
<1>5. CASE CheckIdle
  BY <1>5 DEF CheckIdle
<1>6. CASE AwaitNotify
  BY <1>6 DEF AwaitNotify
<1>7. CASE TakeSubscriptions
  BY <1>7 DEF TakeSubscriptions
<1>8. CASE DisposeClose
  BY <1>8 DEF DisposeClose
<1>9. ASSUME NEW g \in Calls, AdmitSubscribe(g) PROVE StageInv'
  BY <1>9 DEF AdmitSubscribe, Reserve
<1>10. ASSUME NEW g \in Calls, ProviderSubscribe(g) PROVE StageInv'
  BY <1>10 DEF ProviderSubscribe
<1>11. ASSUME NEW g \in Calls, ProviderRefuse(g) PROVE StageInv'
  BY <1>11 DEF ProviderRefuse
<1>12. ASSUME NEW g \in Calls, Registers(g) PROVE StageInv'
  BY <1>12 DEF Registers
<1>13. ASSUME NEW g \in Calls, IsRefused(g) PROVE StageInv'
  BY <1>13 DEF IsRefused
<1>14. ASSUME NEW g \in Calls, RejectClose(g) PROVE StageInv'
  BY <1>14 DEF RejectClose
<1>15. ASSUME NEW g \in Calls, DrainSubscriber(g) PROVE StageInv'
  BY <1>15 DEF DrainSubscriber
<1>16. ASSUME NEW g \in Calls, Activate(g) PROVE StageInv'
  BY <1>16 DEF Activate
<1>17. ASSUME NEW g \in Calls, SpawnUpdateWorker(g) PROVE StageInv'
  BY <1>17 DEF SpawnUpdateWorker
<1>18. ASSUME NEW g \in Calls, FinishesSubscribe(g) PROVE StageInv'
  BY <1>18 DEF FinishesSubscribe
<1>19. ASSUME NEW g \in Calls, UnsubscribeClose(g) PROVE StageInv'
  BY <1>19 DEF UnsubscribeClose
<1>20. ASSUME NEW g \in Calls, FinishesUnsubscribe(g) PROVE StageInv'
  BY <1>20 DEF FinishesUnsubscribe
<1>21. ASSUME NEW g \in Calls, Dequeues(g) PROVE StageInv'
  BY <1>21 DEF Dequeues
<1>22. ASSUME NEW g \in Calls, Confirms(g) PROVE StageInv'
  BY <1>22 DEF Confirms
<1>23. ASSUME NEW g \in Calls, NEW counted \in BOOLEAN, Evicts(g, counted) PROVE StageInv'
  BY <1>23 DEF Evicts
<1>24. ASSUME NEW g \in Calls, GivesUp(g) PROVE StageInv'
  BY <1>24 DEF GivesUp
<1>25. ASSUME NEW g \in Calls, Hands(g) PROVE StageInv'
  BY <1>25 DEF Hands
<1>26. ASSUME NEW g \in Calls, Published(g) PROVE StageInv'
  BY <1>26 DEF Published
<1>27. ASSUME NEW g \in Calls, Closes(g) PROVE StageInv'
  BY <1>27 DEF Closes
<1>28. ASSUME NEW g \in Calls, Activated(g) PROVE StageInv'
  BY <1>28 DEF Activated
<1>29. CASE UNCHANGED vars
  BY <1>29 DEF vars
<1> HIDE DEF TypeOK, StageInv
<1>30. QED
  BY <1>0, <1>1, <1>2, <1>3, <1>4, <1>5, <1>6, <1>7, <1>8, <1>9, <1>10, <1>11, <1>12, <1>13, <1>14,
     <1>15, <1>16, <1>17, <1>18, <1>19, <1>20, <1>21, <1>22, <1>23, <1>24, <1>25, <1>26, <1>27,
     <1>28, <1>29, Zenon DEF Steps

(* Every step keeps the registered subscription alive. *)
LEMMA CurrentStep ==
  ASSUME TypeOK, StageInv, CurrentInv, [Next]_vars
  PROVE  CurrentInv'
<1>0. Steps
  BY StepKinds
<1> USE CallsType DEF TypeOK, StageInv, CurrentInv, Early, Alive, None, state, provider, workers, CloseFeed, NoWorker, Ends, Settles, IsCurrent
<1>1. CASE Emits
  BY <1>1 DEF Emits, EmitUpdate
<1>2. CASE TakeDeliveryError
  BY <1>2 DEF TakeDeliveryError
<1>3. CASE AdmitUnsubscribe
  BY <1>3 DEF AdmitUnsubscribe, Reserve
<1>4. CASE BeginDispose
  BY <1>4 DEF BeginDispose
<1>5. CASE CheckIdle
  BY <1>5 DEF CheckIdle
<1>6. CASE AwaitNotify
  BY <1>6 DEF AwaitNotify
<1>7. CASE TakeSubscriptions
  BY <1>7 DEF TakeSubscriptions
<1>8. CASE DisposeClose
  BY <1>8 DEF DisposeClose
<1>9. ASSUME NEW g \in Calls, AdmitSubscribe(g) PROVE CurrentInv'
  BY <1>9 DEF AdmitSubscribe, Reserve
<1>10. ASSUME NEW g \in Calls, ProviderSubscribe(g) PROVE CurrentInv'
  BY <1>10 DEF ProviderSubscribe
<1>11. ASSUME NEW g \in Calls, ProviderRefuse(g) PROVE CurrentInv'
  BY <1>11 DEF ProviderRefuse
<1>12. ASSUME NEW g \in Calls, Registers(g) PROVE CurrentInv'
  BY <1>12 DEF Registers
<1>13. ASSUME NEW g \in Calls, IsRefused(g) PROVE CurrentInv'
  BY <1>13 DEF IsRefused
<1>14. ASSUME NEW g \in Calls, RejectClose(g) PROVE CurrentInv'
  BY <1>14 DEF RejectClose
<1>15. ASSUME NEW g \in Calls, DrainSubscriber(g) PROVE CurrentInv'
  BY <1>15 DEF DrainSubscriber
<1>16. ASSUME NEW g \in Calls, Activate(g) PROVE CurrentInv'
  BY <1>16 DEF Activate
<1>17. ASSUME NEW g \in Calls, SpawnUpdateWorker(g) PROVE CurrentInv'
  BY <1>17 DEF SpawnUpdateWorker
<1>18. ASSUME NEW g \in Calls, FinishesSubscribe(g) PROVE CurrentInv'
  BY <1>18 DEF FinishesSubscribe
<1>19. ASSUME NEW g \in Calls, UnsubscribeClose(g) PROVE CurrentInv'
  BY <1>19 DEF UnsubscribeClose
<1>20. ASSUME NEW g \in Calls, FinishesUnsubscribe(g) PROVE CurrentInv'
  BY <1>20 DEF FinishesUnsubscribe
<1>21. ASSUME NEW g \in Calls, Dequeues(g) PROVE CurrentInv'
  BY <1>21 DEF Dequeues
<1>22. ASSUME NEW g \in Calls, Confirms(g) PROVE CurrentInv'
  BY <1>22 DEF Confirms
<1>23. ASSUME NEW g \in Calls, NEW counted \in BOOLEAN, Evicts(g, counted) PROVE CurrentInv'
  BY <1>23 DEF Evicts
<1>24. ASSUME NEW g \in Calls, GivesUp(g) PROVE CurrentInv'
  BY <1>24 DEF GivesUp
<1>25. ASSUME NEW g \in Calls, Hands(g) PROVE CurrentInv'
  BY <1>25 DEF Hands
<1>26. ASSUME NEW g \in Calls, Published(g) PROVE CurrentInv'
  BY <1>26 DEF Published
<1>27. ASSUME NEW g \in Calls, Closes(g) PROVE CurrentInv'
  BY <1>27 DEF Closes
<1>28. ASSUME NEW g \in Calls, Activated(g) PROVE CurrentInv'
  BY <1>28 DEF Activated
<1>29. CASE UNCHANGED vars
  BY <1>29 DEF vars
<1> HIDE DEF TypeOK, StageInv, CurrentInv
<1>30. QED
  BY <1>0, <1>1, <1>2, <1>3, <1>4, <1>5, <1>6, <1>7, <1>8, <1>9, <1>10, <1>11, <1>12, <1>13, <1>14,
     <1>15, <1>16, <1>17, <1>18, <1>19, <1>20, <1>21, <1>22, <1>23, <1>24, <1>25, <1>26, <1>27,
     <1>28, <1>29, Zenon DEF Steps

(* A subscription whose listener was not called and whose worker did not move. *)
LEMMA FlowKept ==
  ASSUME NEW h \in Calls, Flow(h),
         told'[h] = told[h], delivered'[h] = delivered[h], worker'[h] = worker[h], queue'[h] = queue[h]
  PROVE  Flow(h)'
BY DEF Flow, Alive, Held, Reached

(* The parts of one subscription. *)
LEMMA PartTypes ==
  ASSUME TypeOK, NEW g \in Calls
  PROVE  /\ told[g] \in Seq(Nat) /\ delivered[g] \in Seq(Nat) /\ queue[g].items \in Seq(Nat)
         /\ Len(told[g]) \in Nat /\ Len(delivered[g]) \in Nat /\ Len(queue[g].items) \in Nat
         /\ Held(g) \in Nat /\ Reached(g) \in Nat
<1>1. told[g] \in Seq(Nat) /\ delivered[g] \in Seq(Nat) /\ queue[g].items \in Seq(Nat)
  BY DEF TypeOK, Queue
<1>2. Len(told[g]) \in Nat /\ Len(delivered[g]) \in Nat /\ Len(queue[g].items) \in Nat
  BY <1>1
<1>3. Held(g) \in Nat
  BY DEF Held
<1>4. QED
  BY <1>1, <1>2, <1>3 DEF Reached

(* Runs of updates: at their ends, and empty ones. *)
LEMMA NothingFollows ==
  \A all, n : Continues(<<>>, all, n) /\ ContinuesToMarker(<<>>, all, n) /\ Len(<<>>) = 0
BY DEF Continues, ContinuesToMarker

LEMMA ContinuesAppend ==
  ASSUME NEW items \in Seq(Nat), NEW all, Continues(items, all, 0), NEW m \in Nat,
         Len(items) + 1 <= Len(all), m = all[Len(items) + 1]
  PROVE  Continues(Append(items, m), all, 0) /\ Len(Append(items, m)) = Len(items) + 1
<1>1. Len(items) \in Nat
  OBVIOUS
<1>2. /\ Len(Append(items, m)) = Len(items) + 1
      /\ \A k \in 1..(Len(items) + 1) : Append(items, m)[k] = IF k = Len(items) + 1 THEN m ELSE items[k]
  BY <1>1
<1>3. ASSUME NEW k \in 1..Len(Append(items, m))
      PROVE  0 + k <= Len(all) /\ Append(items, m)[k] = all[0 + k]
  <2>1. k \in 1..(Len(items) + 1) /\ 0 + k = k
    BY <1>2
  <2>2. CASE k = Len(items) + 1
    BY <1>1, <1>2, <2>1, <2>2
  <2>3. CASE k # Len(items) + 1
    <3>1. k \in 1..Len(items)
      BY <1>1, <2>1, <2>3
    <3>2. 0 + k <= Len(all) /\ items[k] = all[0 + k]
      BY <3>1 DEF Continues
    <3>3. QED
      BY <1>2, <2>1, <2>3, <3>2
  <2>4. QED
    BY <2>2, <2>3
<1>4. QED
  BY <1>2, <1>3 DEF Continues

(* A run of updates still continues what was told when more is told. *)
LEMMA ToldMore ==
  ASSUME NEW all \in Seq(Nat), NEW u \in Nat
  PROVE  /\ Len(Append(all, u)) = Len(all) + 1 /\ Append(all, u)[Len(all) + 1] = u
         /\ \A k \in Nat \ {0} : k <= Len(all) => k <= Len(Append(all, u)) /\ Append(all, u)[k] = all[k]
OBVIOUS

(* An update behind a whole queue is in its place; behind a marker nothing is promised. *)
LEMMA QueueGrows ==
  ASSUME NEW items \in Seq(Nat), NEW all \in Seq(Nat), NEW n \in Nat, NEW u \in Nat,
         ContinuesToMarker(items, all, n), NEW m \in Nat, m \in {Overflow, u},
         Whole(items) => Len(all) = n + Len(items)
  PROVE  /\ ContinuesToMarker(Append(items, m), Append(all, u), n)
         /\ Whole(Append(items, m)) => Len(Append(all, u)) = n + Len(Append(items, m))
<1> DEFINE more == Append(items, m)
           later == Append(all, u)
           here == Len(items)
           there == Len(all)
<1>1. /\ Len(more) = here + 1 /\ here \in Nat /\ there \in Nat
      /\ \A k \in 1..here : more[k] = items[k]
      /\ more[here + 1] = m
  OBVIOUS
<1>2. /\ Len(later) = there + 1 /\ later[there + 1] = u
      /\ \A k \in Nat \ {0} : k <= there => k <= Len(later) /\ later[k] = all[k]
  BY ToldMore
<1>3. Whole(more) => Whole(items)
  BY <1>1 DEF Whole
<1>4. Whole(items) => there = n + here
  OBVIOUS
<1>5. \A k \in 1..here : (\A j \in 1..k : items[j] # Overflow) => n + k <= there /\ items[k] = all[n + k]
  BY DEF ContinuesToMarker
<1> HIDE DEF more, later, here, there
<1>6. ASSUME NEW k \in 1..(here + 1), \A j \in 1..k : more[j] # Overflow
      PROVE  n + k <= Len(later) /\ more[k] = later[n + k]
  <2>1. CASE k \in 1..here
    <3>1. \A j \in 1..k : items[j] # Overflow
      BY <1>1, <1>6, <2>1
    <3>2. n + k <= there /\ items[k] = all[n + k]
      BY <1>5, <2>1, <3>1
    <3>3. n + k \in Nat \ {0}
      BY <1>1, <2>1
    <3>4. QED
      BY <1>1, <1>2, <2>1, <3>2, <3>3
  <2>2. CASE k = here + 1
    <3>1. \A j \in 1..here : items[j] # Overflow
      BY <1>1, <1>6, <2>2
    <3>2. Whole(items)
      BY <3>1 DEF Whole, here
    <3>3. m # Overflow
      BY <1>1, <1>6, <2>2
    <3>4. n + k = there + 1
      BY <1>1, <1>4, <2>2, <3>2
    <3>5. more[k] = u /\ later[n + k] = u
      BY <1>1, <1>2, <2>2, <3>3, <3>4
    <3>6. QED
      BY <1>1, <1>2, <3>4, <3>5
  <2>3. QED
    BY <1>1, <2>1, <2>2
<1>7. Whole(more) => Len(later) = n + Len(more)
  BY <1>1, <1>2, <1>3, <1>4
<1>8. ContinuesToMarker(more, later, n)
  BY <1>1, <1>6 DEF ContinuesToMarker
<1>9. QED
  BY <1>7, <1>8 DEF more, later

LEMMA QueueShrinks ==
  ASSUME NEW items \in Seq(Nat), items # <<>>, Head(items) # Overflow, NEW all \in Seq(Nat), NEW n \in Nat,
         ContinuesToMarker(items, all, n)
  PROVE  /\ n + 1 <= Len(all) /\ Head(items) = all[n + 1]
         /\ ContinuesToMarker(Tail(items), all, n + 1)
         /\ Whole(Tail(items)) => Whole(items)
         /\ Len(items) \in Nat /\ Len(Tail(items)) + 1 = Len(items) /\ Len(Tail(items)) \in Nat
<1> DEFINE rest == Tail(items)
<1>1. /\ Head(items) = items[1] /\ Len(items) \in Nat \ {0} /\ Len(rest) = Len(items) - 1
      /\ \A k \in 1..Len(rest) : rest[k] = items[k + 1]
  OBVIOUS
<1> HIDE DEF rest
<1>2. n + 1 <= Len(all) /\ items[1] = all[n + 1]
  BY <1>1 DEF ContinuesToMarker
<1>3. ASSUME NEW k \in 1..Len(rest) PROVE k + 1 \in 1..Len(items)
  BY <1>1
<1>4. ASSUME NEW k \in 1..Len(items), k # 1 PROVE k - 1 \in 1..Len(rest) /\ items[k] = rest[k - 1]
  <2>1. k - 1 \in 1..Len(rest) /\ (k - 1) + 1 = k
    BY <1>1, <1>4
  <2>2. rest[k - 1] = items[(k - 1) + 1]
    BY <1>1, <2>1
  <2>3. QED
    BY <2>1, <2>2
<1>5. Whole(rest) => Whole(items)
  BY <1>1, <1>4 DEF Whole
<1>6. ASSUME NEW k \in 1..Len(rest), \A j \in 1..k : rest[j] # Overflow
      PROVE  n + 1 + k <= Len(all) /\ rest[k] = all[n + 1 + k]
  <2>1. ASSUME NEW j \in 1..(k + 1) PROVE items[j] # Overflow
    <3>1. CASE j = 1
      BY <1>1, <3>1
    <3>2. CASE j # 1
      <4>1. j \in 1..Len(items) /\ j - 1 \in 1..k
        BY <1>1, <3>2
      <4>2. QED
        BY <1>4, <1>6, <3>2, <4>1
    <3>3. QED
      BY <3>1, <3>2
  <2>2. n + (k + 1) <= Len(all) /\ items[k + 1] = all[n + (k + 1)]
    BY <1>3, <2>1 DEF ContinuesToMarker
  <2>3. n + (k + 1) = n + 1 + k
    OBVIOUS
  <2>4. QED
    BY <1>1, <2>2, <2>3
<1>7. ContinuesToMarker(rest, all, n + 1)
  BY <1>6 DEF ContinuesToMarker
<1>8. QED
  BY <1>1, <1>2, <1>5, <1>7 DEF rest

(* The listener is called: the update is queued in its place, or a marker is. *)
LEMMA Told ==
  ASSUME TypeOK, NEW g \in Calls, Flow(g), NEW u \in Nat,
         UNCHANGED <<delivered, worker>>,
         queue'[g] = Listen(queue[g], u), told'[g] = Append(told[g], u)
  PROVE  Flow(g)'
<1>1. /\ told[g] \in Seq(Nat) /\ delivered[g] \in Seq(Nat) /\ queue[g].items \in Seq(Nat)
      /\ Reached(g) \in Nat /\ Held(g) \in Nat /\ Len(told[g]) \in Nat /\ Len(delivered[g]) \in Nat
  BY PartTypes
<1>2. /\ Reached(g)' = Reached(g) /\ Held(g)' = Held(g) /\ Alive(g)' = Alive(g)
      /\ delivered'[g] = delivered[g] /\ worker'[g] = worker[g]
  BY DEF Reached, Held, Alive
<1>3. /\ Len(told'[g]) = Len(told[g]) + 1
      /\ \A k \in Nat \ {0} : k <= Len(told[g]) => k <= Len(told'[g]) /\ told'[g][k] = told[g][k]
  BY <1>1, ToldMore
<1>4. Continues(delivered'[g], told'[g], 0)
  <2>1. ASSUME NEW k \in 1..Len(delivered[g])
        PROVE  0 + k <= Len(told'[g]) /\ delivered[g][k] = told'[g][0 + k]
    <3>1. 0 + k <= Len(told[g]) /\ delivered[g][k] = told[g][0 + k]
      BY DEF Flow, Continues
    <3>2. 0 + k \in Nat \ {0}
      BY <1>1
    <3>3. QED
      BY <1>3, <3>1, <3>2
  <2>2. QED
    BY <1>2, <2>1 DEF Continues
<1>5. CASE Alive(g)
  <2>1. PICK m \in {Overflow, u} : queue'[g].items = Append(queue[g].items, m)
    BY DEF Listen
  <2>2. /\ ContinuesToMarker(queue[g].items, told[g], Reached(g))
        /\ Whole(queue[g].items) => Len(told[g]) = Reached(g) + Len(queue[g].items)
        /\ Held(g) = 1 => Reached(g) <= Len(told[g]) /\ worker[g].update = told[g][Reached(g)]
    BY <1>5 DEF Flow
  <2>3. /\ ContinuesToMarker(queue'[g].items, told'[g], Reached(g))
        /\ Whole(queue'[g].items) => Len(told'[g]) = Reached(g) + Len(queue'[g].items)
    <3>1. m \in Nat
      BY DEF Overflow
    <3> DEFINE items == queue[g].items
    <3>2. /\ ContinuesToMarker(Append(items, m), Append(told[g], u), Reached(g))
          /\ Whole(Append(items, m)) => Len(Append(told[g], u)) = Reached(g) + Len(Append(items, m))
      <4>1. items \in Seq(Nat) /\ told[g] \in Seq(Nat) /\ Reached(g) \in Nat
        BY <1>1
      <4>2. /\ ContinuesToMarker(items, told[g], Reached(g))
            /\ Whole(items) => Len(told[g]) = Reached(g) + Len(items)
        BY <2>2
      <4> HIDE DEF items
      <4>3. QED
        BY <3>1, <4>1, <4>2, QueueGrows, Zenon
    <3>3. QED
      BY <2>1, <3>2
  <2>4. Held(g) = 1 => Reached(g) <= Len(told'[g]) /\ worker[g].update = told'[g][Reached(g)]
    <3>1. Held(g) = 1 => Reached(g) \in Nat \ {0}
      BY <1>1 DEF Reached
    <3>2. QED
      BY <1>3, <2>2, <3>1
  <2>5. QED
    BY <1>2, <1>4, <2>3, <2>4 DEF Flow
<1>6. CASE ~Alive(g)
  BY <1>2, <1>4, <1>6 DEF Flow
<1>7. QED
  BY <1>5, <1>6

(* Every step keeps what is delivered, held, queued and buffered in one unbroken sequence. *)
LEMMA FlowStep ==
  ASSUME TypeOK, StageInv, FlowInv, [Next]_vars
  PROVE  FlowInv'
<1>0. Steps
  BY StepKinds
<1> USE DEF state, provider, workers, CloseFeed
<1>1. CASE Emits
  <2>1. PICK inline \in SUBSET Overtakable : EmitUpdate(inline)
    BY <1>1 DEF Emits
  <2>2. emitted' \in Nat
    BY <2>1 DEF EmitUpdate, TypeOK
  <2>3. ASSUME NEW g \in Calls
        PROVE  Flow(g)'
    <3>1. Flow(g) /\ UNCHANGED <<delivered, worker>>
      BY <2>1 DEF EmitUpdate, FlowInv
    <3>2. CASE g \in inline
      <4>1. queue'[g] = Listen(queue[g], emitted') /\ told'[g] = Append(told[g], emitted')
        BY <2>1, <3>2 DEF EmitUpdate
      <4>2. QED
        BY <2>2, <3>1, <4>1, Told
    <3>3. CASE g \notin inline
      <4>1. queue'[g] = queue[g] /\ told'[g] = told[g]
        BY <2>1, <3>3 DEF EmitUpdate
      <4>2. QED
        BY <3>1, <4>1, FlowKept
    <3>4. QED
      BY <3>2, <3>3
  <2>4. QED
    BY <2>3 DEF FlowInv
<1>2. CASE TakeDeliveryError
  BY <1>2, FlowKept DEF TakeDeliveryError, FlowInv, TypeOK
<1>3. CASE AdmitUnsubscribe
  BY <1>3, FlowKept DEF AdmitUnsubscribe, FlowInv, TypeOK
<1>4. CASE BeginDispose
  BY <1>4, FlowKept DEF BeginDispose, FlowInv, TypeOK
<1>5. CASE CheckIdle
  BY <1>5, FlowKept DEF CheckIdle, FlowInv, TypeOK
<1>6. CASE AwaitNotify
  BY <1>6, FlowKept DEF AwaitNotify, FlowInv, TypeOK
<1>7. CASE TakeSubscriptions
  BY <1>7, FlowKept DEF TakeSubscriptions, FlowInv, TypeOK
<1>8. CASE DisposeClose
  BY <1>8, FlowKept DEF DisposeClose, FlowInv, TypeOK
<1>9. ASSUME NEW g \in Calls, AdmitSubscribe(g) PROVE FlowInv'
  BY <1>9, FlowKept DEF AdmitSubscribe, FlowInv, TypeOK
<1>10. ASSUME NEW g \in Calls, ProviderSubscribe(g) PROVE FlowInv'
  BY <1>10, FlowKept DEF ProviderSubscribe, FlowInv, TypeOK
<1>11. ASSUME NEW g \in Calls, ProviderRefuse(g) PROVE FlowInv'
  BY <1>11, FlowKept DEF ProviderRefuse, FlowInv, TypeOK
<1>12. ASSUME NEW g \in Calls, Registers(g) PROVE FlowInv'
  BY <1>12, FlowKept DEF Registers, FlowInv, TypeOK
<1>13. ASSUME NEW g \in Calls, IsRefused(g) PROVE FlowInv'
  BY <1>13, FlowKept DEF IsRefused, FlowInv, TypeOK
<1>14. ASSUME NEW g \in Calls, RejectClose(g) PROVE FlowInv'
  BY <1>14, FlowKept DEF RejectClose, FlowInv, TypeOK
<1>15. ASSUME NEW g \in Calls, DrainSubscriber(g) PROVE FlowInv'
  <2> SUFFICES ASSUME NEW h \in Calls
               PROVE  Flow(h)'
    BY DEF FlowInv
  <2>0. Flow(h) /\ UNCHANGED <<delivered, worker>>
    BY <1>15 DEF DrainSubscriber, FlowInv
  <2>1. CASE h # g
    BY <1>15, <2>0, <2>1, FlowKept DEF DrainSubscriber, TypeOK
  <2>2. CASE h = g
    <3>1. Head(buffer[g]) \in Nat
      BY <1>15, TailType DEF DrainSubscriber, TypeOK
    <3>2. /\ queue'[g] = Listen(queue[g], Head(buffer[g]))
          /\ told'[g] = Append(told[g], Head(buffer[g]))
      BY <1>15 DEF DrainSubscriber, TypeOK
    <3>3. QED
      BY <2>0, <2>2, <3>1, <3>2, Told
  <2>3. QED
    BY <2>1, <2>2
<1>16. ASSUME NEW g \in Calls, Activate(g) PROVE FlowInv'
  BY <1>16, FlowKept DEF Activate, FlowInv, TypeOK
<1>17. ASSUME NEW g \in Calls, SpawnUpdateWorker(g) PROVE FlowInv'
  <2> SUFFICES ASSUME NEW h \in Calls
               PROVE  Flow(h)'
    BY DEF FlowInv
  <2>0. Flow(h)
    BY DEF FlowInv
  <2>1. CASE h # g
    BY <1>17, <2>0, <2>1, FlowKept DEF SpawnUpdateWorker, TypeOK
  <2>2. CASE h = g
    <3>1. worker[g].at = "none" /\ worker'[g].at = "receive"
      BY <1>17 DEF SpawnUpdateWorker, StageInv, TypeOK, Worker
    <3>2. UNCHANGED <<delivered, told, queue>>
      BY <1>17 DEF SpawnUpdateWorker, provider
    <3>3. Held(g)' = Held(g) /\ Reached(g)' = Reached(g) /\ Alive(g) /\ Alive(g)'
      BY <3>1, <3>2 DEF Held, Reached, Alive
    <3>4. QED
      BY <2>0, <2>2, <3>1, <3>2, <3>3 DEF Flow, Held
  <2>3. QED
    BY <2>1, <2>2
<1>18. ASSUME NEW g \in Calls, FinishesSubscribe(g) PROVE FlowInv'
  BY <1>18, FlowKept DEF FinishesSubscribe, FlowInv, TypeOK
<1>19. ASSUME NEW g \in Calls, UnsubscribeClose(g) PROVE FlowInv'
  BY <1>19, FlowKept DEF UnsubscribeClose, FlowInv, TypeOK
<1>20. ASSUME NEW g \in Calls, FinishesUnsubscribe(g) PROVE FlowInv'
  BY <1>20, FlowKept DEF FinishesUnsubscribe, FlowInv, TypeOK
<1>21. ASSUME NEW g \in Calls, Dequeues(g) PROVE FlowInv'
  <2> SUFFICES ASSUME NEW h \in Calls
               PROVE  Flow(h)'
    BY DEF FlowInv
  <2>0. Flow(h)
    BY DEF FlowInv
  <2>1. CASE h # g
    BY <1>21, <2>0, <2>1, FlowKept DEF Dequeues, TypeOK
  <2>2. CASE h = g
    <3> DEFINE items == queue[g].items
    <3>1. items \in Seq(Nat) /\ items # <<>> /\ Head(items) # Overflow
      BY <1>21, PartTypes DEF Dequeues
    <3>2. /\ worker'[g].at = "check" /\ worker'[g].update = Head(items) /\ worker[g].at = "receive"
          /\ queue'[g].items = Tail(items)
          /\ UNCHANGED <<delivered, told>>
      BY <1>21, <3>1 DEF Dequeues, TypeOK
    <3>3. Held(g) = 0 /\ Held(g)' = 1 /\ Alive(g)
      BY <3>2 DEF Held, Alive
    <3>4. Reached(g) \in Nat /\ Reached(g)' = Reached(g) + 1
      BY <3>2, <3>3, PartTypes DEF Reached
    <3>5. ContinuesToMarker(items, told[g], Reached(g))
      BY <2>0, <2>2, <3>3 DEF Flow
    <3>6. /\ Reached(g) + 1 <= Len(told[g]) /\ Head(items) = told[g][Reached(g) + 1]
          /\ ContinuesToMarker(Tail(items), told[g], Reached(g) + 1)
          /\ Whole(Tail(items)) => Whole(items)
          /\ Len(items) \in Nat /\ Len(Tail(items)) + 1 = Len(items) /\ Len(Tail(items)) \in Nat
      BY <3>1, <3>4, <3>5, PartTypes, QueueShrinks
    <3>7. Reached(g)' + Len(Tail(items)) = Reached(g) + Len(items)
      BY <3>4, <3>6
    <3>8. Whole(queue'[g].items) => Len(told'[g]) = Reached(g)' + Len(queue'[g].items)
      BY <2>0, <2>2, <3>2, <3>3, <3>6, <3>7 DEF Flow
    <3> HIDE DEF items
    <3>9. QED
      BY <2>0, <2>2, <3>2, <3>4, <3>6, <3>8 DEF Flow
  <2>3. QED
    BY <2>1, <2>2
<1>22. ASSUME NEW g \in Calls, Confirms(g) PROVE FlowInv'
  <2> SUFFICES ASSUME NEW h \in Calls
               PROVE  Flow(h)'
    BY DEF FlowInv
  <2>0. Flow(h)
    BY DEF FlowInv
  <2>1. CASE h # g
    BY <1>22, <2>0, <2>1, FlowKept DEF Confirms, TypeOK
  <2>2. CASE h = g
    <3>1. worker[g].at = "check" /\ worker'[g].at = "admit" /\ worker'[g].update = worker[g].update
      BY <1>22 DEF Confirms, TypeOK, Worker
    <3>2. UNCHANGED <<delivered, told, queue>>
      BY <1>22 DEF Confirms
    <3>3. Held(g)' = Held(g) /\ Reached(g)' = Reached(g) /\ Alive(g) /\ Alive(g)'
      BY <3>1, <3>2 DEF Held, Reached, Alive
    <3>4. QED
      BY <2>0, <2>2, <3>1, <3>2, <3>3 DEF Flow, Held
  <2>3. QED
    BY <2>1, <2>2
<1>23. ASSUME NEW g \in Calls, NEW counted \in BOOLEAN, Evicts(g, counted) PROVE FlowInv'
  <2> SUFFICES ASSUME NEW h \in Calls
               PROVE  Flow(h)'
    BY DEF FlowInv
  <2>0. Flow(h)
    BY DEF FlowInv
  <2>1. CASE h # g
    BY <1>23, <2>0, <2>1, FlowKept DEF Evicts, TypeOK
  <2>2. CASE h = g
    <3>1. worker'[g].at = "closing" /\ UNCHANGED <<delivered, told>>
      BY <1>23 DEF Evicts, Ends, NoWorker, TypeOK
    <3>2. QED
      BY <2>0, <2>2, <3>1 DEF Flow, Alive
  <2>3. QED
    BY <2>1, <2>2
<1>24. ASSUME NEW g \in Calls, GivesUp(g) PROVE FlowInv'
  <2> SUFFICES ASSUME NEW h \in Calls
               PROVE  Flow(h)'
    BY DEF FlowInv
  <2>0. Flow(h)
    BY DEF FlowInv
  <2>1. CASE h # g
    BY <1>24, <2>0, <2>1, FlowKept DEF GivesUp, TypeOK
  <2>2. CASE h = g
    <3>1. worker'[g].at = "stopped" /\ UNCHANGED <<delivered, told>>
      BY <1>24 DEF GivesUp, Ends, NoWorker, TypeOK
    <3>2. QED
      BY <2>0, <2>2, <3>1 DEF Flow, Alive
  <2>3. QED
    BY <2>1, <2>2
<1>25. ASSUME NEW g \in Calls, Hands(g) PROVE FlowInv'
  <2> SUFFICES ASSUME NEW h \in Calls
               PROVE  Flow(h)'
    BY DEF FlowInv
  <2>0. Flow(h)
    BY DEF FlowInv
  <2>1. CASE h # g
    BY <1>25, <2>0, <2>1, FlowKept DEF Hands, TypeOK
  <2>2. CASE h = g
    <3>1. /\ worker[g].at = "admit" /\ worker'[g].at = "publishing"
          /\ delivered'[g] = Append(delivered[g], worker[g].update)
          /\ UNCHANGED <<told, queue>>
      BY <1>25 DEF Hands, TypeOK, Worker
    <3>2. Held(g) = 1 /\ Held(g)' = 0 /\ Alive(g)
      BY <3>1 DEF Held, Alive
    <3>3. /\ delivered[g] \in Seq(Nat) /\ Len(delivered[g]) \in Nat
          /\ worker[g].update \in Nat /\ told[g] \in Seq(Nat)
      BY PartTypes DEF TypeOK, Worker
    <3>4. Reached(g) = Len(delivered[g]) + 1
      BY <3>2, <3>3 DEF Reached
    <3>5. Reached(g) <= Len(told[g]) /\ worker[g].update = told[g][Reached(g)]
      BY <2>0, <2>2, <3>2 DEF Flow
    <3>6. Continues(delivered'[g], told'[g], 0) /\ Len(delivered'[g]) = Len(delivered[g]) + 1
      BY <2>0, <2>2, <3>1, <3>3, <3>4, <3>5, ContinuesAppend DEF Flow
    <3>7. Reached(g)' = Reached(g)
      BY <3>2, <3>3, <3>4, <3>6 DEF Reached
    <3>8. QED
      BY <2>0, <2>2, <3>1, <3>2, <3>6, <3>7 DEF Flow
  <2>3. QED
    BY <2>1, <2>2
<1>26. ASSUME NEW g \in Calls, Published(g) PROVE FlowInv'
  <2> SUFFICES ASSUME NEW h \in Calls
               PROVE  Flow(h)'
    BY DEF FlowInv
  <2>0. Flow(h)
    BY DEF FlowInv
  <2>1. CASE h # g
    BY <1>26, <2>0, <2>1, FlowKept DEF Published, TypeOK
  <2>2. CASE h = g
    <3>1. worker[g].at = "publishing" /\ worker'[g].at = "receive"
      BY <1>26 DEF Published, NoWorker, TypeOK
    <3>2. UNCHANGED <<delivered, told, queue>>
      BY <1>26 DEF Published
    <3>3. Held(g)' = Held(g) /\ Reached(g)' = Reached(g) /\ Alive(g) /\ Alive(g)'
      BY <3>1, <3>2 DEF Held, Reached, Alive
    <3>4. QED
      BY <2>0, <2>2, <3>1, <3>2, <3>3 DEF Flow, Held
  <2>3. QED
    BY <2>1, <2>2
<1>27. ASSUME NEW g \in Calls, Closes(g) PROVE FlowInv'
  <2> SUFFICES ASSUME NEW h \in Calls
               PROVE  Flow(h)'
    BY DEF FlowInv
  <2>0. Flow(h)
    BY DEF FlowInv
  <2>1. CASE h # g
    BY <1>27, <2>0, <2>1, FlowKept DEF Closes, TypeOK
  <2>2. CASE h = g
    <3>1. worker'[g].at = "stopped" /\ UNCHANGED <<delivered, told>>
      BY <1>27 DEF Closes, Ends, NoWorker, TypeOK
    <3>2. QED
      BY <2>0, <2>2, <3>1 DEF Flow, Alive
  <2>3. QED
    BY <2>1, <2>2
<1>28. ASSUME NEW g \in Calls, Activated(g) PROVE FlowInv'
  BY <1>28, FlowKept DEF Activated, FlowInv, TypeOK
<1>29. CASE UNCHANGED vars
  BY <1>29, FlowKept DEF vars, FlowInv, TypeOK
<1>30. QED
  BY <1>0, <1>1, <1>2, <1>3, <1>4, <1>5, <1>6, <1>7, <1>8, <1>9, <1>10, <1>11, <1>12, <1>13, <1>14,
     <1>15, <1>16, <1>17, <1>18, <1>19, <1>20, <1>21, <1>22, <1>23, <1>24, <1>25, <1>26, <1>27,
     <1>28, <1>29, Zenon DEF Steps

(* The operations under way are finitely many, and each begins and ends once. *)
LEMMA SetsFinite ==
  /\ IsFiniteSet(Busy) /\ IsFiniteSet(Removing) /\ IsFiniteSet(Counted)
  /\ Cardinality(Busy) \in Nat /\ Cardinality(Removing) \in Nat /\ Cardinality(Counted) \in Nat
<1>1. IsFiniteSet(Busy) /\ IsFiniteSet(Removing) /\ IsFiniteSet(Counted)
  <2>1. Busy \subseteq Calls /\ Removing \subseteq Calls /\ Counted \subseteq Calls
    BY DEF Busy, Removing, Counted
  <2>2. QED
    BY <2>1, CallsType, FS_Subset
<1>2. QED
  BY <1>1, FS_CardinalityType

LEMMA OneMore ==
  ASSUME NEW S, IsFiniteSet(S), NEW x, x \notin S
  PROVE  Cardinality(S \union {x}) = Cardinality(S) + 1
BY FS_AddElement

LEMMA OneLess ==
  ASSUME NEW S, IsFiniteSet(S), NEW x \in S
  PROVE  Cardinality(S \ {x}) = Cardinality(S) - 1
BY FS_RemoveElement

(* Every step keeps the counter equal to the operations under way. *)
LEMMA CountStep ==
  ASSUME TypeOK, StageInv, CurrentInv, CountInv, [Next]_vars
  PROVE  CountInv'
<1>0. Steps
  BY StepKinds
<1> USE CallsType DEF state, provider, workers, CloseFeed
<1>1. CASE Emits
  <2>1. Busy' = Busy /\ Removing' = Removing /\ Counted' = Counted /\ operations' = operations
    BY <1>1 DEF Emits, EmitUpdate, Busy, Removing, Counted
  <2>2. \A h \in Calls : worker'[h].at = worker[h].at /\ worker'[h].counted = worker[h].counted
    BY <1>1 DEF Emits, EmitUpdate
  <2>3. QED
    BY <2>1, <2>2 DEF CountInv
<1>2. CASE TakeDeliveryError
  <2>1. Busy' = Busy /\ Removing' = Removing /\ Counted' = Counted /\ operations' = operations
    BY <1>2 DEF TakeDeliveryError, Busy, Removing, Counted
  <2>2. \A h \in Calls : worker'[h].at = worker[h].at /\ worker'[h].counted = worker[h].counted
    BY <1>2 DEF TakeDeliveryError
  <2>3. QED
    BY <2>1, <2>2 DEF CountInv
<1>3. CASE AdmitUnsubscribe
  <2>1. Removing' = Removing \union {current} /\ current \notin Removing /\ Busy' = Busy /\ Counted' = Counted
    BY <1>3 DEF AdmitUnsubscribe, TypeOK, Busy, Removing, Counted, CurrentInv, None
  <2>2. \A h \in Calls : worker'[h].at = worker[h].at /\ worker'[h].counted = worker[h].counted
    BY <1>3 DEF AdmitUnsubscribe, CurrentInv, None
  <2>3. operations' = operations + 1
    BY <1>3 DEF AdmitUnsubscribe, Reserve
  <2>4. Cardinality(Removing') = Cardinality(Removing) + 1
    BY <2>1, SetsFinite, OneMore, OneLess
  <2>5. operations' = Cardinality(Busy') + Cardinality(Removing') + Cardinality(Counted')
    BY <2>1, <2>3, <2>4, SetsFinite DEF CountInv
  <2>6. QED
    BY <2>2, <2>5 DEF CountInv
<1>4. CASE BeginDispose
  <2>1. Busy' = Busy /\ Removing' = Removing /\ Counted' = Counted /\ operations' = operations
    BY <1>4 DEF BeginDispose, Busy, Removing, Counted
  <2>2. \A h \in Calls : worker'[h].at = worker[h].at /\ worker'[h].counted = worker[h].counted
    BY <1>4 DEF BeginDispose
  <2>3. QED
    BY <2>1, <2>2 DEF CountInv
<1>5. CASE CheckIdle
  <2>1. Busy' = Busy /\ Removing' = Removing /\ Counted' = Counted /\ operations' = operations
    BY <1>5 DEF CheckIdle, Busy, Removing, Counted
  <2>2. \A h \in Calls : worker'[h].at = worker[h].at /\ worker'[h].counted = worker[h].counted
    BY <1>5 DEF CheckIdle
  <2>3. QED
    BY <2>1, <2>2 DEF CountInv
<1>6. CASE AwaitNotify
  <2>1. Busy' = Busy /\ Removing' = Removing /\ Counted' = Counted /\ operations' = operations
    BY <1>6 DEF AwaitNotify, Busy, Removing, Counted
  <2>2. \A h \in Calls : worker'[h].at = worker[h].at /\ worker'[h].counted = worker[h].counted
    BY <1>6 DEF AwaitNotify
  <2>3. QED
    BY <2>1, <2>2 DEF CountInv
<1>7. CASE TakeSubscriptions
  <2>1. Busy' = Busy /\ Removing' = Removing /\ Counted' = Counted /\ operations' = operations
    BY <1>7 DEF TakeSubscriptions, Busy, Removing, Counted
  <2>2. \A h \in Calls : worker'[h].at = worker[h].at /\ worker'[h].counted = worker[h].counted
    BY <1>7 DEF TakeSubscriptions
  <2>3. QED
    BY <2>1, <2>2 DEF CountInv
<1>8. CASE DisposeClose
  <2>1. Busy' = Busy /\ Removing' = Removing /\ Counted' = Counted /\ operations' = operations
    BY <1>8 DEF DisposeClose, Busy, Removing, Counted
  <2>2. \A h \in Calls : worker'[h].at = worker[h].at /\ worker'[h].counted = worker[h].counted
    BY <1>8 DEF DisposeClose
  <2>3. QED
    BY <2>1, <2>2 DEF CountInv
<1>9. ASSUME NEW g \in Calls, AdmitSubscribe(g) PROVE CountInv'
  <2>1. Busy' = Busy \union {g} /\ g \notin Busy /\ Removing' = Removing /\ Counted' = Counted
    BY <1>9 DEF AdmitSubscribe, TypeOK, Busy, Removing, Counted
  <2>2. \A h \in Calls : worker'[h].at = worker[h].at /\ worker'[h].counted = worker[h].counted
    BY <1>9 DEF AdmitSubscribe
  <2>3. operations' = operations + 1
    BY <1>9 DEF AdmitSubscribe, Reserve
  <2>4. Cardinality(Busy') = Cardinality(Busy) + 1
    BY <2>1, SetsFinite, OneMore, OneLess
  <2>5. operations' = Cardinality(Busy') + Cardinality(Removing') + Cardinality(Counted')
    BY <2>1, <2>3, <2>4, SetsFinite DEF CountInv
  <2>6. QED
    BY <2>2, <2>5 DEF CountInv
<1>10. ASSUME NEW g \in Calls, ProviderSubscribe(g) PROVE CountInv'
  <2>1. Busy' = Busy /\ Removing' = Removing /\ Counted' = Counted /\ operations' = operations
    BY <1>10 DEF ProviderSubscribe, Busy, Removing, Counted
  <2>2. \A h \in Calls : worker'[h].at = worker[h].at /\ worker'[h].counted = worker[h].counted
    BY <1>10 DEF ProviderSubscribe
  <2>3. QED
    BY <2>1, <2>2 DEF CountInv
<1>11. ASSUME NEW g \in Calls, ProviderRefuse(g) PROVE CountInv'
  <2>1. Busy' = Busy /\ Removing' = Removing /\ Counted' = Counted /\ operations' = operations
    BY <1>11 DEF ProviderRefuse, Busy, Removing, Counted
  <2>2. \A h \in Calls : worker'[h].at = worker[h].at /\ worker'[h].counted = worker[h].counted
    BY <1>11 DEF ProviderRefuse
  <2>3. QED
    BY <2>1, <2>2 DEF CountInv
<1>12. ASSUME NEW g \in Calls, Registers(g) PROVE CountInv'
  <2>1. Busy' = Busy /\ Removing' = Removing /\ Counted' = Counted /\ operations' = operations
    BY <1>12 DEF Registers, Busy, Removing, Counted
  <2>2. \A h \in Calls : worker'[h].at = worker[h].at /\ worker'[h].counted = worker[h].counted
    BY <1>12 DEF Registers
  <2>3. QED
    BY <2>1, <2>2 DEF CountInv
<1>13. ASSUME NEW g \in Calls, IsRefused(g) PROVE CountInv'
  <2>1. Busy' = Busy /\ Removing' = Removing /\ Counted' = Counted /\ operations' = operations
    BY <1>13 DEF IsRefused, Busy, Removing, Counted
  <2>2. \A h \in Calls : worker'[h].at = worker[h].at /\ worker'[h].counted = worker[h].counted
    BY <1>13 DEF IsRefused
  <2>3. QED
    BY <2>1, <2>2 DEF CountInv
<1>14. ASSUME NEW g \in Calls, RejectClose(g) PROVE CountInv'
  <2>1. Busy' = Busy /\ Removing' = Removing /\ Counted' = Counted /\ operations' = operations
    BY <1>14 DEF RejectClose, Busy, Removing, Counted
  <2>2. \A h \in Calls : worker'[h].at = worker[h].at /\ worker'[h].counted = worker[h].counted
    BY <1>14 DEF RejectClose
  <2>3. QED
    BY <2>1, <2>2 DEF CountInv
<1>15. ASSUME NEW g \in Calls, DrainSubscriber(g) PROVE CountInv'
  <2>1. Busy' = Busy /\ Removing' = Removing /\ Counted' = Counted /\ operations' = operations
    BY <1>15 DEF DrainSubscriber, Busy, Removing, Counted
  <2>2. \A h \in Calls : worker'[h].at = worker[h].at /\ worker'[h].counted = worker[h].counted
    BY <1>15 DEF DrainSubscriber
  <2>3. QED
    BY <2>1, <2>2 DEF CountInv
<1>16. ASSUME NEW g \in Calls, Activate(g) PROVE CountInv'
  <2>1. Busy' = Busy /\ Removing' = Removing /\ Counted' = Counted /\ operations' = operations
    BY <1>16 DEF Activate, Busy, Removing, Counted
  <2>2. \A h \in Calls : worker'[h].at = worker[h].at /\ worker'[h].counted = worker[h].counted
    BY <1>16 DEF Activate
  <2>3. QED
    BY <2>1, <2>2 DEF CountInv
<1>17. ASSUME NEW g \in Calls, SpawnUpdateWorker(g) PROVE CountInv'
  <2>1. worker[g].at = "none" /\ worker'[g].at = "receive" /\ worker'[g].counted = worker[g].counted
    BY <1>17 DEF SpawnUpdateWorker, StageInv, TypeOK, Worker
  <2>2. \A h \in Calls \ {g} : worker'[h] = worker[h]
    BY <1>17 DEF SpawnUpdateWorker, TypeOK
  <2>3. Busy' = Busy /\ Removing' = Removing
    BY <1>17 DEF SpawnUpdateWorker, Busy, Removing
  <2>4. Counted' = Counted
    BY <1>17, <2>1, <2>2 DEF SpawnUpdateWorker, Counted, CountInv
  <2>5. operations' = operations
    BY <1>17 DEF SpawnUpdateWorker
  <2>6. QED
    BY <2>1, <2>2, <2>3, <2>4, <2>5 DEF CountInv
<1>18. ASSUME NEW g \in Calls, FinishesSubscribe(g) PROVE CountInv'
  <2>1. Busy' = Busy \ {g} /\ g \in Busy /\ Removing' = Removing /\ Counted' = Counted
    BY <1>18 DEF FinishesSubscribe, TypeOK, Busy, Removing, Counted
  <2>2. \A h \in Calls : worker'[h].at = worker[h].at /\ worker'[h].counted = worker[h].counted
    BY <1>18 DEF FinishesSubscribe
  <2>3. operations' = operations - 1
    BY <1>18 DEF FinishesSubscribe, Reserve
  <2>4. Cardinality(Busy') = Cardinality(Busy) - 1
    BY <2>1, SetsFinite, OneMore, OneLess
  <2>5. operations' = Cardinality(Busy') + Cardinality(Removing') + Cardinality(Counted')
    BY <2>1, <2>3, <2>4, SetsFinite DEF CountInv
  <2>6. QED
    BY <2>2, <2>5 DEF CountInv
<1>19. ASSUME NEW g \in Calls, UnsubscribeClose(g) PROVE CountInv'
  <2>1. Busy' = Busy /\ Removing' = Removing /\ Counted' = Counted /\ operations' = operations
    BY <1>19 DEF UnsubscribeClose, Busy, Removing, Counted
  <2>2. \A h \in Calls : worker'[h].at = worker[h].at /\ worker'[h].counted = worker[h].counted
    BY <1>19 DEF UnsubscribeClose
  <2>3. QED
    BY <2>1, <2>2 DEF CountInv
<1>20. ASSUME NEW g \in Calls, FinishesUnsubscribe(g) PROVE CountInv'
  <2>1. Removing' = Removing \ {g} /\ g \in Removing /\ Busy' = Busy /\ Counted' = Counted
    BY <1>20 DEF FinishesUnsubscribe, TypeOK, Busy, Removing, Counted
  <2>2. \A h \in Calls : worker'[h].at = worker[h].at /\ worker'[h].counted = worker[h].counted
    BY <1>20 DEF FinishesUnsubscribe
  <2>3. operations' = operations - 1
    BY <1>20 DEF FinishesUnsubscribe, Reserve
  <2>4. Cardinality(Removing') = Cardinality(Removing) - 1
    BY <2>1, SetsFinite, OneMore, OneLess
  <2>5. operations' = Cardinality(Busy') + Cardinality(Removing') + Cardinality(Counted')
    BY <2>1, <2>3, <2>4, SetsFinite DEF CountInv
  <2>6. QED
    BY <2>2, <2>5 DEF CountInv
<1>21. ASSUME NEW g \in Calls, Dequeues(g) PROVE CountInv'
  <2>1. worker[g].at = "receive" /\ worker'[g].at = "check" /\ worker'[g].counted = FALSE
    BY <1>21 DEF Dequeues, TypeOK, Worker, NoWorker, Ends
  <2>2. \A h \in Calls \ {g} : worker'[h] = worker[h]
    BY <1>21 DEF Dequeues, TypeOK
  <2>3. Busy' = Busy /\ Removing' = Removing
    BY <1>21 DEF Dequeues, Busy, Removing
  <2>4. Counted' = Counted
    BY <1>21, <2>1, <2>2 DEF Dequeues, Counted, CountInv
  <2>5. operations' = operations
    BY <1>21 DEF Dequeues
  <2>6. QED
    BY <2>1, <2>2, <2>3, <2>4, <2>5 DEF CountInv
<1>22. ASSUME NEW g \in Calls, Confirms(g) PROVE CountInv'
  <2>1. worker[g].at = "check" /\ worker'[g].at = "admit" /\ worker'[g].counted = worker[g].counted
    BY <1>22 DEF Confirms, TypeOK, Worker, NoWorker, Ends
  <2>2. \A h \in Calls \ {g} : worker'[h] = worker[h]
    BY <1>22 DEF Confirms, TypeOK
  <2>3. Busy' = Busy /\ Removing' = Removing
    BY <1>22 DEF Confirms, Busy, Removing
  <2>4. Counted' = Counted
    BY <1>22, <2>1, <2>2 DEF Confirms, Counted, CountInv
  <2>5. operations' = operations
    BY <1>22 DEF Confirms
  <2>6. QED
    BY <2>1, <2>2, <2>3, <2>4, <2>5 DEF CountInv
<1>23. ASSUME NEW g \in Calls, NEW counted \in BOOLEAN, Evicts(g, counted) PROVE CountInv'
  <2>1. worker'[g].at = "closing" /\ worker'[g].counted = counted
    BY <1>23 DEF Evicts, TypeOK, Worker, NoWorker, Ends
  <2>2. \A h \in Calls \ {g} : worker'[h] = worker[h]
    BY <1>23 DEF Evicts, TypeOK
  <2>3. Busy' = Busy /\ Removing' = Removing
    BY <1>23 DEF Evicts, Busy, Removing
  <2>4. Counted' = Counted
    BY <1>23, <2>1, <2>2 DEF Evicts, Counted, CountInv
  <2>5. operations' = operations
    BY <1>23 DEF Evicts
  <2>6. QED
    BY <2>1, <2>2, <2>3, <2>4, <2>5 DEF CountInv
<1>24. ASSUME NEW g \in Calls, GivesUp(g) PROVE CountInv'
  <2>1. worker'[g].at = "stopped" /\ worker'[g].counted = FALSE
    BY <1>24 DEF GivesUp, TypeOK, Worker, NoWorker, Ends
  <2>2. \A h \in Calls \ {g} : worker'[h] = worker[h]
    BY <1>24 DEF GivesUp, TypeOK
  <2>3. Busy' = Busy /\ Removing' = Removing
    BY <1>24 DEF GivesUp, Busy, Removing
  <2>4. Settles(worker[g].counted)
    <3>1. worker[g].at # "publishing" => ~worker[g].counted /\ operations' = operations
      BY <1>24 DEF GivesUp, CountInv
    <3>2. QED
      BY <1>24, <3>1 DEF GivesUp, Settles
  <2>5. CASE worker[g].counted
    <3>1. Counted' = Counted \ {g} /\ g \in Counted
      BY <2>1, <2>2, <2>5 DEF Counted
    <3>2. operations' = operations - 1
      BY <2>4, <2>5 DEF Settles
    <3>3. Cardinality(Counted') = Cardinality(Counted) - 1
      BY <3>1, SetsFinite, OneLess
    <3>4. operations' = Cardinality(Busy') + Cardinality(Removing') + Cardinality(Counted')
      BY <2>3, <3>2, <3>3, SetsFinite DEF CountInv
    <3>5. QED
      BY <2>1, <2>2, <3>4 DEF CountInv
  <2>6. CASE ~worker[g].counted
    <3>1. Counted' = Counted
      BY <2>1, <2>2, <2>6 DEF Counted
    <3>2. operations' = operations
      BY <2>4, <2>6 DEF Settles
    <3>3. QED
      BY <2>1, <2>2, <2>3, <3>1, <3>2 DEF CountInv
  <2>7. QED
    BY <2>5, <2>6
<1>25. ASSUME NEW g \in Calls, Hands(g) PROVE CountInv'
  <2>1. worker[g].at = "admit" /\ worker'[g].at = "publishing" /\ worker'[g].counted = TRUE
    BY <1>25 DEF Hands, TypeOK, Worker, NoWorker, Ends
  <2>2. \A h \in Calls \ {g} : worker'[h] = worker[h]
    BY <1>25 DEF Hands, TypeOK
  <2>3. Busy' = Busy /\ Removing' = Removing
    BY <1>25 DEF Hands, Busy, Removing
  <2>4. Counted' = Counted \union {g} /\ g \notin Counted
    BY <2>1, <2>2 DEF Counted, CountInv
  <2>5. operations' = operations + 1
    BY <1>25 DEF Hands
  <2>6. Cardinality(Counted') = Cardinality(Counted) + 1
    BY <2>4, SetsFinite, OneMore
  <2>7. operations' = Cardinality(Busy') + Cardinality(Removing') + Cardinality(Counted')
    BY <2>3, <2>5, <2>6, SetsFinite DEF CountInv
  <2>8. QED
    BY <2>1, <2>2, <2>7 DEF CountInv
<1>26. ASSUME NEW g \in Calls, Published(g) PROVE CountInv'
  <2>1. worker'[g].at = "receive" /\ worker'[g].counted = FALSE
    BY <1>26 DEF Published, TypeOK, Worker, NoWorker, Ends
  <2>2. \A h \in Calls \ {g} : worker'[h] = worker[h]
    BY <1>26 DEF Published, TypeOK
  <2>3. Busy' = Busy /\ Removing' = Removing
    BY <1>26 DEF Published, Busy, Removing
  <2>4. Settles(worker[g].counted)
    BY <1>26 DEF Published
  <2>5. CASE worker[g].counted
    <3>1. Counted' = Counted \ {g} /\ g \in Counted
      BY <2>1, <2>2, <2>5 DEF Counted
    <3>2. operations' = operations - 1
      BY <2>4, <2>5 DEF Settles
    <3>3. Cardinality(Counted') = Cardinality(Counted) - 1
      BY <3>1, SetsFinite, OneLess
    <3>4. operations' = Cardinality(Busy') + Cardinality(Removing') + Cardinality(Counted')
      BY <2>3, <3>2, <3>3, SetsFinite DEF CountInv
    <3>5. QED
      BY <2>1, <2>2, <3>4 DEF CountInv
  <2>6. CASE ~worker[g].counted
    <3>1. Counted' = Counted
      BY <2>1, <2>2, <2>6 DEF Counted
    <3>2. operations' = operations
      BY <2>4, <2>6 DEF Settles
    <3>3. QED
      BY <2>1, <2>2, <2>3, <3>1, <3>2 DEF CountInv
  <2>7. QED
    BY <2>5, <2>6
<1>27. ASSUME NEW g \in Calls, Closes(g) PROVE CountInv'
  <2>1. worker'[g].at = "stopped" /\ worker'[g].counted = FALSE
    BY <1>27 DEF Closes, TypeOK, Worker, NoWorker, Ends
  <2>2. \A h \in Calls \ {g} : worker'[h] = worker[h]
    BY <1>27 DEF Closes, TypeOK
  <2>3. Busy' = Busy /\ Removing' = Removing
    BY <1>27 DEF Closes, Busy, Removing
  <2>4. Settles(worker[g].counted)
    BY <1>27 DEF Closes
  <2>5. CASE worker[g].counted
    <3>1. Counted' = Counted \ {g} /\ g \in Counted
      BY <2>1, <2>2, <2>5 DEF Counted
    <3>2. operations' = operations - 1
      BY <2>4, <2>5 DEF Settles
    <3>3. Cardinality(Counted') = Cardinality(Counted) - 1
      BY <3>1, SetsFinite, OneLess
    <3>4. operations' = Cardinality(Busy') + Cardinality(Removing') + Cardinality(Counted')
      BY <2>3, <3>2, <3>3, SetsFinite DEF CountInv
    <3>5. QED
      BY <2>1, <2>2, <3>4 DEF CountInv
  <2>6. CASE ~worker[g].counted
    <3>1. Counted' = Counted
      BY <2>1, <2>2, <2>6 DEF Counted
    <3>2. operations' = operations
      BY <2>4, <2>6 DEF Settles
    <3>3. QED
      BY <2>1, <2>2, <2>3, <3>1, <3>2 DEF CountInv
  <2>7. QED
    BY <2>5, <2>6
<1>28. ASSUME NEW g \in Calls, Activated(g) PROVE CountInv'
  <2>1. Busy' = Busy /\ Removing' = Removing /\ Counted' = Counted /\ operations' = operations
    BY <1>28 DEF Activated, Busy, Removing, Counted
  <2>2. \A h \in Calls : worker'[h].at = worker[h].at /\ worker'[h].counted = worker[h].counted
    BY <1>28 DEF Activated
  <2>3. QED
    BY <2>1, <2>2 DEF CountInv
<1>29. CASE UNCHANGED vars
  <2>1. Busy' = Busy /\ Removing' = Removing /\ Counted' = Counted /\ operations' = operations
    BY <1>29 DEF vars, Busy, Removing, Counted
  <2>2. \A h \in Calls : worker'[h].at = worker[h].at /\ worker'[h].counted = worker[h].counted
    BY <1>29 DEF vars
  <2>3. QED
    BY <2>1, <2>2 DEF CountInv
<1>30. QED
  BY <1>0, <1>1, <1>2, <1>3, <1>4, <1>5, <1>6, <1>7, <1>8, <1>9, <1>10, <1>11, <1>12, <1>13, <1>14,
     <1>15, <1>16, <1>17, <1>18, <1>19, <1>20, <1>21, <1>22, <1>23, <1>24, <1>25, <1>26, <1>27,
     <1>28, <1>29, Zenon DEF Steps

(* No operation under way: nothing is busy, removed or delivered. *)
LEMMA NothingUnderWay ==
  ASSUME CountInv, operations = 0
  PROVE  Busy = {} /\ Removing = {} /\ Counted = {}
<1>1. Cardinality(Busy) = 0 /\ Cardinality(Removing) = 0 /\ Cardinality(Counted) = 0
  BY SetsFinite DEF CountInv
<1>2. QED
  BY <1>1, SetsFinite, FS_EmptySet

(* Every step keeps the disposal's view of the operations true. *)
LEMMA DisposeStep ==
  ASSUME TypeOK, CountInv, DisposeInv, [Next]_vars
  PROVE  DisposeInv'
<1>0. Steps
  BY StepKinds
<1> USE DEF DisposeInv, None, state, provider, workers, CloseFeed
<1>1. CASE Emits
  BY <1>1 DEF Emits, EmitUpdate
<1>2. CASE TakeDeliveryError
  BY <1>2 DEF TakeDeliveryError
<1>3. CASE AdmitUnsubscribe
  BY <1>3 DEF AdmitUnsubscribe, Reserve
<1>4. CASE BeginDispose
  BY <1>4 DEF BeginDispose
<1>5. CASE CheckIdle
  BY <1>5 DEF CheckIdle
<1>6. CASE AwaitNotify
  BY <1>6 DEF AwaitNotify
<1>7. CASE TakeSubscriptions
  BY <1>7 DEF TakeSubscriptions
<1>8. CASE DisposeClose
  BY <1>8 DEF DisposeClose
<1>9. ASSUME NEW g \in Calls, AdmitSubscribe(g) PROVE DisposeInv'
  BY <1>9 DEF AdmitSubscribe, Reserve
<1>10. ASSUME NEW g \in Calls, ProviderSubscribe(g) PROVE DisposeInv'
  BY <1>10 DEF ProviderSubscribe
<1>11. ASSUME NEW g \in Calls, ProviderRefuse(g) PROVE DisposeInv'
  BY <1>11 DEF ProviderRefuse
<1>12. ASSUME NEW g \in Calls, Registers(g) PROVE DisposeInv'
  BY <1>12 DEF Registers
<1>13. ASSUME NEW g \in Calls, IsRefused(g) PROVE DisposeInv'
  BY <1>13 DEF IsRefused
<1>14. ASSUME NEW g \in Calls, RejectClose(g) PROVE DisposeInv'
  BY <1>14 DEF RejectClose
<1>15. ASSUME NEW g \in Calls, DrainSubscriber(g) PROVE DisposeInv'
  BY <1>15 DEF DrainSubscriber
<1>16. ASSUME NEW g \in Calls, Activate(g) PROVE DisposeInv'
  BY <1>16 DEF Activate
<1>17. ASSUME NEW g \in Calls, SpawnUpdateWorker(g) PROVE DisposeInv'
  BY <1>17 DEF SpawnUpdateWorker
<1>18. ASSUME NEW g \in Calls, FinishesSubscribe(g) PROVE DisposeInv'
  <2>1. g \in Busy
    BY <1>18 DEF FinishesSubscribe, Busy, Removing
  <2>2. dispose \notin {"take", "closing", "done"}
    BY <2>1, NothingUnderWay DEF DisposeInv
  <2>3. QED
    BY <1>18, <2>2 DEF FinishesSubscribe, DisposeInv
<1>19. ASSUME NEW g \in Calls, UnsubscribeClose(g) PROVE DisposeInv'
  BY <1>19 DEF UnsubscribeClose
<1>20. ASSUME NEW g \in Calls, FinishesUnsubscribe(g) PROVE DisposeInv'
  <2>1. g \in Removing
    BY <1>20 DEF FinishesUnsubscribe, Busy, Removing
  <2>2. dispose \notin {"take", "closing", "done"}
    BY <2>1, NothingUnderWay DEF DisposeInv
  <2>3. QED
    BY <1>20, <2>2 DEF FinishesUnsubscribe, DisposeInv
<1>21. ASSUME NEW g \in Calls, Dequeues(g) PROVE DisposeInv'
  BY <1>21 DEF Dequeues
<1>22. ASSUME NEW g \in Calls, Confirms(g) PROVE DisposeInv'
  BY <1>22 DEF Confirms
<1>23. ASSUME NEW g \in Calls, NEW counted \in BOOLEAN, Evicts(g, counted) PROVE DisposeInv'
  BY <1>23 DEF Evicts
<1>24. ASSUME NEW g \in Calls, GivesUp(g) PROVE DisposeInv'
  <2>1. worker[g].counted => g \in Counted
    BY DEF Counted
  <2>2. dispose \in {"take", "closing", "done"} => operations' = operations
    BY <1>24, <2>1, NothingUnderWay DEF GivesUp, Settles, DisposeInv
  <2>3. QED
    BY <1>24, <2>2 DEF GivesUp, DisposeInv
<1>25. ASSUME NEW g \in Calls, Hands(g) PROVE DisposeInv'
  BY <1>25 DEF Hands
<1>26. ASSUME NEW g \in Calls, Published(g) PROVE DisposeInv'
  <2>1. worker[g].counted => g \in Counted
    BY DEF Counted
  <2>2. dispose \in {"take", "closing", "done"} => operations' = operations
    BY <1>26, <2>1, NothingUnderWay DEF Published, Settles, DisposeInv
  <2>3. QED
    BY <1>26, <2>2 DEF Published, DisposeInv
<1>27. ASSUME NEW g \in Calls, Closes(g) PROVE DisposeInv'
  <2>1. worker[g].counted => g \in Counted
    BY DEF Counted
  <2>2. dispose \in {"take", "closing", "done"} => operations' = operations
    BY <1>27, <2>1, NothingUnderWay DEF Closes, Settles, DisposeInv
  <2>3. QED
    BY <1>27, <2>2 DEF Closes, DisposeInv
<1>28. ASSUME NEW g \in Calls, Activated(g) PROVE DisposeInv'
  BY <1>28 DEF Activated
<1>29. CASE UNCHANGED vars
  BY <1>29 DEF vars
<1> HIDE DEF DisposeInv
<1>30. QED
  BY <1>0, <1>1, <1>2, <1>3, <1>4, <1>5, <1>6, <1>7, <1>8, <1>9, <1>10, <1>11, <1>12, <1>13, <1>14,
     <1>15, <1>16, <1>17, <1>18, <1>19, <1>20, <1>21, <1>22, <1>23, <1>24, <1>25, <1>26, <1>27,
     <1>28, <1>29, Zenon DEF Steps

(* Every step leaves somebody responsible for each subscription that is fed. *)
LEMMA OwnedStep ==
  ASSUME TypeOK, StageInv, CurrentInv, CountInv, DisposeInv, OwnedInv, [Next]_vars
  PROVE  OwnedInv'
<1>0. Steps
  BY StepKinds
<1> USE DEF state, provider, workers, CloseFeed
<1>1. CASE Emits
  BY <1>1, CallsType DEF Emits, EmitUpdate, OwnedInv, TypeOK
<1>2. CASE TakeDeliveryError
  BY <1>2, CallsType DEF TakeDeliveryError, OwnedInv, TypeOK
<1>3. CASE AdmitUnsubscribe
  BY <1>3, CallsType DEF AdmitUnsubscribe, OwnedInv, TypeOK, None
<1>4. CASE BeginDispose
  BY <1>4, CallsType DEF BeginDispose, OwnedInv, TypeOK, DisposeInv
<1>5. CASE CheckIdle
  BY <1>5, CallsType DEF CheckIdle, OwnedInv, TypeOK
<1>6. CASE AwaitNotify
  BY <1>6, CallsType DEF AwaitNotify, OwnedInv, TypeOK
<1>7. CASE TakeSubscriptions
  BY <1>7, CallsType DEF TakeSubscriptions, OwnedInv, TypeOK, None
<1>8. CASE DisposeClose
  BY <1>8, CallsType DEF DisposeClose, OwnedInv, TypeOK
<1>9. ASSUME NEW g \in Calls, AdmitSubscribe(g) PROVE OwnedInv'
  BY <1>9, CallsType DEF AdmitSubscribe, OwnedInv, TypeOK
<1>10. ASSUME NEW g \in Calls, ProviderSubscribe(g) PROVE OwnedInv'
  BY <1>10, CallsType DEF ProviderSubscribe, OwnedInv, TypeOK
<1>11. ASSUME NEW g \in Calls, ProviderRefuse(g) PROVE OwnedInv'
  BY <1>11, CallsType DEF ProviderRefuse, OwnedInv, TypeOK, StageInv, Early
<1>12. ASSUME NEW g \in Calls, Registers(g) PROVE OwnedInv'
  BY <1>12, CallsType DEF Registers, OwnedInv, TypeOK, None
<1>13. ASSUME NEW g \in Calls, IsRefused(g) PROVE OwnedInv'
  BY <1>13, CallsType DEF IsRefused, OwnedInv, TypeOK
<1>14. ASSUME NEW g \in Calls, RejectClose(g) PROVE OwnedInv'
  BY <1>14, CallsType DEF RejectClose, OwnedInv, TypeOK
<1>15. ASSUME NEW g \in Calls, DrainSubscriber(g) PROVE OwnedInv'
  BY <1>15, CallsType DEF DrainSubscriber, OwnedInv, TypeOK
<1>16. ASSUME NEW g \in Calls, Activate(g) PROVE OwnedInv'
  BY <1>16, CallsType DEF Activate, OwnedInv, TypeOK
<1>17. ASSUME NEW g \in Calls, SpawnUpdateWorker(g) PROVE OwnedInv'
  BY <1>17, CallsType DEF SpawnUpdateWorker, OwnedInv, TypeOK, StageInv, Worker
<1>18. ASSUME NEW g \in Calls, FinishesSubscribe(g) PROVE OwnedInv'
  BY <1>18, CallsType DEF FinishesSubscribe, OwnedInv, TypeOK
<1>19. ASSUME NEW g \in Calls, UnsubscribeClose(g) PROVE OwnedInv'
  BY <1>19, CallsType DEF UnsubscribeClose, OwnedInv, TypeOK
<1>20. ASSUME NEW g \in Calls, FinishesUnsubscribe(g) PROVE OwnedInv'
  BY <1>20, CallsType DEF FinishesUnsubscribe, OwnedInv, TypeOK
<1>21. ASSUME NEW g \in Calls, Dequeues(g) PROVE OwnedInv'
  BY <1>21, CallsType DEF Dequeues, OwnedInv, TypeOK, Worker
<1>22. ASSUME NEW g \in Calls, Confirms(g) PROVE OwnedInv'
  BY <1>22, CallsType DEF Confirms, OwnedInv, TypeOK, Worker
<1>23. ASSUME NEW g \in Calls, NEW counted \in BOOLEAN, Evicts(g, counted) PROVE OwnedInv'
  BY <1>23, CallsType, ZenonT(60) DEF Evicts, OwnedInv, TypeOK, None
<1>24. ASSUME NEW g \in Calls, GivesUp(g) PROVE OwnedInv'
  BY <1>24, CallsType DEF GivesUp, OwnedInv, TypeOK
<1>25. ASSUME NEW g \in Calls, Hands(g) PROVE OwnedInv'
  BY <1>25, CallsType DEF Hands, OwnedInv, TypeOK, Worker
<1>26. ASSUME NEW g \in Calls, Published(g) PROVE OwnedInv'
  BY <1>26, CallsType DEF Published, OwnedInv, TypeOK, NoWorker
<1>27. ASSUME NEW g \in Calls, Closes(g) PROVE OwnedInv'
  BY <1>27, CallsType DEF Closes, OwnedInv, TypeOK
<1>28. ASSUME NEW g \in Calls, Activated(g) PROVE OwnedInv'
  BY <1>28, CallsType DEF Activated, OwnedInv, TypeOK
<1>29. CASE UNCHANGED vars
  BY <1>29, CallsType DEF vars, OwnedInv, TypeOK
<1>30. QED
  BY <1>0, <1>1, <1>2, <1>3, <1>4, <1>5, <1>6, <1>7, <1>8, <1>9, <1>10, <1>11, <1>12, <1>13, <1>14,
     <1>15, <1>16, <1>17, <1>18, <1>19, <1>20, <1>21, <1>22, <1>23, <1>24, <1>25, <1>26, <1>27,
     <1>28, <1>29, Zenon DEF Steps

-----------------------------------------------------------------------------
(* The theorems. *)

EndpointInv == TypeOK /\ StageInv /\ FlowInv /\ CurrentInv /\ CountInv /\ DisposeInv /\ OwnedInv

LEMMA EndpointInit == Init => EndpointInv
<1> SUFFICES ASSUME Init PROVE EndpointInv
  OBVIOUS
<1>1. TypeOK
  BY InitTypes
<1>2. StageInv /\ CurrentInv /\ DisposeInv /\ OwnedInv
  BY DEF Init, StageInv, CurrentInv, DisposeInv, OwnedInv, Early, Alive, NoWorker, None
<1>3. FlowInv
  <2> SUFFICES ASSUME NEW g \in Calls PROVE Flow(g)
    BY DEF FlowInv
  <2>1. delivered[g] = <<>> /\ queue[g].items = <<>> /\ worker[g].at = "none" /\ told[g] = <<>>
    BY DEF Init, NoWorker
  <2>2. Held(g) = 0 /\ Reached(g) = 0
    BY <2>1 DEF Held, Reached
  <2>3. QED
    BY <2>1, <2>2, NothingFollows DEF Flow
<1>4. CountInv
  <2>1. Busy = {} /\ Removing = {} /\ Counted = {}
    BY DEF Init, Busy, Removing, Counted, NoWorker
  <2>2. operations = 0 /\ \A g \in Calls : worker[g].at = "none" /\ ~worker[g].counted
    BY DEF Init, NoWorker
  <2>3. QED
    BY <2>1, <2>2, FS_EmptySet DEF CountInv
<1>5. QED
  BY <1>1, <1>2, <1>3, <1>4 DEF EndpointInv

LEMMA EndpointInvariant == Spec => []EndpointInv
<1>1. EndpointInv /\ [Next]_vars => EndpointInv'
  BY TypeStep, StageStep, FlowStep, CurrentStep, CountStep, DisposeStep, OwnedStep DEF EndpointInv
<1>2. QED
  BY <1>1, EndpointInit, PTL DEF Spec

(* Each worker hands over what its listener was told, from the first update on, without a gap, a  *)
(* repetition or a reordering, for any queue limit and any interleaving of updates, activation,   *)
(* worker and overflow.                                                                           *)
THEOREM GaplessDeliveryHolds == Spec => []GaplessDelivery
<1>1. EndpointInv => GaplessDelivery
  <2> SUFFICES ASSUME EndpointInv, NEW g \in Calls, NEW k \in 1..Len(delivered[g])
               PROVE  k <= Len(told[g]) /\ delivered[g][k] = told[g][k]
    BY DEF GaplessDelivery
  <2>1. 0 + k <= Len(told[g]) /\ delivered[g][k] = told[g][0 + k]
    BY DEF EndpointInv, FlowInv, Flow, Continues
  <2>2. QED
    BY <2>1
<1>2. QED
  BY <1>1, EndpointInvariant, PTL

(* No worker ends and leaves its subscription registered: the worker of the current subscription  *)
(* runs, or the endpoint is disposed.                                                             *)
THEOREM NeverSilentHolds == Spec => []NeverSilent
<1>1. EndpointInv => NeverSilent
  BY DEF EndpointInv, CurrentInv, Alive, NeverSilent
<1>2. QED
  BY <1>1, EndpointInvariant, PTL

(* When dispose has returned, no update is being handed over and each subscription is closed, was *)
(* registered over, or is being closed by an evicted worker.                                      *)
THEOREM DisposeLeavesNothingHolds == Spec => []DisposeLeavesNothing
<1>1. EndpointInv => DisposeLeavesNothing
  <2> SUFFICES ASSUME EndpointInv, dispose = "done", NEW g \in Calls
               PROVE  /\ worker[g].at # "publishing"
                      /\ \/ feed[g] \in {"none", "closed"}
                         \/ g \in displaced
                         \/ \E w \in Calls : worker[w].at = "closing" /\ token[w] = g
    BY DEF DisposeLeavesNothing
  <2>1. operations = 0 /\ current = None
    BY DEF EndpointInv, DisposeInv
  <2>2. Busy = {} /\ Removing = {} /\ Counted = {}
    BY <2>1, NothingUnderWay DEF EndpointInv
  <2>3. worker[g].at # "publishing"
    BY <2>2 DEF EndpointInv, CountInv, Counted
  <2>4. call[g] \notin {"subscribed", "rejected"} /\ removal[g] # "closing" /\ current # g
    BY <2>1, <2>2, CallsType DEF Busy, Removing, None
  <2>5. feed[g] \in FeedStates
    BY DEF EndpointInv, TypeOK
  <2>6. QED
    BY <2>3, <2>4, <2>5 DEF EndpointInv, OwnedInv, FeedStates
<1>2. QED
  BY <1>1, EndpointInvariant, PTL

=============================================================================
