-------------------------- MODULE ServiceEndpoint --------------------------
(***************************************************************************)
(* crates/pi-agent/src/service/endpoint.rs: RemoteServiceEndpoint, which   *)
(* serves subscribe, unsubscribe and dispose to one consumer, and the      *)
(* worker that publishes each subscription's updates to the transport.     *)
(*                                                                         *)
(* The calls here all use one subscription ID, since calls on different    *)
(* IDs share only the count of pending operations.  A subscription is named*)
(* by the number of the subscribe call that made it, which is also its     *)
(* token.  A step is a lock scope, or an await that may take its time.     *)
(*                                                                         *)
(* The provider (provider.rs) is here as its subscribers see it: an update *)
(* goes to every open subscriber's buffer, and whoever owns the subscriber *)
(* calls the listener.  Updates are numbered as the provider emits them;   *)
(* how they relate to the snapshot's sequence is ServiceReplication's part.*)
(***************************************************************************)
EXTENDS Naturals, Sequences

CONSTANTS
  MaxCalls,     \* bound: subscribe calls
  MaxUpdates,   \* bound: the provider's updates
  QueueLimit    \* UPDATE_QUEUE_LIMIT

ASSUME ServiceEndpointAssumption ==
  MaxCalls \in Nat /\ MaxUpdates \in Nat /\ QueueLimit \in Nat \ {0}

Calls == 1..MaxCalls
None == 0

VARIABLES
  \* EndpointState
  current,     \* the subscription registered under the ID
  error,       \* the subscription whose delivery error is recorded under the ID
  pending,     \* pending_ids has the ID
  closing,     \* closing_ids has the ID
  operations,  \* pending_operations
  disposed,
  permit,      \* the permit idle.notify_one leaves
  \* The calls and the workers
  call,        \* where each subscribe call is
  removal,     \* where the unsubscribe call that removed a subscription is
  dispose,     \* where the dispose call is
  taken,       \* the subscription it took
  queue,       \* each subscription's UpdateQueue: its items and its depth counter
  token,       \* the token each worker captured
  worker,      \* where each worker is, its update, and whether it counts as an operation
  \* The provider
  emitted,     \* updates so far
  feed,        \* each provider subscription: none, buffering, active or closed
  buffer,      \* its updates that the listener has still to be called with
  \* For the properties only:
  told,        \* the updates each listener was called with
  delivered,   \* the updates each worker handed to the transport
  displaced,   \* subscriptions another one was registered over
  leaked       \* an update was handed over after a newer subscription took the ID

state == <<current, error, pending, closing, operations, disposed, permit>>
provider == <<emitted, feed, buffer, told>>
workers == <<queue, token, worker, delivered, leaked>>
vars == <<state, call, removal, dispose, taken, provider, workers, displaced>>

Overflow == 0
NoWorker == [at |-> "none", update |-> 0, counted |-> FALSE]

Init ==
  /\ current = None /\ error = None /\ pending = FALSE /\ closing = FALSE
  /\ operations = 0 /\ disposed = FALSE /\ permit = FALSE
  /\ call = [g \in Calls |-> "none"] /\ removal = [g \in Calls |-> "none"]
  /\ dispose = "none" /\ taken = None
  /\ queue = [g \in Calls |-> [items |-> <<>>, depth |-> 0]]
  /\ token = [g \in Calls |-> None] /\ worker = [g \in Calls |-> NoWorker]
  /\ emitted = 0 /\ feed = [g \in Calls |-> "none"] /\ buffer = [g \in Calls |-> <<>>]
  /\ told = [g \in Calls |-> <<>>] /\ delivered = [g \in Calls |-> <<>>]
  /\ displaced = {} /\ leaked = FALSE

-----------------------------------------------------------------------------
(* PendingOperation. *)

(* Mutant: only the operations that reserved the ID wake the disposal. *)
Wakes_Reserved(reserved) == reserved /\ operations = 1

(* complete wakes the disposal when it was the last operation. *)
Wakes(reserved) == operations = 1

Complete(reserved) ==
  /\ operations' = operations - 1
  /\ permit' = (permit \/ Wakes(reserved))

Reserve == operations' = operations + 1

-----------------------------------------------------------------------------
(* The provider's updates, and the listener of a subscription. *)

(* Mutant: the oldest update makes room for one that does not fit, without a marker. *)
Listen_DropOldest(q, n) ==
  IF q.depth + 1 > QueueLimit THEN [q EXCEPT !.items = Append(Tail(@), n)]
                              ELSE [items |-> Append(q.items, n), depth |-> q.depth + 1]

(* update_listener. *)
Listen(q, n) ==
  [items |-> Append(q.items, IF q.depth + 1 > QueueLimit THEN Overflow ELSE n),
   depth |-> q.depth + 1]

(* emit_update_inner.  An update is buffered, for the thread that owns the subscriber or claims   *)
(* it now.  If that thread is the emitting one, which has claimed the subscriber and is still in *)
(* the listener of another that publishes in turn, the update overtakes what is buffered.  The   *)
(* endpoint's own listener never publishes, so that an activation is not overtaken.  An update   *)
(* that no subscriber hears is not counted.                                                      *)
Overtakable == {g \in Calls : feed[g] = "active" /\ call[g] # "draining" /\ buffer[g] # <<>>}

EmitUpdate(inline) ==
  /\ emitted < MaxUpdates /\ \E g \in Calls : feed[g] \in {"buffering", "active"}
  /\ emitted' = emitted + 1
  /\ buffer' = [g \in Calls |-> IF feed[g] \in {"buffering", "active"} /\ g \notin inline
                               THEN Append(buffer[g], emitted') ELSE buffer[g]]
  /\ queue' = [g \in Calls |-> IF g \in inline THEN Listen(queue[g], emitted') ELSE queue[g]]
  /\ told' = [g \in Calls |-> IF g \in inline THEN Append(told[g], emitted') ELSE told[g]]
  /\ UNCHANGED <<state, call, removal, dispose, taken, feed, token, worker, delivered, leaked,
                 displaced>>

(* drain_subscriber: its owner calls the listener, with what it has taken even after a close. *)
DrainSubscriber(g) ==
  /\ feed[g] \in {"active", "closed"} /\ buffer[g] # <<>>
  /\ buffer' = [buffer EXCEPT ![g] = Tail(@)]
  /\ queue' = [queue EXCEPT ![g] = Listen(@, Head(buffer[g]))]
  /\ told' = [told EXCEPT ![g] = Append(@, Head(buffer[g]))]
  /\ UNCHANGED <<state, call, removal, dispose, taken, emitted, feed, token, worker, delivered, leaked,
                 displaced>>

(* ProviderSubscription::close. *)
CloseFeed(g) ==
  /\ feed' = [feed EXCEPT ![g] = "closed"]
  /\ buffer' = [buffer EXCEPT ![g] = IF feed[g] = "buffering" THEN <<>> ELSE @]
  /\ UNCHANGED <<emitted, told>>

-----------------------------------------------------------------------------
(* subscribe. *)

Free == current = None /\ ~pending /\ ~closing

AdmitSubscribe(g) ==
  /\ call[g] = "none" /\ \A h \in 1..(g - 1) : call[h] # "none"
  /\ ~disposed /\ Free
  /\ error' = None /\ pending' = TRUE /\ Reserve
  /\ call' = [call EXCEPT ![g] = "admitted"]
  /\ UNCHANGED <<current, closing, disposed, permit, removal, dispose, taken, provider, workers,
                 displaced>>

(* The provider subscribes, or refuses: then the pending operation is dropped. *)
ProviderSubscribe(g) ==
  /\ call[g] = "admitted"
  /\ feed' = [feed EXCEPT ![g] = "buffering"]
  /\ call' = [call EXCEPT ![g] = "subscribed"]
  /\ UNCHANGED <<state, removal, dispose, taken, emitted, buffer, told, workers, displaced>>

ProviderRefuse(g) ==
  /\ call[g] = "admitted"
  /\ call' = [call EXCEPT ![g] = "finishing"]
  /\ UNCHANGED <<state, removal, dispose, taken, provider, workers, displaced>>

(* register_subscription inserts over whatever the ID has; a debug build panics instead. *)
RegisterSubscription(g) ==
  /\ call[g] = "subscribed"
  /\ pending' = FALSE
  /\ IF disposed
     THEN call' = [call EXCEPT ![g] = "rejected"] /\ UNCHANGED <<current, displaced>>
     ELSE /\ call' = [call EXCEPT ![g] = "registered"]
          /\ current' = g
          /\ displaced' = displaced \union ({current} \ {None})
  /\ UNCHANGED <<error, closing, operations, disposed, permit, removal, dispose, taken, provider,
                 workers>>

RejectClose(g) ==
  /\ call[g] = "rejected"
  /\ CloseFeed(g)
  /\ call' = [call EXCEPT ![g] = "finishing"]
  /\ UNCHANGED <<state, removal, dispose, taken, workers, displaced>>

(* activate makes the caller the owner, and returns when it finds the buffer empty.  A *)
(* subscription closed in the meantime stays closed.                                   *)
Activate(g) ==
  /\ call[g] = "registered"
  /\ feed' = [feed EXCEPT ![g] = IF @ = "buffering" THEN "active" ELSE @]
  /\ call' = [call EXCEPT ![g] = "draining"]
  /\ UNCHANGED <<state, removal, dispose, taken, emitted, buffer, told, workers, displaced>>

Activated(g) ==
  /\ call[g] = "draining" /\ buffer[g] = <<>>
  /\ call' = [call EXCEPT ![g] = "activated"]
  /\ UNCHANGED <<state, removal, dispose, taken, provider, workers, displaced>>

(* The worker captures the token that the ID has when the worker is spawned. *)
SpawnUpdateWorker(g) ==
  /\ call[g] = "activated"
  /\ token' = [token EXCEPT ![g] = current]
  /\ worker' = [worker EXCEPT ![g].at = "receive"]
  /\ call' = [call EXCEPT ![g] = "finishing"]
  /\ UNCHANGED <<state, removal, dispose, taken, provider, queue, delivered, leaked, displaced>>

FinishSubscribe(g) ==
  /\ call[g] = "finishing"
  /\ pending' = FALSE /\ Complete(TRUE)
  /\ call' = [call EXCEPT ![g] = "done"]
  /\ UNCHANGED <<current, error, closing, disposed, removal, dispose, taken, provider, workers, displaced>>

-----------------------------------------------------------------------------
(* unsubscribe returns a recorded error, or removes the subscription and closes it. *)

TakeDeliveryError ==
  /\ error # None /\ ~disposed
  /\ error' = None
  /\ UNCHANGED <<current, pending, closing, operations, disposed, permit, call, removal, dispose, taken,
                 provider, workers, displaced>>

AdmitUnsubscribe ==
  /\ ~disposed /\ current # None
  /\ current' = None /\ closing' = TRUE /\ Reserve
  /\ removal' = [removal EXCEPT ![current] = "closing"]
  /\ UNCHANGED <<error, pending, disposed, permit, call, dispose, taken, provider, workers, displaced>>

UnsubscribeClose(g) ==
  /\ removal[g] = "closing"
  /\ CloseFeed(g)
  /\ removal' = [removal EXCEPT ![g] = "finishing"]
  /\ UNCHANGED <<state, call, dispose, taken, workers, displaced>>

FinishUnsubscribe(g) ==
  /\ removal[g] = "finishing"
  /\ closing' = FALSE /\ Complete(TRUE)
  /\ removal' = [removal EXCEPT ![g] = "done"]
  /\ UNCHANGED <<current, error, pending, disposed, call, dispose, taken, provider, workers, displaced>>

-----------------------------------------------------------------------------
(* The worker of subscription g.  It holds a sender of its own queue, so it never sees the *)
(* queue end.                                                                              *)

IsCurrent(g) == token[g] # None /\ token[g] = current

Ends(g) == [NoWorker EXCEPT !.at = "stopped"]

(* Mutant: the failure is noted by nobody. *)
Evict_Silent(g, counted) ==
  /\ worker' = [worker EXCEPT ![g] = Ends(g)]
  /\ IF counted THEN Complete(FALSE) ELSE UNCHANGED <<operations, permit>>
  /\ UNCHANGED <<current, error>>

(* fail_subscription, and the end of a worker that found nothing to close. *)
Evict(g, counted) ==
  IF IsCurrent(g)
  THEN /\ current' = None /\ error' = token[g]
       /\ worker' = [worker EXCEPT ![g] = [at |-> "closing", update |-> 0, counted |-> counted]]
       /\ UNCHANGED <<operations, permit>>
  ELSE /\ worker' = [worker EXCEPT ![g] = Ends(g)]
       /\ IF counted THEN Complete(FALSE) ELSE UNCHANGED <<operations, permit>>
       /\ UNCHANGED <<current, error>>

Receive(g) ==
  /\ worker[g].at = "receive" /\ queue[g].items # <<>>
  /\ LET n == Head(queue[g].items)
     IN \/ /\ n # Overflow
           /\ queue' = [queue EXCEPT ![g] = [items |-> Tail(@.items), depth |-> @.depth - 1]]
           /\ worker' = [worker EXCEPT ![g] = [at |-> "check", update |-> n, counted |-> FALSE]]
           /\ UNCHANGED <<current, error, operations, permit>>
        \/ /\ n = Overflow
           /\ queue' = [queue EXCEPT ![g].items = Tail(@)]
           /\ Evict(g, FALSE)
  /\ UNCHANGED <<pending, closing, disposed, call, removal, dispose, taken, provider, token, delivered,
                 leaked, displaced>>

CheckCurrent(g) ==
  /\ worker[g].at = "check"
  /\ worker' = [worker EXCEPT ![g] = IF IsCurrent(g) THEN [@ EXCEPT !.at = "admit"] ELSE Ends(g)]
  /\ UNCHANGED <<state, call, removal, dispose, taken, provider, queue, token, delivered, leaked,
                 displaced>>

(* Mutant: a delivery is not counted as an operation. *)
CountDelivery_Not(g) ==
  /\ worker' = [worker EXCEPT ![g].at = "publishing"]
  /\ UNCHANGED operations

CountDelivery(g) ==
  /\ worker' = [worker EXCEPT ![g].at = "publishing", ![g].counted = TRUE]
  /\ Reserve

(* admit_delivery, and the call of publish. *)
AdmitDelivery(g) ==
  /\ worker[g].at = "admit"
  /\ IF disposed
     THEN worker' = [worker EXCEPT ![g] = Ends(g)] /\ UNCHANGED <<operations, delivered, leaked>>
     ELSE /\ CountDelivery(g)
          /\ delivered' = [delivered EXCEPT ![g] = Append(@, worker[g].update)]
          /\ leaked' = (leaked \/ current > g)
  /\ UNCHANGED <<current, error, pending, closing, disposed, permit, call, removal, dispose, taken,
                 provider, queue, token, displaced>>

(* The transport's future completes, or fails or panics. *)
PublishDone(g) ==
  /\ worker[g].at = "publishing"
  /\ worker' = [worker EXCEPT ![g] = [NoWorker EXCEPT !.at = "receive"]]
  /\ IF worker[g].counted THEN Complete(FALSE) ELSE UNCHANGED <<operations, permit>>
  /\ UNCHANGED <<current, error, pending, closing, disposed, call, removal, dispose, taken, provider,
                 queue, token, delivered, leaked, displaced>>

PublishFails(g) ==
  /\ worker[g].at = "publishing"
  /\ Evict(g, worker[g].counted)
  /\ UNCHANGED <<pending, closing, disposed, call, removal, dispose, taken, provider, queue, token,
                 delivered, leaked, displaced>>

WorkerClose(g) ==
  /\ worker[g].at = "closing"
  /\ CloseFeed(token[g])
  /\ worker' = [worker EXCEPT ![g] = Ends(g)]
  /\ IF worker[g].counted THEN Complete(FALSE) ELSE UNCHANGED <<operations, permit>>
  /\ UNCHANGED <<current, error, pending, closing, disposed, call, removal, dispose, taken, queue, token,
                 delivered, leaked, displaced>>

-----------------------------------------------------------------------------
(* dispose. *)

BeginDispose ==
  /\ ~disposed
  /\ disposed' = TRUE /\ dispose' = "check"
  /\ UNCHANGED <<current, error, pending, closing, operations, permit, call, removal, taken, provider,
                 workers, displaced>>

(* wait_for_idle looks at the count, then awaits the permit. *)
CheckIdle ==
  /\ dispose = "check"
  /\ dispose' = IF operations = 0 THEN "take" ELSE "wait"
  /\ UNCHANGED <<state, call, removal, taken, provider, workers, displaced>>

AwaitNotify ==
  /\ dispose = "wait" /\ permit
  /\ permit' = FALSE /\ dispose' = "check"
  /\ UNCHANGED <<current, error, pending, closing, operations, disposed, call, removal, taken, provider,
                 workers, displaced>>

TakeSubscriptions ==
  /\ dispose = "take"
  /\ taken' = current /\ current' = None /\ error' = None
  /\ dispose' = IF current = None THEN "done" ELSE "closing"
  /\ UNCHANGED <<pending, closing, operations, disposed, permit, call, removal, provider, workers,
                 displaced>>

DisposeClose ==
  /\ dispose = "closing"
  /\ CloseFeed(taken)
  /\ dispose' = "done"
  /\ UNCHANGED <<state, call, removal, taken, workers, displaced>>

-----------------------------------------------------------------------------

SubscribeSteps(g) ==
  \/ ProviderSubscribe(g) \/ ProviderRefuse(g) \/ RegisterSubscription(g) \/ RejectClose(g)
  \/ Activate(g) \/ DrainSubscriber(g) \/ Activated(g) \/ SpawnUpdateWorker(g) \/ FinishSubscribe(g)

UnsubscribeSteps(g) == UnsubscribeClose(g) \/ FinishUnsubscribe(g)

WorkerSteps(g) ==
  \/ Receive(g) \/ CheckCurrent(g) \/ AdmitDelivery(g) \/ PublishDone(g) \/ PublishFails(g)
  \/ WorkerClose(g)

DisposeSteps == CheckIdle \/ AwaitNotify \/ TakeSubscriptions \/ DisposeClose

Next ==
  \/ \E inline \in SUBSET Overtakable : EmitUpdate(inline)
  \/ \E g \in Calls :
       AdmitSubscribe(g) \/ SubscribeSteps(g) \/ UnsubscribeSteps(g) \/ WorkerSteps(g)
  \/ TakeDeliveryError \/ AdmitUnsubscribe
  \/ BeginDispose \/ DisposeSteps

Spec == Init /\ [][Next]_vars

(* Every task is polled again, the provider and the transport answer; who calls is up to the *)
(* consumer.                                                                                 *)
FairSpec ==
  /\ Spec
  /\ \A g \in Calls :
       WF_vars(SubscribeSteps(g)) /\ WF_vars(UnsubscribeSteps(g)) /\ WF_vars(WorkerSteps(g))
  /\ WF_vars(DisposeSteps)

-----------------------------------------------------------------------------
(* Properties. *)

(* What a worker hands to the transport is what the provider told its listener, from the first  *)
(* update on, without a gap, a repetition or a reordering: the updates of the activation, those *)
(* queued before the worker starts, and the queue's limit, past which the subscription ends     *)
(* instead.                                                                                     *)
GaplessDelivery ==
  \A g \in Calls : \A k \in 1..Len(delivered[g]) :
    k <= Len(told[g]) /\ delivered[g][k] = told[g][k]

(* "The provider invokes the listener in publication order" (update_listener).                  *)
PublicationOrder ==
  \A g \in Calls : \A j, k \in 1..Len(told[g]) : j < k => told[g][j] < told[g][k]

(* A worker that has ended leaves no live registration behind, "rather than leaving the         *)
(* subscription active and silently missing updates" (spawn_update_worker): not after a failed  *)
(* publish, an overflow, a stale token or a subscription registered over another.               *)
NeverSilent ==
  ~disposed /\ current # None => worker[current].at # "stopped"

(* When dispose has returned, nothing is being handed to the transport and every provider       *)
(* subscription is closed.  Two exceptions are the code's: a subscription evicted on overflow   *)
(* whose close is still under way, and one that another was registered over.                    *)
DisposeLeavesNothing ==
  dispose = "done" =>
    \A g \in Calls :
      /\ worker[g].at # "publishing"
      /\ \/ feed[g] \in {"none", "closed"}
         \/ g \in displaced
         \/ \E w \in Calls : worker[w].at = "closing" /\ token[w] = g

(* dispose returns: the last operation wakes it, whatever the order of its look at the count    *)
(* and the completions.                                                                         *)
DisposeReturns == disposed ~> dispose = "done"

(* "deltas queued before `unsubscribe` returned are dropped instead of leaking into a           *)
(* replacement subscription that reuses the ID" (spawn_update_worker).                          *)
NoLeak == ~leaked

(* "The worker also terminates without publishing when the subscription is no longer current"   *)
(* (spawn_update_worker).                                                                       *)
WorkerEnds ==
  \A g \in Calls : removal[g] = "done" /\ worker[g].at # "none" ~> worker[g].at = "stopped"

(* The debug_assert of register_subscription: nothing is registered under the ID yet.           *)
NothingDisplaced == displaced = {}

=============================================================================
