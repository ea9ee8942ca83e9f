------------------------- MODULE ServiceReplication -------------------------
(***************************************************************************)
(* One state member of a singleton service and its replica:                *)
(* crates/pi-agent/src/service/replicated.rs (MutableReplicatedState at the*)
(* source, ReplicatedState at the consumer), provider.rs (the subscriber's *)
(* buffer) and binding.rs with binding/facade.rs (subscribe, rebind).  The *)
(* provider is the binding's transport, as in the loopback tests.          *)
(*                                                                         *)
(* Threads call each other's code through listeners, so a thread is a stack*)
(* of frames, the top first; a frame is a lock scope or a listener call    *)
(* that is still to come.  A listener may publish again.  The value that   *)
(* publication n leaves is the number n; an update carries the delta that  *)
(* leads from the value n - 1 to it, and to no known value from any other. *)
(***************************************************************************)
EXTENDS Naturals, Sequences

CONSTANTS
  Publishers,      \* threads that mutate and publish the state
  Starter,         \* the task that runs start_singleton
  Rebinder,        \* the task that calls rebind
  NoThread,        \* no thread
  MaxPubs,         \* bound: publications
  MaxRebinds,      \* bound: calls of rebind
  MaxWithdrawals,  \* bound: calls of withdraw
  MaxCalls         \* bound: calls of rebind, withdraw and the local subscribe together

ASSUME ServiceReplicationAssumption ==
  /\ Starter # Rebinder /\ {Starter, Rebinder} \cap Publishers = {}
  /\ NoThread \notin Publishers \union {Starter, Rebinder}
  /\ MaxPubs \in Nat /\ MaxRebinds \in Nat /\ MaxWithdrawals \in Nat /\ MaxCalls \in Nat

Threads == Publishers \union {Starter, Rebinder}
Revisions == 0..MaxRebinds

VARIABLES
  stack,        \* the frames of every thread
  \* MutableReplicatedState
  seq,          \* the sequence, and with it the published value
  pending,      \* publications and hydrations queued behind the draining thread
  drainer,      \* draining_thread
  local,        \* the value listener: none, pending, on, retired or off
  localOf,      \* the thread that subscribed it
  \* RemoteServiceProvider
  instance,     \* the singleton: none, listening to the state, or registered
  providerLock, \* who holds the provider's lock over several steps
  subscribers,  \* the registered subscribers, named by the binding's revision
  sub,          \* each subscriber's state
  snap,         \* the snapshot of the subscription being started: its sequence, and the value's
  \* SingletonBinding, its facade and ReplicatedState
  bound, revision, cancelled, subscription,
  replica,      \* the replica: its sequence, its value, its revision, and whether the snapshot
                \* it grew from was torn (for the properties only)
  epoch,        \* hydration epoch
  deliveries,   \* revisions queued for the replica's listener
  delivering,   \* a thread drains the deliveries
  withdrawals,  \* calls of withdraw so far
  \* For the properties only:
  heard,        \* the newest revision the local listener was told of (0: not hydrated)
  disordered,   \* the local listener was told of an older one after it
  reported,     \* revisions for which the consumer was told of an error
  cleared       \* revisions below this one have been cleared

hearing == <<heard, disordered>>
source == <<seq, pending, drainer, local, localOf, hearing>>
provider == <<instance, providerLock, subscribers, sub, snap>>
listener == <<deliveries, delivering>>
state == <<replica, epoch>>
binding == <<bound, revision, cancelled, subscription, cleared>>
vars == <<stack, source, provider, binding, state, listener, reported, withdrawals>>

Cold == [seq |-> 0, value |-> 0, torn |-> FALSE, rev |-> MaxRebinds + 1]
IsCold == replica = Cold
Closed == [active |-> FALSE, closed |-> FALSE, owner |-> NoThread, buffer |-> <<>>]

NoSnapshot == [seq |-> 0, value |-> 0]

F(at, i, n) == [at |-> at, i |-> i, n |-> n, rest |-> <<>>]
Do(at) == F(at, 0, 0)

Init ==
  /\ stack = [t \in Threads |-> IF t = Starter THEN <<Do("subscribe")>> ELSE <<>>]
  /\ seq = 0 /\ pending = <<>> /\ drainer = NoThread
  /\ local = "none" /\ localOf = NoThread /\ heard = 0 /\ disordered = FALSE
  /\ instance = "registered" /\ providerLock = NoThread /\ subscribers = {}
  /\ sub = [i \in Revisions |-> Closed]
  /\ snap = NoSnapshot
  /\ bound = TRUE /\ revision = 0 /\ cancelled = FALSE /\ subscription = {} /\ cleared = 0
  /\ replica = Cold /\ epoch = 0
  /\ deliveries = <<>> /\ delivering = FALSE
  /\ reported = {} /\ withdrawals = 0

Calls == revision + withdrawals + (IF local = "none" THEN 0 ELSE 1)

Idle(t) == stack[t] = <<>>
Top(t) == Head(stack[t])
At(t, at) == ~Idle(t) /\ Top(t).at = at

(* The top frame of t is done; frames take its place. *)
Then(t, frames) == stack' = [stack EXCEPT ![t] = frames \o Tail(@)]
Return(t) == Then(t, <<>>)

-----------------------------------------------------------------------------
(* MutableReplicatedState: a dispatch starts a drain, runs inline in the draining thread, or *)
(* is queued behind it.                                                                      *)

Dispatch(d) ==
  IF d.kind = "publication" THEN <<F("source", 0, d.n), F("local", 0, d.n)>>
                            ELSE <<F("hydrate", 0, d.n)>>

Inline(t) == drainer = t

Route(t, d) ==
  \/ /\ drainer = NoThread
     /\ drainer' = t
     /\ stack' = [stack EXCEPT ![t] = Dispatch(d) \o <<Do("drain")>> \o @]
     /\ UNCHANGED pending
  \/ /\ drainer # NoThread /\ Inline(t)
     /\ stack' = [stack EXCEPT ![t] = Dispatch(d) \o @]
     /\ UNCHANGED <<pending, drainer>>
  \/ /\ drainer # NoThread /\ ~Inline(t)
     /\ pending' = Append(pending, d)
     /\ UNCHANGED <<stack, drainer>>

(* A mutation and its publication, from the top of a thread or from a listener. *)
Publish(t) ==
  /\ (t \in Publishers /\ Idle(t)) \/ At(t, "user")
  /\ seq < MaxPubs
  /\ seq' = seq + 1
  /\ Route(t, [kind |-> "publication", n |-> seq + 1])
  /\ UNCHANGED <<local, localOf, hearing, provider, binding, state, listener, reported, withdrawals>>

(* A listener returns. *)
UserReturn(t) ==
  /\ At(t, "user")
  /\ Return(t)
  /\ UNCHANGED <<source, provider, binding, state, listener, reported, withdrawals>>

DrainDispatches(t) ==
  /\ At(t, "drain")
  /\ IF pending = <<>>
     THEN Return(t) /\ drainer' = NoThread /\ UNCHANGED pending
     ELSE /\ Then(t, Dispatch(Head(pending)) \o <<Do("drain")>>)
          /\ pending' = Tail(pending)
          /\ UNCHANGED drainer
  /\ UNCHANGED <<seq, local, localOf, hearing, provider, binding, state, listener, reported, withdrawals>>

LocalSubscribe(t) ==
  /\ t \in Publishers /\ Idle(t) /\ local = "none" /\ Calls < MaxCalls
  /\ local' = "pending" /\ localOf' = t
  /\ Route(t, [kind |-> "hydration", n |-> seq])
  /\ UNCHANGED <<seq, hearing, provider, binding, state, listener, reported, withdrawals>>

LocalUnsubscribe(t) ==
  /\ t = localOf /\ Idle(t)
  /\ local \in {"pending", "on"}
  /\ local' = IF local = "on" THEN "off" ELSE "retired"
  /\ UNCHANGED <<stack, seq, pending, drainer, localOf, hearing, provider, binding, state, listener,
                 reported, withdrawals>>

Hear(n) ==
  /\ heard' = n
  /\ disordered' = (disordered \/ n < heard)

DispatchHydration(t) ==
  /\ At(t, "hydrate")
  /\ IF local = "retired"
     THEN local' = "off" /\ Return(t) /\ UNCHANGED hearing
     ELSE local' = "on" /\ Hear(Top(t).n) /\ Then(t, <<Do("user")>>)
  /\ UNCHANGED <<seq, pending, drainer, localOf, provider, binding, state, listener, reported, withdrawals>>

DispatchLocal(t) ==
  /\ At(t, "local")
  /\ IF local = "on"
     THEN Hear(Top(t).n) /\ Then(t, <<Do("user")>>)
     ELSE Return(t) /\ UNCHANGED hearing
  /\ UNCHANGED <<seq, pending, drainer, local, localOf, provider, binding, state, listener, reported,
                 withdrawals>>

(* The source listener of create_instance. *)
DispatchSource(t) ==
  /\ At(t, "source")
  /\ Then(t, IF instance = "none" THEN <<>> ELSE <<F("emit", 0, Top(t).n)>>)
  /\ UNCHANGED <<source, provider, binding, state, listener, reported, withdrawals>>

-----------------------------------------------------------------------------
(* RemoteServiceProvider: an update is its publication, or Unavailable. *)

Unavailable == 0
ProviderFree == providerLock = NoThread

(* Mutant: an emission also skips the subscribers that are not active yet. *)
Skips_Inactive(i) == sub[i].closed \/ ~sub[i].active

(* emit_update_inner.  A subscription is started only after the one before it is closed, so at *)
(* most one of the registered subscribers is open.                                             *)
Skips(i) == sub[i].closed
Buffers(t, i) == ~sub[i].active \/ sub[i].owner \notin {NoThread, t}

Emit(t) ==
  /\ At(t, "emit") /\ ProviderFree
  /\ LET n == Top(t).n
     IN \/ /\ \A i \in subscribers : Skips(i)
           /\ Return(t) /\ UNCHANGED sub
        \/ \E i \in subscribers :
             /\ ~Skips(i)
             /\ \/ /\ Buffers(t, i)
                   /\ sub' = [sub EXCEPT ![i].buffer = Append(@, n)]
                   /\ Return(t)
                \/ /\ ~Buffers(t, i) /\ sub[i].owner = t
                   /\ Then(t, <<F("deliver", i, n)>>)
                   /\ UNCHANGED sub
                \/ /\ ~Buffers(t, i) /\ sub[i].owner = NoThread
                   /\ sub' = [sub EXCEPT ![i].owner = t, ![i].buffer = Append(@, n)]
                   /\ Then(t, <<F("drainSub", i, 0)>>)
  /\ UNCHANGED <<source, instance, providerLock, subscribers, snap, binding, state, listener,
                 reported, withdrawals>>

(* Mutant: the owner lets go after one batch without looking at the buffer again. *)
DrainSubscriber_Once(t) ==
  /\ At(t, "drainSub")
  /\ LET i == Top(t).i
     IN IF sub[i].buffer = <<>> \/ Top(t).n = 1
        THEN sub' = [sub EXCEPT ![i].owner = NoThread] /\ Return(t)
        ELSE /\ sub' = [sub EXCEPT ![i].buffer = <<>>]
             /\ Then(t, <<[F("entries", i, 0) EXCEPT !.rest = sub[i].buffer],
                          [Top(t) EXCEPT !.n = 1]>>)
  /\ UNCHANGED <<source, instance, providerLock, subscribers, snap, binding, state, listener,
                 reported, withdrawals>>

DrainSubscriber(t) ==
  /\ At(t, "drainSub")
  /\ LET i == Top(t).i
     IN IF sub[i].buffer = <<>>
        THEN sub' = [sub EXCEPT ![i].owner = NoThread] /\ Return(t)
        ELSE /\ sub' = [sub EXCEPT ![i].buffer = <<>>]
             /\ Then(t, <<[F("entries", i, 0) EXCEPT !.rest = sub[i].buffer], Top(t)>>)
  /\ UNCHANGED <<source, instance, providerLock, subscribers, snap, binding, state, listener,
                 reported, withdrawals>>

NextEntry(t) ==
  /\ At(t, "entries")
  /\ LET f == Top(t)
     IN Then(t, <<F("deliver", f.i, Head(f.rest))>>
                  \o (IF Len(f.rest) = 1 THEN <<>> ELSE <<[f EXCEPT !.rest = Tail(@)]>>))
  /\ UNCHANGED <<source, provider, binding, state, listener, reported, withdrawals>>

(* withdraw takes the singleton, stops its source listener and emits; provide tells nobody. *)
Withdraw(t) ==
  /\ t \in Publishers /\ Idle(t) /\ ProviderFree
  /\ instance = "registered" /\ withdrawals < MaxWithdrawals /\ Calls < MaxCalls
  /\ instance' = "none" /\ withdrawals' = withdrawals + 1
  /\ stack' = [stack EXCEPT ![t] = <<F("emit", 0, Unavailable)>>]
  /\ UNCHANGED <<source, providerLock, subscribers, sub, snap, binding, state, listener, reported>>

Provide(t) ==
  /\ t \in Publishers /\ Idle(t)
  /\ instance = "none"
  /\ instance' = "listening"
  /\ stack' = [stack EXCEPT ![t] = <<Do("register")>>]
  /\ UNCHANGED <<source, providerLock, subscribers, sub, snap, binding, state, listener, reported,
                 withdrawals>>

Register(t) ==
  /\ At(t, "register") /\ ProviderFree
  /\ instance' = "registered" /\ Return(t)
  /\ UNCHANGED <<source, providerLock, subscribers, sub, snap, binding, state, listener, reported,
                 withdrawals>>

Superseded(r) == revision # r
Current(r) == bound /\ ~Superseded(r)

(* Mutant: the facade trusts the revision its caller looked at. *)
Invalidated_Never(r) == r \notin Revisions

(* The facade's own look at the revision, under its lock. *)
Invalidated(r) == Superseded(r)

(* subscribe_inner: under the provider's lock, snapshot_instance reads the state's sequence and *)
(* then its value, each under the state's own lock.  start_singleton then looks whether the     *)
(* subscription is still wanted.                                                                *)
ReadSequence(t) ==
  /\ At(t, "subscribe")
  /\ LET r == Top(t).i
     IN \/ /\ cancelled \/ (ProviderFree /\ instance # "registered")
           /\ Return(t) /\ reported' = reported \union {r}
           /\ UNCHANGED <<providerLock, snap>>
        \/ /\ ~cancelled /\ ProviderFree /\ instance = "registered"
           /\ providerLock' = t
           /\ snap' = [snap EXCEPT !.seq = seq]
           /\ Then(t, <<F("value", r, 0)>>)
           /\ UNCHANGED reported
  /\ UNCHANGED <<source, instance, subscribers, sub, binding, state, listener, withdrawals>>

ReadValue(t) ==
  /\ At(t, "value")
  /\ LET r == Top(t).i
     IN /\ snap' = IF Current(r) THEN [snap EXCEPT !.value = seq] ELSE NoSnapshot
        /\ subscribers' = subscribers \union {r}
        /\ providerLock' = NoThread
        /\ Then(t, <<F(IF Current(r) THEN "install" ELSE "close", r, 0)>>)
  /\ UNCHANGED <<source, instance, sub, binding, state, listener, reported, withdrawals>>

(* ProviderSubscription::close, which comes back for the provider's lock. *)
Close(t) ==
  /\ At(t, "close")
  /\ LET i == Top(t).i
     IN IF sub[i].closed
        THEN Return(t) /\ UNCHANGED sub
        ELSE /\ sub' = [sub EXCEPT ![i].closed = TRUE, ![i].buffer = <<>>]
             /\ Then(t, <<F("remove", i, 0)>>)
  /\ UNCHANGED <<source, instance, providerLock, subscribers, snap, binding, state, listener,
                 reported, withdrawals>>

RemoveFromProvider(t) ==
  /\ At(t, "remove") /\ ProviderFree
  /\ subscribers' = subscribers \ {Top(t).i}
  /\ Return(t)
  /\ UNCHANGED <<source, instance, providerLock, sub, snap, binding, state, listener, reported,
                 withdrawals>>

-----------------------------------------------------------------------------
(* ReplicatedState: a transition stores a revision and queues its delivery; whoever finds no *)
(* drain under way drains.                                                                   *)

Deliver(t, next) ==
  /\ deliveries' = Append(deliveries, epoch)
  /\ delivering' = TRUE
  /\ Then(t, (IF delivering THEN <<>> ELSE <<Do("flush")>>) \o next)

Cleared == replica' = Cold /\ epoch' = epoch + 1

(* Deliveries of an older epoch are dropped on the way to the next of this one. *)
Fresh == {k \in 1..Len(deliveries) : deliveries[k] = epoch}

Flush(t) ==
  /\ At(t, "flush")
  /\ \/ /\ Fresh = {}
        /\ deliveries' = <<>> /\ delivering' = FALSE /\ Return(t)
     \/ \E k \in Fresh :
          /\ \A j \in Fresh : k <= j
          /\ deliveries' = SubSeq(deliveries, k + 1, Len(deliveries))
          /\ Then(t, <<Do("user"), Top(t)>>)
          /\ UNCHANGED delivering
  /\ UNCHANGED <<source, provider, binding, state, reported, withdrawals>>

-----------------------------------------------------------------------------
(* SingletonBinding::update: the revision is looked at before the facade's lock is taken, and *)
(* again under it by install and update, but not by clear.                                    *)

CheckUpdate(t) ==
  /\ At(t, "deliver")
  /\ LET f == Top(t)
     IN Then(t, IF Superseded(f.i) THEN <<>>
                ELSE <<F(IF f.n = Unavailable THEN "wipe" ELSE "apply", f.i, f.n)>>)
  /\ UNCHANGED <<source, provider, binding, state, listener, reported, withdrawals>>

Wipe(t) ==
  /\ At(t, "wipe")
  /\ Cleared /\ Return(t)
  /\ UNCHANGED <<source, provider, binding, listener, reported, withdrawals>>

(* Mutant: any newer sequence is applied. *)
Contiguous_Newer(n) == n > replica.seq

Contiguous(n) == replica.seq + 1 = n

(* A value nobody published. *)
Spoilt == MaxPubs + 1

(* apply_immutable of the delta of publication n to the value v.  On any value but the one it *)
(* was computed against, Append, Truncate, Splice and Delete give something else or fail; Set *)
(* and Replace may still come out right or change nothing.                                    *)
Fits(v, n) == v + 1 = n
Applied(v, n) == IF Fits(v, n) THEN {n} ELSE {n, v, Spoilt}

ApplyUpdate(t) ==
  /\ At(t, "apply")
  /\ LET r == Top(t).i  n == Top(t).n
     IN \/ /\ Invalidated(r)
           /\ Return(t) /\ UNCHANGED <<state, listener, reported>>
        \/ /\ ~Invalidated(r) /\ IsCold
           /\ reported' = reported \union {r}
           /\ Return(t) /\ UNCHANGED <<state, listener>>
        \/ /\ ~Invalidated(r) /\ ~IsCold /\ ~Contiguous(n)
           /\ reported' = reported \union {r}
           /\ Cleared /\ Return(t) /\ UNCHANGED listener
        \/ /\ ~Invalidated(r) /\ ~IsCold /\ Contiguous(n) /\ ~Fits(replica.value, n)
           /\ reported' = reported \union {r}
           /\ Return(t) /\ UNCHANGED <<state, listener>>
        \/ /\ ~Invalidated(r) /\ ~IsCold /\ Contiguous(n)
           /\ \E v \in Applied(replica.value, n) :
                replica' = [replica EXCEPT !.seq = n, !.value = v]
           /\ Deliver(t, <<>>)
           /\ UNCHANGED <<epoch, reported>>
  /\ UNCHANGED <<source, provider, binding, withdrawals>>

-----------------------------------------------------------------------------
(* start_singleton. *)

Install(t) ==
  /\ At(t, "install")
  /\ LET r == Top(t).i
     IN \/ /\ Invalidated(r)
           /\ Then(t, <<F("close", r, 0)>>)
           /\ UNCHANGED <<state, listener>>
        \/ /\ ~Invalidated(r)
           /\ replica' = [seq |-> snap.seq, value |-> snap.value, torn |-> snap.value # snap.seq,
                          rev |-> r]
           /\ Deliver(t, <<F("activate", r, 0)>>)
           /\ UNCHANGED epoch
  /\ snap' = NoSnapshot
  /\ UNCHANGED <<source, instance, providerLock, subscribers, sub, binding, reported, withdrawals>>

(* The subscription is recorded and activated; only stop, which awaits this task, reads it. *)
Activate(t) ==
  /\ At(t, "activate")
  /\ LET r == Top(t).i
     IN /\ subscription' = {r}
        /\ IF sub[r].closed
           THEN Then(t, <<F("revalidate", r, 0)>>) /\ UNCHANGED sub
           ELSE /\ sub' = [sub EXCEPT ![r].active = TRUE, ![r].owner = t]
                /\ Then(t, <<F("drainSub", r, 0), F("reap", r, 0), F("revalidate", r, 0)>>)
  /\ UNCHANGED <<source, instance, providerLock, subscribers, snap, bound, revision, cancelled,
                 cleared, state, listener, reported, withdrawals>>

Reap(t) ==
  /\ At(t, "reap")
  /\ LET r == Top(t).i
     IN Then(t, IF sub[r].closed THEN <<F("remove", r, 0)>> ELSE <<>>)
  /\ UNCHANGED <<source, provider, binding, state, listener, reported, withdrawals>>

Revalidate(t) ==
  /\ At(t, "revalidate")
  /\ LET r == Top(t).i
     IN IF Current(r)
        THEN Return(t) /\ UNCHANGED <<subscription, state>>
        ELSE subscription' = {} /\ Cleared /\ Then(t, <<F("close", r, 0)>>)
  /\ UNCHANGED <<source, provider, bound, revision, cancelled, cleared, listener, reported, withdrawals>>

-----------------------------------------------------------------------------
(* RemoteServiceBinding::rebind, under the transition lock. *)

Rebind(b) ==
  /\ Idle(Rebinder) /\ revision < MaxRebinds /\ Calls < MaxCalls
  /\ bound' = b
  /\ stack' = [stack EXCEPT ![Rebinder] =
                 <<Do("bump"), Do("clear"), Do("await"), Do("take")>>
                   \o (IF b THEN <<Do("respawn"), Do("await")>> ELSE <<>>)]
  /\ UNCHANGED <<source, provider, revision, cancelled, subscription, cleared, state, listener,
                 reported, withdrawals>>

Bump ==
  /\ At(Rebinder, "bump")
  /\ revision' = revision + 1
  /\ Return(Rebinder)
  /\ UNCHANGED <<source, provider, bound, cancelled, subscription, cleared, state, listener,
                 reported, withdrawals>>

(* The facade is cleared, and stop cancels the start. *)
FacadeClear ==
  /\ At(Rebinder, "clear")
  /\ Cleared /\ cleared' = revision
  /\ cancelled' = TRUE
  /\ Return(Rebinder)
  /\ UNCHANGED <<source, provider, bound, revision, subscription, listener, reported, withdrawals>>

StopAwait ==
  /\ At(Rebinder, "await") /\ Idle(Starter)
  /\ Return(Rebinder)
  /\ UNCHANGED <<source, provider, binding, state, listener, reported, withdrawals>>

StopTake ==
  /\ At(Rebinder, "take")
  /\ subscription' = {}
  /\ Then(Rebinder, IF subscription = {} THEN <<>>
                    ELSE <<F("close", CHOOSE i \in subscription : TRUE, 0)>>)
  /\ UNCHANGED <<source, provider, bound, revision, cancelled, cleared, state, listener, reported,
                 withdrawals>>

Respawn ==
  /\ At(Rebinder, "respawn")
  /\ cancelled' = FALSE
  /\ stack' = [stack EXCEPT ![Rebinder] = Tail(@), ![Starter] = <<F("subscribe", revision, 0)>>]
  /\ UNCHANGED <<source, provider, bound, revision, subscription, cleared, state, listener, reported,
                 withdrawals>>

-----------------------------------------------------------------------------

Run(t) ==
  \/ UserReturn(t) \/ DrainDispatches(t) \/ DispatchHydration(t) \/ DispatchLocal(t)
  \/ DispatchSource(t) \/ Emit(t) \/ DrainSubscriber(t) \/ NextEntry(t) \/ Register(t)
  \/ ReadSequence(t) \/ ReadValue(t) \/ Close(t) \/ RemoveFromProvider(t) \/ Flush(t)
  \/ CheckUpdate(t) \/ Wipe(t) \/ ApplyUpdate(t) \/ Install(t)
  \/ Activate(t) \/ Reap(t) \/ Revalidate(t)

RebindSteps == Bump \/ FacadeClear \/ StopAwait \/ StopTake \/ Respawn

Next ==
  \/ \E t \in Threads : Publish(t) \/ Run(t)
  \/ \E t \in Publishers :
       LocalSubscribe(t) \/ LocalUnsubscribe(t) \/ Withdraw(t) \/ Provide(t)
  \/ \E b \in BOOLEAN : Rebind(b)
  \/ RebindSteps

Spec == Init /\ [][Next]_vars

-----------------------------------------------------------------------------
(* Properties. *)

(* The replica's value is the publication its sequence names, whatever the interleaving of      *)
(* publishers, reentrant listeners, buffering and emission, unless a publication fell between   *)
(* the two reads of the snapshot it grew from: apply_update takes only the next sequence, and a *)
(* buffered update that the snapshot already counts is refused.                                 *)
HoldsItsLabel == ~replica.torn => replica.value = replica.seq

(* "Sequence assigned to the delivered revision." (ReplicatedStateDelivery in replicated.rs),    *)
(* with no exception: what the consumer holds and hands to its listeners is what its label says.*)
LabelledTruly == replica.value = replica.seq

(* Once rebind has cleared the facade, no late update and no slow start of an older revision    *)
(* fills it again: install and update look at the revision under the lock clear takes.          *)
NoResurrection == ~IsCold => replica.rev >= cleared

Quiet == \A t \in Threads : Idle(t)

Holds(t, at, i) == \E k \in 1..Len(stack[t]) : stack[t][k].at = at /\ stack[t][k].i = i

(* Whatever is queued has a thread that still comes back for it: a dispatch behind the draining *)
(* publisher, a replica delivery, an update in an active subscriber's buffer.                   *)
NothingStranded ==
  /\ pending # <<>> => drainer # NoThread /\ Holds(drainer, "drain", 0)
  /\ deliveries # <<>> => \E t \in Threads : Holds(t, "flush", 0)
  /\ \A i \in subscribers :
       sub[i].active /\ sub[i].buffer # <<>> =>
         sub[i].owner # NoThread /\ Holds(sub[i].owner, "drainSub", i)

(* When every thread has returned, a bound consumer that was told of no error has the latest    *)
(* sequence and, unless its snapshot was torn, the latest value, as long as the service was     *)
(* never withdrawn (provide notifies nobody): no update falls between the snapshot, the buffer  *)
(* and the activation.                                                                          *)
SettledIsCurrent ==
  Quiet /\ bound /\ withdrawals = 0 =>
    \/ revision \in reported
    \/ ~IsCold /\ replica.seq = seq /\ (replica.torn \/ replica.value = seq)

(* "listeners observe hydrations and publications in sequence order" (the comment above         *)
(* PendingHydration in replicated.rs).                                                          *)
InSequenceOrder == ~disordered

=============================================================================
