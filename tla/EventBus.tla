------------------------------ MODULE EventBus ------------------------------
(***************************************************************************)
(* The event fan-out of crates/pi-agent/src/bus.rs.  The agent loop emits  *)
(* without waiting; a subscriber has a bounded queue that coalesces under  *)
(* lag, an extension has a bounded channel that is cut at its first        *)
(* overflow.                                                               *)
(*                                                                         *)
(* An event is its position in `emitted`, which records the kinds in the   *)
(* order of the emit calls.  Subscribers and extensions do not share state *)
(* with each other, so one emit is one step.                               *)
(***************************************************************************)
EXTENDS Naturals, Sequences, SequencesExt

CONSTANTS
  Subs,           \* AgentEventSubscription handles
  Exts,           \* ExtensionSubscription handles
  SubCapacity,    \* capacity asked for by subscribe_with_capacity
  ExtCapacity,    \* capacity asked for by subscribe_extension_with_capacity
  MaxEvents       \* events emitted in a behaviour

ASSUME EventBusAssumption ==
  /\ SubCapacity \in Nat
  /\ ExtCapacity \in Nat
  /\ MaxEvents \in Nat

VARIABLES
  emitted,        \* the kinds of the events emitted so far
  phase,          \* where the loop is between agent_start and agent_end
  sinkOpen,       \* the AgentEventSink has not been dropped
  sub,            \* SubscriberInner and the receiver of each handle
  ext             \* ExtensionSlot and the receiver of each handle

vars == <<emitted, phase, sinkOpen, sub, ext>>

-----------------------------------------------------------------------------
(* Events and the order in which run.rs and schedule.rs emit them.  The    *)
(* bus distinguishes updates, terminals (MessageEnd, AgentEnd) and the     *)
(* rest; the loop's order decides which terminals can follow which.        *)

Kinds == {"agentStart", "turnStart", "messageStart", "update", "assistantEnd", "resultEnd",
          "turnEnd", "agentEnd"}

LoopPhases == {"idle", "agent", "turn", "message", "answered", "result"}

(* <<phase, event, next phase>>: one assistant message per turn, then the  *)
(* tool results, then turn_end.                                            *)
Protocol ==
  {<<"idle", "agentStart", "agent">>, <<"agent", "turnStart", "turn">>,
   <<"turn", "messageStart", "message">>, <<"message", "update", "message">>,
   <<"message", "assistantEnd", "answered">>, <<"answered", "messageStart", "result">>,
   <<"result", "resultEnd", "answered">>, <<"answered", "turnEnd", "agent">>,
   <<"agent", "agentEnd", "idle">>}

(* Mutant: only agent_end is worth an eviction. *)
IsRunTerminal_AgentEnd(kind) == kind = "agentEnd"

(* is_run_terminal: MessageEnd of any role and AgentEnd. *)
IsRunTerminal(kind) == kind \in {"assistantEnd", "resultEnd", "agentEnd"}

-----------------------------------------------------------------------------
(* Subscribers.  permit is the Notify's stored permit; received and from   *)
(* are history: what the handle has returned and where it subscribed.      *)

Clamp(low, n) == IF n < low THEN low ELSE n
Capacity == Clamp(2, SubCapacity)
ExtensionCapacity == Clamp(1, ExtCapacity)

NewSub(n) ==
  [state |-> "open", queue |-> <<>>, lagged |-> FALSE, permit |-> FALSE, recv |-> "out",
   received |-> <<>>, from |-> n]

(* The positions of coalescable updates in a queue. *)
Updates(q, kinds) == {i \in DOMAIN q : kinds[q[i]] = "update"}

Full(q) == Len(q) = Capacity

(* Mutant: making room by coalescing an update does not count as a loss. *)
Loses_OnlyEvictions(q, kinds) == Full(q) /\ Updates(q, kinds) = {}

(* At the bound some event is lost, whichever branch push takes. *)
Loses(q, kinds) == Full(q)

(* At the bound the oldest update makes room, else the oldest event does. *)
MakeRoom(q, kinds) ==
  IF ~Full(q) THEN q
  ELSE IF Updates(q, kinds) # {} THEN RemoveAt(q, Min(Updates(q, kinds)))
  ELSE Tail(q)

(* Mutant: the queue changes and the receiver is not notified. *)
Notified_Lost(s) == s

(* The wake-up that ends push and both closes: notify_one stores a permit. *)
Notified(s) == [s EXCEPT !.permit = TRUE]

(* SubscriberInner::push on an open subscriber.  A full queue without an   *)
(* update refuses everything but a terminal, without a notification.       *)
Push(s, event, kinds) ==
  LET lagging == [s EXCEPT !.lagged = @ \/ Loses(s.queue, kinds)] IN
  IF Full(s.queue) /\ Updates(s.queue, kinds) = {} /\ ~IsRunTerminal(kinds[event])
  THEN lagging
  ELSE Notified([lagging EXCEPT !.queue = Append(MakeRoom(s.queue, kinds), event)])

-----------------------------------------------------------------------------
(* Extensions.  tx is the slot's sender, rx the handle's receiver.         *)
(* outcome is what the handle last reported besides events.                *)

NewExt(n) ==
  [tx |-> TRUE, rx |-> TRUE, buffer |-> <<>>, lagged |-> FALSE, emittedLag |-> FALSE,
   lags |-> 0, ended |-> FALSE, received |-> <<>>, from |-> n]

(* Mutant: an overflowing event is dropped and the slot stays connected. *)
TrySend_StaysConnected(x, event) ==
  IF ~x.tx THEN x
  ELSE IF ~x.rx THEN [x EXCEPT !.tx = FALSE]
  ELSE IF Len(x.buffer) = ExtensionCapacity THEN [x EXCEPT !.lagged = TRUE]
  ELSE [x EXCEPT !.buffer = Append(@, event)]

(* try_send with its Full and Closed arms. *)
TrySend(x, event) ==
  IF ~x.tx THEN x
  ELSE IF ~x.rx THEN [x EXCEPT !.tx = FALSE]
  ELSE IF Len(x.buffer) = ExtensionCapacity THEN [x EXCEPT !.lagged = TRUE, !.tx = FALSE]
  ELSE [x EXCEPT !.buffer = Append(@, event)]

-----------------------------------------------------------------------------

NoSub == [NewSub(0) EXCEPT !.state = "none"]
NoExt == [NewExt(0) EXCEPT !.tx = FALSE, !.rx = FALSE]

Init ==
  /\ emitted = <<>>
  /\ phase = "idle"
  /\ sinkOpen = TRUE
  /\ sub = [s \in Subs |-> NoSub]
  /\ ext = [x \in Exts |-> NoExt]

Subscribe(s) ==
  /\ sinkOpen
  /\ sub[s].state = "none"
  /\ sub' = [sub EXCEPT ![s] = NewSub(Len(emitted))]
  /\ UNCHANGED <<emitted, phase, sinkOpen, ext>>

SubscribeExtension(x) ==
  /\ sinkOpen
  /\ ext[x] = NoExt
  /\ ext' = [ext EXCEPT ![x] = NewExt(Len(emitted))]
  /\ UNCHANGED <<emitted, phase, sinkOpen, sub>>

(* One emit: push to every open subscriber, try_send to every extension.   *)
(* Subscribers whose handle is gone are pruned from the sink.              *)
Emit(kind, next) ==
  LET event == Len(emitted) + 1
      kinds == Append(emitted, kind)
  IN
  /\ sinkOpen
  /\ Len(emitted) < MaxEvents
  /\ <<phase, kind, next>> \in Protocol
  /\ emitted' = kinds
  /\ phase' = next
  /\ sub' = [s \in Subs |-> IF sub[s].state = "open" THEN Push(sub[s], event, kinds) ELSE sub[s]]
  /\ ext' = [x \in Exts |-> TrySend(ext[x], event)]
  /\ UNCHANGED sinkOpen

(* close_sender. *)
Closed(s) == Notified([s EXCEPT !.state = "closed"])

(* Dropping the sink closes the subscribers and drops the senders. *)
DropSink ==
  /\ sinkOpen
  /\ sinkOpen' = FALSE
  /\ sub' = [s \in Subs |-> IF sub[s].state = "open" THEN Closed(sub[s]) ELSE sub[s]]
  /\ ext' = [x \in Exts |-> [ext[x] EXCEPT !.tx = FALSE]]
  /\ UNCHANGED <<emitted, phase>>

-----------------------------------------------------------------------------
(* recv: the lock scope, then the await of the Notified future.            *)

Live(s) == sub[s].state \in {"open", "closed"}

(* Pops the oldest event; try_recv is the same step without the wait. *)
RecvTake(s) ==
  /\ Live(s) /\ sub[s].recv \in {"out", "check"}
  /\ sub[s].queue # <<>>
  /\ sub' = [sub EXCEPT ![s].queue = Tail(@), ![s].recv = "out",
                        ![s].received = Append(@, Head(sub[s].queue))]
  /\ UNCHANGED <<emitted, phase, sinkOpen, ext>>

(* Closed and drained: recv returns None. *)
RecvNone(s) ==
  /\ sub[s].recv = "check"
  /\ sub[s].queue = <<>> /\ sub[s].state = "closed"
  /\ sub' = [sub EXCEPT ![s].recv = "out"]
  /\ UNCHANGED <<emitted, phase, sinkOpen, ext>>

(* Nothing buffered: recv goes on to await. *)
RecvWait(s) ==
  /\ Live(s) /\ sub[s].recv \in {"out", "check"}
  /\ sub[s].queue = <<>> /\ sub[s].state = "open"
  /\ sub' = [sub EXCEPT ![s].recv = "await"]
  /\ UNCHANGED <<emitted, phase, sinkOpen, ext>>

(* The await consumes the permit and the loop looks again. *)
RecvWake(s) ==
  /\ Live(s) /\ sub[s].recv = "await"
  /\ sub[s].permit
  /\ sub' = [sub EXCEPT ![s].recv = "check", ![s].permit = FALSE]
  /\ UNCHANGED <<emitted, phase, sinkOpen, ext>>

(* The recv future is dropped while it waits; Notified hands its permit back. *)
RecvCancel(s) ==
  /\ Live(s) /\ sub[s].recv = "await"
  /\ sub' = [sub EXCEPT ![s].recv = "out"]
  /\ UNCHANGED <<emitted, phase, sinkOpen, ext>>

(* close_receiver, when the handle is dropped. *)
Unsubscribe(s) ==
  /\ Live(s) /\ sub[s].recv = "out"
  /\ sub' = [sub EXCEPT ![s].state = "gone", ![s].queue = <<>>, ![s].permit = TRUE]
  /\ UNCHANGED <<emitted, phase, sinkOpen, ext>>

-----------------------------------------------------------------------------

ExtRecv(x) ==
  /\ ext[x].rx /\ ext[x].buffer # <<>>
  /\ ext' = [ext EXCEPT ![x].buffer = Tail(@), ![x].received = Append(@, Head(ext[x].buffer))]
  /\ UNCHANGED <<emitted, phase, sinkOpen, sub>>

(* The channel yields None once its sender is gone and its buffer drained. *)
MayEnd(x) == ~x.tx /\ x.buffer = <<>>

(* The single lag signal has not been delivered yet. *)
OwesLag(x) == x.lagged /\ ~x.emittedLag

ExtEnd(x) ==
  /\ ext[x].rx /\ MayEnd(ext[x])
  /\ \/ /\ OwesLag(ext[x])
        /\ ext[x].lags < 2
        /\ ext' = [ext EXCEPT ![x].emittedLag = TRUE, ![x].lags = @ + 1]
     \/ /\ ~OwesLag(ext[x])
        /\ ext' = [ext EXCEPT ![x].ended = TRUE]
  /\ UNCHANGED <<emitted, phase, sinkOpen, sub>>

(* The extension drops its subscription. *)
ExtUnsubscribe(x) ==
  /\ ext[x].rx
  /\ ext' = [ext EXCEPT ![x].rx = FALSE, ![x].buffer = <<>>]
  /\ UNCHANGED <<emitted, phase, sinkOpen, sub>>

-----------------------------------------------------------------------------

RecvStep(s) == RecvTake(s) \/ RecvNone(s) \/ RecvWake(s)

Next ==
  \/ \E t \in Protocol : Emit(t[2], t[3])
  \/ DropSink
  \/ \E s \in Subs : \/ Subscribe(s) \/ RecvTake(s) \/ RecvNone(s) \/ RecvWait(s)
                     \/ RecvWake(s) \/ RecvCancel(s) \/ Unsubscribe(s)
  \/ \E x \in Exts : SubscribeExtension(x) \/ ExtRecv(x) \/ ExtEnd(x) \/ ExtUnsubscribe(x)

Spec == Init /\ [][Next]_vars

(* A task blocked in recv is polled once it has been woken. *)
FairSpec == Spec /\ \A s \in Subs : WF_vars(sub[s].recv # "out" /\ RecvStep(s))

-----------------------------------------------------------------------------
(* Properties. *)

Subscriber ==
  [state: {"none", "open", "closed", "gone"}, queue: Seq(Nat), lagged: BOOLEAN,
   permit: BOOLEAN, recv: {"out", "check", "await"}, received: Seq(Nat), from: Nat]

Extension ==
  [tx: BOOLEAN, rx: BOOLEAN, buffer: Seq(Nat), lagged: BOOLEAN, emittedLag: BOOLEAN,
   lags: Nat, ended: BOOLEAN, received: Seq(Nat), from: Nat]

(* Every variable holds a value of its type in bus.rs. *)
TypeOK ==
  /\ emitted \in Seq(Kinds)
  /\ phase \in LoopPhases
  /\ sinkOpen \in BOOLEAN
  /\ sub \in [Subs -> Subscriber]
  /\ ext \in [Exts -> Extension]

(* What a handle has returned and still holds. *)
Delivered(s) == sub[s].received \o sub[s].queue

(* A loss is never silent: a subscriber that is not lagged has been given   *)
(* every event emitted since it subscribed.                                 *)
LossIsObservable ==
  \A s \in Subs : sub[s].state = "open" /\ ~sub[s].lagged =>
    Delivered(s) = [i \in 1..(Len(emitted) - sub[s].from) |-> sub[s].from + i]

(* The events of a set of kinds emitted since a subscription. *)
Since(s, kinds) == {i \in sub[s].from + 1 .. Len(emitted) : emitted[i] \in kinds}

(* The newest event of some kinds is still deliverable, or was delivered. *)
NewestRetained(s, kinds) ==
  Since(s, kinds) # {} => \E i \in DOMAIN Delivered(s) : Delivered(s)[i] = Max(Since(s, kinds))

(* A stalled consumer can still rebuild: the newest run terminal (MessageEnd *)
(* or AgentEnd) survives any overflow.                                       *)
NewestTerminalRetained ==
  \A s \in Subs : sub[s].state = "open" =>
    NewestRetained(s, {"assistantEnd", "resultEnd", "agentEnd"})

(* "The newest assistant and agent terminal events remain deliverable"       *)
(* (AgentEventSink::subscribe).                                              *)
NewestAssistantRetained ==
  \A s \in Subs : sub[s].state = "open" =>
    NewestRetained(s, {"assistantEnd"}) /\ NewestRetained(s, {"agentEnd"})

(* A waiting recv returns once an event is buffered or the sink is dropped,  *)
(* unless the wait itself is abandoned.                                      *)
ReceiverReturns ==
  \A s \in Subs : (sub[s].recv = "await" /\ (sub[s].queue # <<>> \/ sub[s].state = "closed"))
                    ~> sub[s].recv = "out"

(* An extension gets an unbroken run of events from its subscription on.     *)
(* After it has been told that it ended, it has either received everything   *)
(* or been told exactly once, last, that it lagged.                          *)
ExtensionContract ==
  \A x \in Exts :
    LET got == ext[x].received \o ext[x].buffer
        expected == [i \in 1..Len(got) |-> ext[x].from + i]
    IN ext[x].rx =>
         /\ got = expected
         /\ ext[x].lags <= 1
         /\ ext[x].lags = 1 => ext[x].buffer = <<>> /\ ext[x].from + Len(got) < Len(emitted)
         /\ ext[x].ended =>
              (ext[x].lags = 1 <=> ext[x].from + Len(got) < Len(emitted))
=============================================================================
