--------------------------- MODULE ProviderStream ---------------------------
(***************************************************************************)
(* One provider stream: the drain task of crates/pi-agent/src/drain.rs and *)
(* its consumer, stream_assistant_response and consume_drain_items of      *)
(* crates/pi-agent/src/run.rs.                                             *)
(*                                                                         *)
(* The drain reads the provider, publishes partials to a watch channel and *)
(* forwards items through a bounded channel.  The consumer races the       *)
(* channel against the run's token, finalizes once, drops the receiver,    *)
(* joins the drain and clears the watch.                                   *)
(***************************************************************************)
EXTENDS Naturals, Sequences

CONSTANTS
  Capacity,    \* DRAIN_EVENT_CAPACITY
  MaxItems     \* items the provider yields

ASSUME ProviderStreamAssumption == Capacity \in Nat \ {0} /\ MaxItems \in Nat

VARIABLES
  cancelled,   \* the run's token; the drain holds a child of it
  produced,    \* what the provider has yielded
  drain,       \* "next", "send", "exited"
  channel,     \* items sent and not received
  receiver,    \* the consumer still holds the receiver
  watch,       \* the partial watch holds a message
  loop,        \* the consumer's position
  consumed,    \* items the consumer has received
  item,        \* the item it works on, "closed" for the end of the channel
  added,       \* added_partial: message_start has been published
  outcome      \* stop reason of the final message, or "none"

drainVars == <<produced, drain>>
loopVars == <<loop, consumed, item, added, outcome>>
vars == <<cancelled, drainVars, channel, receiver, watch, loopVars>>

(* Events are Start, a delta of any kind, Done and Error; infra is the     *)
(* stream's Err.                                                           *)
Items == {"start", "delta", "done", "error", "infra"}

(* is_terminal_event, and the first Err. *)
IsFinal(it) == it \in {"done", "error", "infra"}

Init ==
  /\ cancelled = FALSE
  /\ produced = <<>> /\ drain = "next"
  /\ channel = <<>> /\ receiver = TRUE
  /\ watch = FALSE
  /\ loop = "recv" /\ consumed = <<>> /\ item = "closed"
  /\ added = FALSE /\ outcome = "none"

Cancel ==
  /\ ~cancelled /\ loop # "returned"
  /\ cancelled' = TRUE
  /\ UNCHANGED <<drainVars, channel, receiver, watch, loopVars>>

-----------------------------------------------------------------------------
(* run_drain. *)

(* The provider yields an item; a message goes to the watch first.  A      *)
(* provider opens with Start, and nothing keeps it from going on after a   *)
(* terminal.                                                               *)
DrainNext(it) ==
  /\ drain = "next"
  /\ Len(produced) < MaxItems
  /\ it = "start" => produced = <<>>
  /\ produced' = Append(produced, it)
  /\ watch' = (watch \/ it # "infra")
  /\ drain' = "send"
  /\ UNCHANGED <<cancelled, channel, receiver, loopVars>>

(* The provider closes its stream. *)
DrainEnd ==
  /\ drain = "next"
  /\ drain' = "exited"
  /\ UNCHANGED <<cancelled, produced, channel, receiver, watch, loopVars>>

(* The token ends both selects of the drain. *)
DrainStops == cancelled /\ drain \in {"next", "send"}

DrainCancelled ==
  /\ DrainStops
  /\ drain' = "exited"
  /\ UNCHANGED <<cancelled, produced, channel, receiver, watch, loopVars>>

(* send_item: waits for room; a closed receiver or a final ends the drain. *)
DrainSend ==
  LET it == produced[Len(produced)] IN
  /\ drain = "send"
  /\ \/ /\ receiver /\ Len(channel) < Capacity
        /\ channel' = Append(channel, it)
        /\ drain' = IF IsFinal(it) THEN "exited" ELSE "next"
     \/ ~receiver /\ drain' = "exited" /\ UNCHANGED channel
  /\ UNCHANGED <<cancelled, produced, receiver, watch, loopVars>>

-----------------------------------------------------------------------------
(* consume_drain_items. *)

(* finalize_assistant: message_start if the stream had none, message_end. *)
Finalize(stop) ==
  /\ outcome' = stop
  /\ loop' = "drop"
  /\ UNCHANGED <<consumed, item, added>>

(* The token wins the select. *)
LoopCancelled ==
  /\ loop = "recv" /\ cancelled
  /\ Finalize("aborted")
  /\ UNCHANGED <<cancelled, drainVars, channel, receiver, watch>>

(* The select received an item, or learned that the drain is gone. *)
LoopRecv ==
  /\ loop = "recv"
  /\ \/ /\ channel # <<>>
        /\ item' = Head(channel)
        /\ channel' = Tail(channel)
        /\ consumed' = Append(consumed, Head(channel))
     \/ /\ channel = <<>> /\ drain = "exited"
        /\ item' = "closed"
        /\ UNCHANGED <<channel, consumed>>
  /\ loop' = "got"
  /\ UNCHANGED <<cancelled, drainVars, receiver, watch, added, outcome>>

(* Cancellation owns the outcome even after the select chose the item. *)
TokenWins == cancelled

(* synthesize_stream_failure reads the token once more. *)
SynthesizedStops == IF cancelled THEN {"aborted"} ELSE {"error"}

LoopHandle ==
  /\ loop = "got"
  /\ \/ TokenWins /\ Finalize("aborted")
     \/ ~TokenWins /\ item = "done" /\ Finalize("done")
     \/ ~TokenWins /\ item = "error" /\ Finalize("error")
     \/ /\ ~TokenWins /\ item \in {"infra", "closed"}
        /\ \E stop \in SynthesizedStops : Finalize(stop)
     \/ /\ ~TokenWins /\ item \in {"start", "delta"}
        /\ added' = (added \/ item = "start")
        /\ loop' = "recv"
        /\ UNCHANGED <<consumed, item, outcome>>
  /\ UNCHANGED <<cancelled, drainVars, channel, receiver, watch>>

-----------------------------------------------------------------------------
(* The end of stream_assistant_response. *)

DropReceiver ==
  /\ loop = "drop"
  /\ receiver' = FALSE
  /\ channel' = <<>>
  /\ loop' = "join"
  /\ UNCHANGED <<cancelled, drainVars, watch, consumed, item, added, outcome>>

(* Mutant: the watch is cleared without joining the drain. *)
Joined_Never == TRUE

(* drain_handle.await. *)
Joined == drain = "exited"

JoinAndClear ==
  /\ loop = "join" /\ Joined
  /\ watch' = FALSE
  /\ loop' = "returned"
  /\ UNCHANGED <<cancelled, drainVars, channel, receiver, consumed, item, added, outcome>>

-----------------------------------------------------------------------------

DrainStep == DrainCancelled \/ DrainSend
LoopStep == LoopCancelled \/ LoopRecv \/ LoopHandle \/ DropReceiver \/ JoinAndClear

Next ==
  \/ Cancel
  \/ \E it \in Items : DrainNext(it)
  \/ DrainEnd \/ DrainStep \/ LoopStep

(* The tasks run; the provider owes nothing. *)
Spec == Init /\ [][Next]_vars /\ WF_vars(DrainStep) /\ WF_vars(LoopStep)

-----------------------------------------------------------------------------
(* Properties. *)

(* Every variable holds a value of its type in drain.rs and run.rs. *)
TypeOK ==
  /\ cancelled \in BOOLEAN
  /\ produced \in Seq(Items) /\ drain \in {"next", "send", "exited"}
  /\ channel \in Seq(Items) /\ receiver \in BOOLEAN
  /\ watch \in BOOLEAN
  /\ loop \in {"recv", "got", "drop", "join", "returned"}
  /\ consumed \in Seq(Items) /\ item \in Items \cup {"closed"}
  /\ added \in BOOLEAN
  /\ outcome \in {"none", "done", "error", "aborted"}

(* The consumer as the contract sees it. *)
Phase ==
  CASE loop \in {"recv", "got"} -> IF added THEN "streaming" ELSE "open"
    [] loop \in {"drop", "join"} -> "final"
    [] OTHER -> "returned"

Contract == INSTANCE StreamContract WITH phase <- Phase

(* The stream keeps the contract the turn loop relies on, liveness          *)
(* included: a cancelled request returns whatever the provider does, and no *)
(* partial is published once it has returned.                               *)
KeepsContract == Contract!Spec
=============================================================================
