------------------------------ MODULE AgentRun ------------------------------
(***************************************************************************)
(* The agent and its turn loop: crates/pi-agent/src/agent.rs (Agent,       *)
(* start_run, begin_continue, run_lifecycle, finish_run) over              *)
(* crates/pi-agent/src/run.rs (run_agent_loop, run_loop, complete_turn,    *)
(* prepare_continuation).                                                  *)
(*                                                                         *)
(* Callers are the tasks that hold a clone of the Agent.  A caller that    *)
(* starts a run executes it in its own task, so the locals of run_loop are *)
(* a record loc[c] and its position is pc[c].  Between two positions the   *)
(* code awaits or releases its locks, and every other caller may steer,    *)
(* abort, reset, start a run or wait.                                      *)
(*                                                                         *)
(* The provider stream and the tool batch are single steps here; they are  *)
(* detailed in ProviderStream and ToolBatch.                               *)
(***************************************************************************)
EXTENDS Naturals, Sequences, FiniteSets, PendingQueue

CONSTANTS
  Callers,        \* tasks holding the agent
  Waiters,        \* tasks that call wait_for_idle
  Msgs,           \* user messages, each submitted at most once
  NoCaller,       \* run.active = None
  NoMsg,          \* a transcript entry that carries no user message
  MaxTurns,       \* turns that may ask for another: by a tool call or a hook
  MaxRuns,        \* runs started in a behaviour
  QueueModes,     \* drain modes the callers switch between
  HookPowers      \* what hooks do beyond returning: see Powers

(* A hook may return Err, hand back messages to inject, or replace the     *)
(* context of the next request (compaction at a turn boundary).            *)
Powers == {"fail", "inject", "replace"}

ASSUME AgentRunAssumption ==
  /\ NoCaller \notin Callers
  /\ NoMsg \notin Msgs
  /\ MaxTurns \in Nat
  /\ MaxRuns \in Nat
  /\ QueueModes \subseteq QueueMode
  /\ HookPowers \subseteq Powers

VARIABLES
  active,         \* RunState.active: the caller whose token is stored
  isStreaming,    \* RunState.is_streaming
  cancelled,      \* the cancellation token of each caller's run
  agent,          \* AgentState: messages, is_streaming, streaming_message, error
  steering,       \* the two queues and their modes
  followUp,
  steeringMode,
  followUpMode,
  partial,        \* the watch channel holds a partial assistant message
  pc,             \* where each caller is in run_lifecycle
  loc,            \* the locals of each caller's run
  obs,            \* what a lossless subscriber has seen of the event protocol
  waiter,         \* position of each wait_for_idle call
  notified,       \* a Notified future that has been woken
  sent,           \* messages submitted so far
  steered,        \* the messages passed to steer, in order
  cleared,        \* messages removed by clear_queues or reset
  dropped,        \* messages a run drained and never appended
  runs            \* runs started so far

runVars == <<active, isStreaming, cancelled>>
queueVars == <<steering, followUp, steeringMode, followUpMode>>
waitVars == <<waiter, notified>>
histVars == <<sent, steered, cleared, dropped, runs>>
vars == <<runVars, agent, queueVars, partial, pc, loc, obs, waitVars, histVars>>

-----------------------------------------------------------------------------
(* Transcript entries.  "done" stands for the stop reasons stop and toolUse. *)

Stops == {"done", "length", "error", "aborted"}
Entry == [role: {"user"}, id: Msgs \cup {NoMsg}]
           \cup [role: {"assistant"}, id: Stops]
           \cup [role: {"toolResult"}, id: {NoMsg}]
User(m) == [role |-> "user", id |-> m]
Assistant(stop) == [role |-> "assistant", id |-> stop]
(* One entry stands for the ordered tool results of a batch. *)
ToolResults == [role |-> "toolResult", id |-> NoMsg]
(* What a compaction leaves of the messages it replaces. *)
Summary == [role |-> "user", id |-> NoMsg]
Users(q) == [i \in DOMAIN q |-> User(q[i])]
TailIsAssistant(s) == s # <<>> /\ s[Len(s)].role = "assistant"
Elements(s) == {s[i] : i \in DOMAIN s}
(* The user messages of a transcript. *)
UserIds(s) == {s[i].id : i \in {j \in DOMAIN s : s[j].role = "user"}} \ {NoMsg}

(* The locals of run_lifecycle and run_loop.  base, seed, since and        *)
(* promised are history: the transcript at the snapshot, the context last  *)
(* installed with the length of the delta at that time, and a Continue     *)
(* decision that no request has fulfilled yet.                             *)
NoRun ==
  [mode |-> "prompt", skip |-> FALSE, prompts |-> <<>>, pending |-> <<>>,
   prepared |-> <<>>, ctx |-> <<>>, new |-> <<>>, tracked |-> <<>>, added |-> FALSE,
   stop |-> "done", terminal |-> FALSE, more |-> TRUE, explicit |-> FALSE, turns |-> 0,
   base |-> <<>>, seed |-> <<>>, since |-> 0, promised |-> FALSE]

Local ==
  [mode: {"prompt", "continue"}, skip: BOOLEAN, prompts: Seq(Msgs), pending: Seq(Msgs),
   prepared: Seq(Msgs), ctx: Seq(Entry), new: Seq(Entry), tracked: Seq(Entry),
   added: BOOLEAN, stop: Stops, terminal: BOOLEAN, more: BOOLEAN, explicit: BOOLEAN,
   turns: Nat, base: Seq(Entry), seed: Seq(Entry), since: Nat, promised: BOOLEAN]

PCs == {"idle", "flags", "launch", "poll", "inject", "prepare", "prepared", "polled",
        "request", "stream", "terminal", "tools", "finish", "steer", "steered",
        "follow", "failed", "ended", "notify"}

(* The caller owns the active token. *)
Owning == PCs \ {"idle", "notify"}
(* run_agent_loop has emitted agent_start for the caller's run. *)
Launched == Owning \ {"flags", "launch"}

-----------------------------------------------------------------------------
(* The lifecycle protocol a subscriber folds over the event stream.        *)
(* "cut" is an agent_end that arrived while a turn was open.               *)

Phases == {"idle", "agent", "turn", "message", "cut", "broken"}

Observe(o, event) ==
  CASE event = "agent_start" /\ o \in {"idle", "cut"} -> "agent"
    [] event = "turn_start" /\ o = "agent" -> "turn"
    [] event = "message_start" /\ o = "turn" -> "message"
    [] event = "message_end" /\ o = "message" -> "turn"
    [] event = "turn_end" /\ o = "turn" -> "agent"
    [] event = "agent_end" /\ o = "agent" -> "idle"
    [] event = "agent_end" /\ o = "turn" -> "cut"
    [] OTHER -> "broken"

(* message_start and message_end of every message of a sequence. *)
ObservePairs(o, msgs) ==
  IF msgs = <<>> THEN o ELSE Observe(Observe(o, "message_start"), "message_end")

-----------------------------------------------------------------------------

Init ==
  /\ active = NoCaller
  /\ isStreaming = FALSE
  /\ cancelled = [c \in Callers |-> FALSE]
  /\ agent = [messages |-> <<>>, streaming |-> FALSE, message |-> FALSE, error |-> FALSE]
  /\ steering = <<>> /\ followUp = <<>>
  /\ steeringMode = OneAtATime /\ followUpMode = OneAtATime
  /\ partial = FALSE
  /\ pc = [c \in Callers |-> "idle"]
  /\ loc = [c \in Callers |-> NoRun]
  /\ obs = "idle"
  /\ waiter = [w \in Waiters |-> "out"]
  /\ notified = [w \in Waiters |-> FALSE]
  /\ sent = {} /\ steered = <<>> /\ cleared = {} /\ dropped = {}
  /\ runs = 0

-----------------------------------------------------------------------------
(* Operations any task may call at any time. *)

(* Mutant: a steering message jumps the queue. *)
Steer_Front(m) ==
  /\ m \in Msgs \ sent
  /\ sent' = sent \cup {m}
  /\ steered' = Append(steered, m)
  /\ steering' = <<m>> \o steering
  /\ UNCHANGED <<runVars, agent, followUp, steeringMode, followUpMode, partial, pc, loc,
                 obs, waitVars, cleared, dropped, runs>>

(* steer and follow_up. *)
Steer(m) ==
  /\ m \in Msgs \ sent
  /\ sent' = sent \cup {m}
  /\ steered' = Append(steered, m)
  /\ steering' = Append(steering, m)
  /\ UNCHANGED <<runVars, agent, followUp, steeringMode, followUpMode, partial, pc, loc,
                 obs, waitVars, cleared, dropped, runs>>

FollowUp(m) ==
  /\ m \in Msgs \ sent
  /\ sent' = sent \cup {m}
  /\ followUp' = Append(followUp, m)
  /\ UNCHANGED <<runVars, agent, steering, steeringMode, followUpMode, partial, pc, loc,
                 obs, waitVars, steered, cleared, dropped, runs>>

(* set_steering_mode: the next drain uses the new mode. *)
SetSteeringMode(mode) ==
  /\ steeringMode # mode
  /\ steeringMode' = mode
  /\ UNCHANGED <<runVars, agent, steering, followUp, followUpMode, partial, pc, loc, obs,
                 waitVars, histVars>>

SetFollowUpMode(mode) ==
  /\ followUpMode # mode
  /\ followUpMode' = mode
  /\ UNCHANGED <<runVars, agent, steering, followUp, steeringMode, partial, pc, loc, obs,
                 waitVars, histVars>>

ClearQueues ==
  /\ steering # <<>> \/ followUp # <<>>
  /\ steering' = <<>> /\ followUp' = <<>>
  /\ cleared' = cleared \cup Elements(steering) \cup Elements(followUp)
  /\ UNCHANGED <<runVars, agent, steeringMode, followUpMode, partial, pc, loc, obs,
                 waitVars, sent, steered, dropped, runs>>

(* Cancels the token of the active run; the queues are not touched. *)
Abort ==
  /\ active # NoCaller
  /\ ~cancelled[active]
  /\ cancelled' = [cancelled EXCEPT ![active] = TRUE]
  /\ UNCHANGED <<active, isStreaming, agent, queueVars, partial, pc, loc, obs, waitVars,
                 histVars>>

(* Mutant: the active check of start_run, begin_continue and reset is dropped. *)
NoActiveRun_Unchecked == TRUE

(* The check under the run lock that start_run, begin_continue and reset share. *)
NoActiveRun == active = NoCaller

(* reset holds the run lock throughout, so it is one step. *)
Reset ==
  /\ NoActiveRun
  /\ agent.messages # <<>> \/ steering # <<>> \/ followUp # <<>> \/ agent.error
  /\ agent' = [messages |-> <<>>, streaming |-> FALSE, message |-> FALSE, error |-> FALSE]
  /\ steering' = <<>> /\ followUp' = <<>>
  /\ cleared' = cleared \cup Elements(steering) \cup Elements(followUp)
                 \cup UserIds(agent.messages)
  /\ partial' = FALSE
  /\ isStreaming' = FALSE
  /\ active' = NoCaller
  /\ UNCHANGED <<cancelled, steeringMode, followUpMode, pc, loc, obs, waitVars, sent,
                 steered, dropped, runs>>

(* push_message, pop_last_if_assistant, replace_last_assistant and         *)
(* replace_messages do not look at the run; the guard is their contract,   *)
(* "Callers must serialize mutations with the prompt lifecycle".           *)
PushMessage(m) ==
  /\ active = NoCaller
  /\ m \in Msgs \ sent
  /\ sent' = sent \cup {m}
  /\ agent' = [agent EXCEPT !.messages = Append(@, User(m))]
  /\ UNCHANGED <<runVars, queueVars, partial, pc, loc, obs, waitVars, steered, cleared, dropped,
                 runs>>

PopLastIfAssistant ==
  /\ active = NoCaller
  /\ TailIsAssistant(agent.messages)
  /\ agent' = [agent EXCEPT !.messages = SubSeq(@, 1, Len(@) - 1)]
  /\ UNCHANGED <<runVars, queueVars, partial, pc, loc, obs, waitVars, histVars>>

ReplaceLastAssistant ==
  /\ active = NoCaller
  /\ TailIsAssistant(agent.messages)
  /\ agent' = [agent EXCEPT !.messages = [@ EXCEPT ![Len(agent.messages)] = Assistant("done")]]
  /\ UNCHANGED <<runVars, queueVars, partial, pc, loc, obs, waitVars, histVars>>

ReplaceMessages ==
  /\ active = NoCaller
  /\ Len(agent.messages) > 1
  /\ agent' = [agent EXCEPT !.messages = <<Summary>>]
  /\ cleared' = cleared \cup UserIds(agent.messages)
  /\ UNCHANGED <<runVars, queueVars, partial, pc, loc, obs, waitVars, sent, steered, dropped,
                 runs>>

-----------------------------------------------------------------------------
(* Starting a run. *)

Goto(c, next) == pc' = [pc EXCEPT ![c] = next]

(* The state flags start_run and begin_continue set under the state lock. *)
Flagged(a) == [a EXCEPT !.streaming = TRUE, !.message = FALSE, !.error = FALSE]

(* Either path installs a fresh token for its own run. *)
Acquire(c) ==
  /\ pc[c] = "idle"
  /\ NoActiveRun
  /\ runs < MaxRuns
  /\ runs' = runs + 1
  /\ active' = c
  /\ isStreaming' = TRUE
  /\ cancelled' = [cancelled EXCEPT ![c] = FALSE]

(* start_run sets the run flags and the state flags in two lock scopes. *)
Prompt(c, m) ==
  /\ Acquire(c)
  /\ m \in Msgs \ sent
  /\ sent' = sent \cup {m}
  /\ loc' = [loc EXCEPT ![c] = [NoRun EXCEPT !.prompts = <<m>>]]
  /\ Goto(c, "flags")
  /\ UNCHANGED <<agent, queueVars, partial, obs, waitVars, steered, cleared, dropped>>

SetFlags(c) ==
  /\ pc[c] = "flags"
  /\ agent' = Flagged(agent)
  /\ Goto(c, "launch")
  /\ UNCHANGED <<runVars, queueVars, partial, loc, obs, waitVars, histVars>>

(* begin_continue holds the run lock across validation, draining and the   *)
(* flags.  An assistant tail runs queued steering as a prompt whose first  *)
(* steering poll is skipped, or else queued follow-ups; with neither, and  *)
(* with an empty transcript, it returns Err and changes nothing.           *)
ContinueRun(c) ==
  /\ Acquire(c)
  /\ agent.messages # <<>>
  /\ agent' = Flagged(agent)
  /\ \/ /\ ~TailIsAssistant(agent.messages)
        /\ loc' = [loc EXCEPT ![c] = [NoRun EXCEPT !.mode = "continue"]]
        /\ UNCHANGED <<steering, followUp>>
     \/ /\ TailIsAssistant(agent.messages)
        /\ steering # <<>>
        /\ loc' = [loc EXCEPT ![c] = [NoRun EXCEPT !.prompts = Drained(steering, steeringMode),
                                                   !.skip = TRUE]]
        /\ steering' = Remaining(steering, steeringMode)
        /\ UNCHANGED followUp
     \/ /\ TailIsAssistant(agent.messages)
        /\ steering = <<>>
        /\ followUp # <<>>
        /\ loc' = [loc EXCEPT ![c] = [NoRun EXCEPT !.prompts = Drained(followUp, followUpMode)]]
        /\ followUp' = Remaining(followUp, followUpMode)
        /\ UNCHANGED steering
  /\ Goto(c, "launch")
  /\ UNCHANGED <<steeringMode, followUpMode, partial, obs, waitVars, sent, steered, cleared,
                 dropped>>

-----------------------------------------------------------------------------
(* What the loop does with messages. *)

(* AgentState.reduce of the message_end events the sink publishes. *)
Published(a, entries) == [a EXCEPT !.messages = @ \o entries, !.message = FALSE]

(* TrackingSink on the same events. *)
Tracked(l, entries) ==
  [l EXCEPT !.tracked = @ \o entries, !.terminal = @ \/ TailIsAssistant(entries)]

(* Mutant: a message reaches the request context but not the run's delta. *)
Appended_NoDelta(l, entries) == [l EXCEPT !.ctx = @ \o entries]

(* append_messages, append_tool_results: the loop's context and its delta. *)
Appended(l, entries) == [l EXCEPT !.ctx = @ \o entries, !.new = @ \o entries]

(* A hook replaces the context of the requests that follow. *)
Replaced(l) == [l EXCEPT !.ctx = <<Summary>>, !.seed = <<Summary>>, !.since = Len(l.tracked)]

(* Mutant: a cancelled loop returns without agent_end. *)
End_Silent(c) ==
  /\ Goto(c, "ended")
  /\ UNCHANGED <<agent, obs, loc>>

(* The run is over: agent_end has been emitted, finish_run is next. *)
End(c) ==
  /\ obs' = Observe(obs, "agent_end")
  /\ agent' = [agent EXCEPT !.message = FALSE]
  /\ Goto(c, "ended")
  /\ UNCHANGED loc

(* A hook of the loop returns Err, which ? carries out of the loop. *)
HookFails(c) ==
  /\ "fail" \in HookPowers
  /\ Goto(c, "failed")
  /\ UNCHANGED <<agent, loc, obs>>

(* run_lifecycle takes its snapshots, run_agent_loop or                    *)
(* run_agent_loop_continue opens the run.  The continuation's own checks   *)
(* repeat begin_continue's on the snapshot.                                *)
Launch(c) ==
  LET base == agent.messages
      refused == loc[c].mode = "continue" /\ (base = <<>> \/ TailIsAssistant(base))
      prompts == Users(loc[c].prompts)
      opened == [loc[c] EXCEPT !.prompts = <<>>, !.base = base, !.seed = base, !.ctx = base]
  IN
  /\ pc[c] = "launch"
  /\ partial' = FALSE
  /\ IF refused
     THEN Goto(c, "failed") /\ loc' = [loc EXCEPT ![c] = opened] /\ UNCHANGED <<agent, obs>>
     ELSE /\ obs' = ObservePairs(Observe(Observe(obs, "agent_start"), "turn_start"), prompts)
          /\ agent' = Published(agent, prompts)
          /\ loc' = [loc EXCEPT ![c] = Appended(Tracked(opened, prompts), prompts)]
          /\ Goto(c, "poll")
  /\ UNCHANGED <<runVars, queueVars, waitVars, histVars>>

(* make_steering_hook: the first call of a skip_initial run returns nothing. *)
SkipsPoll(l) == l.skip

(* poll_messages(get_steering_messages) at each of its call sites. *)
PollSteering(c, next) ==
  /\ steering' = IF SkipsPoll(loc[c]) THEN steering ELSE Remaining(steering, steeringMode)
  /\ loc' = [loc EXCEPT ![c] =
               [@ EXCEPT !.pending = IF SkipsPoll(loc[c]) THEN <<>>
                                     ELSE Drained(steering, steeringMode),
                         !.skip = FALSE]]
  /\ Goto(c, next)
  /\ UNCHANGED <<runVars, agent, followUp, steeringMode, followUpMode, partial, obs,
                 waitVars, histVars>>

FirstPoll(c) == pc[c] = "poll" /\ PollSteering(c, "inject")

(* The first turn is already open: its pending messages join it. *)
Inject(c) ==
  LET entries == Users(loc[c].pending) IN
  /\ pc[c] = "inject"
  /\ obs' = ObservePairs(obs, entries)
  /\ agent' = Published(agent, entries)
  /\ loc' = [loc EXCEPT ![c] = [Appended(Tracked(@, entries), entries) EXCEPT !.pending = <<>>]]
  /\ Goto(c, "request")
  /\ UNCHANGED <<runVars, queueVars, partial, waitVars, histVars>>

-----------------------------------------------------------------------------
(* prepare_continuation and the opening of a later turn. *)

(* The prepare_next_turn hook: it may fail, inject a message, replace the context. *)
Prepare(c) ==
  /\ pc[c] = "prepare"
  /\ \/ cancelled[c] /\ End(c) /\ UNCHANGED sent
     \/ ~cancelled[c] /\ HookFails(c) /\ UNCHANGED sent
     \/ /\ ~cancelled[c]
        /\ \E kept \in {TRUE, "replace" \notin HookPowers} :
             \E injected \in {<<>>} \cup
                  (IF "inject" \in HookPowers THEN {<<m>> : m \in Msgs \ sent} ELSE {}) :
               /\ loc' = [loc EXCEPT ![c] =
                            [(IF kept THEN @ ELSE Replaced(@)) EXCEPT !.prepared = injected]]
               /\ sent' = sent \cup Elements(injected)
        /\ Goto(c, "prepared")
        /\ UNCHANGED <<agent, obs>>
  /\ UNCHANGED <<runVars, queueVars, partial, waitVars, steered, cleared, dropped, runs>>

(* turn_start, then the prepared messages, then the polled ones. *)
OpenTurn(c) ==
  LET entries == Users(loc[c].prepared \o loc[c].pending) IN
  /\ obs' = ObservePairs(Observe(obs, "turn_start"), entries)
  /\ agent' = Published(agent, entries)
  /\ loc' = [loc EXCEPT ![c] = [Appended(Tracked(@, entries), entries)
                                  EXCEPT !.pending = <<>>, !.prepared = <<>>]]
  /\ Goto(c, "request")

(* Steering that arrived during preparation joins the request unless a     *)
(* delivery is already pending.                                            *)
Prepared(c) ==
  /\ pc[c] = "prepared"
  /\ \/ /\ cancelled[c] /\ End(c)
        /\ UNCHANGED <<runVars, queueVars, partial, waitVars, histVars>>
     \/ /\ ~cancelled[c] /\ loc[c].pending # <<>> /\ OpenTurn(c)
        /\ UNCHANGED <<runVars, queueVars, partial, waitVars, histVars>>
     \/ ~cancelled[c] /\ loc[c].pending = <<>> /\ PollSteering(c, "polled")

Polled(c) ==
  /\ pc[c] = "polled"
  /\ \/ cancelled[c] /\ End(c)
     \/ ~cancelled[c] /\ OpenTurn(c)
  /\ UNCHANGED <<runVars, queueVars, partial, waitVars, histVars>>

-----------------------------------------------------------------------------
(* One turn: stream_assistant_response and complete_turn. *)

(* prepare_request, transform_context, convert_to_llm and get_api_key. *)
Request(c) ==
  /\ pc[c] = "request"
  /\ \/ HookFails(c)
     \/ /\ \E kept \in {TRUE, "replace" \notin HookPowers} :
             loc' = [loc EXCEPT ![c] = [(IF kept THEN @ ELSE Replaced(@))
                                          EXCEPT !.added = FALSE, !.promised = FALSE]]
        /\ Goto(c, "stream")
        /\ UNCHANGED <<agent, obs>>
  /\ UNCHANGED <<runVars, queueVars, partial, waitVars, histVars>>

(* The provider's Start: a partial joins the context and message_start is  *)
(* published.  A provider sends at most one.                               *)
StreamStart(c) ==
  /\ pc[c] = "stream"
  /\ ~cancelled[c]
  /\ ~loc[c].added
  /\ loc' = [loc EXCEPT ![c].added = TRUE, ![c].ctx = Append(@, Assistant("done"))]
  /\ obs' = Observe(obs, "message_start")
  /\ agent' = [agent EXCEPT !.message = TRUE]
  /\ partial' = TRUE
  /\ UNCHANGED <<runVars, queueVars, pc, waitVars, histVars>>

(* Mutant: the stream's select does not listen to the token. *)
Outcomes_Stuck(c) == IF cancelled[c] THEN {} ELSE Stops

(* Cancellation owns the terminal outcome. *)
Outcomes(c) == IF cancelled[c] THEN {"aborted"} ELSE Stops

(* Mutant: the final message is pushed although the partial is in place. *)
Finalized_Pushed(l, final) == Append(l.ctx, final)

(* finalize_assistant: the final message replaces the partial it finalizes. *)
Finalized(l, final) ==
  IF l.added THEN [l.ctx EXCEPT ![Len(l.ctx)] = final] ELSE Append(l.ctx, final)

(* finalize_assistant ends the stream, clear_partial follows the join of   *)
(* the drain task, and complete_turn records the message and branches.     *)
Finalize(c, stop, calls) ==
  LET final == Assistant(stop)
      opened == IF loc[c].added THEN obs ELSE Observe(obs, "message_start")
  IN
  /\ pc[c] = "stream"
  /\ calls => stop \in {"done", "length"} /\ loc[c].turns < MaxTurns
  /\ loc' = [loc EXCEPT ![c] = [Tracked(@, <<final>>)
               EXCEPT !.ctx = Finalized(loc[c], final), !.new = Append(loc[c].new, final),
                      !.added = FALSE, !.stop = stop, !.turns = loc[c].turns + 1,
                      !.more = FALSE]]
  /\ obs' = Observe(opened, "message_end")
  /\ agent' = Published(agent, <<final>>)
  /\ partial' = FALSE
  /\ Goto(c, IF stop \in {"error", "aborted"} THEN "terminal"
             ELSE IF calls THEN "tools" ELSE "finish")
  /\ UNCHANGED <<runVars, queueVars, waitVars, histVars>>

(* finish_terminal_turn: the hook runs, its decision is ignored.  The      *)
(* message of a failed or aborted turn carries an error_message.           *)
Terminal(c) ==
  /\ pc[c] = "terminal"
  /\ \/ HookFails(c)
     \/ /\ obs' = Observe(Observe(obs, "turn_end"), "agent_end")
        /\ agent' = [agent EXCEPT !.message = FALSE, !.error = TRUE]
        /\ Goto(c, "ended")
        /\ UNCHANGED loc
  /\ UNCHANGED <<runVars, queueVars, partial, waitVars, histVars>>

(* execute_tool_calls publishes the results; append_tool_results adds them *)
(* to the context and the delta.  A truncated message never terminates.    *)
Tools(c, terminate) ==
  /\ pc[c] = "tools"
  /\ terminate => loc[c].stop # "length"
  /\ obs' = ObservePairs(obs, <<ToolResults>>)
  /\ agent' = Published(agent, <<ToolResults>>)
  /\ loc' = [loc EXCEPT ![c] = [Appended(Tracked(@, <<ToolResults>>), <<ToolResults>>)
                                  EXCEPT !.more = ~terminate]]
  /\ Goto(c, "finish")
  /\ UNCHANGED <<runVars, queueVars, partial, waitVars, histVars>>

(* The finish_turn hook runs before turn_end; then run_loop decides. *)
FinishTurn(c, decision) ==
  /\ pc[c] = "finish"
  /\ decision = "continue" => loc[c].turns <= MaxTurns
  /\ \/ decision = "none" /\ HookFails(c)
     \/ /\ obs' = IF decision = "end" \/ cancelled[c]
                  THEN Observe(Observe(obs, "turn_end"), "agent_end")
                  ELSE Observe(obs, "turn_end")
        /\ loc' = [loc EXCEPT ![c].explicit = decision = "continue",
                              ![c].promised = decision = "continue"]
        /\ Goto(c, IF decision = "end" \/ cancelled[c] THEN "ended" ELSE "steer")
        /\ UNCHANGED agent
  /\ UNCHANGED <<runVars, queueVars, partial, waitVars, histVars>>

-----------------------------------------------------------------------------
(* Between turns. *)

SteerPoll(c) == pc[c] = "steer" /\ PollSteering(c, "steered")

(* Mutant: polled steering alone does not ask for another turn. *)
NaturalRequest_ToolsOnly(l) == l.more

(* The turn's tools or the polled steering already ask for a request. *)
NaturalRequest(l) == l.more \/ l.pending # <<>>

Steered(c) ==
  /\ pc[c] = "steered"
  /\ \/ cancelled[c] /\ End(c)
     \/ /\ ~cancelled[c]
        /\ loc' = [loc EXCEPT ![c].explicit = @ /\ ~NaturalRequest(loc[c])]
        /\ Goto(c, IF NaturalRequest(loc[c]) THEN "prepare" ELSE "follow")
        /\ UNCHANGED <<agent, obs>>
  /\ UNCHANGED <<runVars, queueVars, partial, waitVars, histVars>>

(* Mutant: a Continue decision is not honoured once the queues are empty. *)
OwesRequest_Never(l) == FALSE

(* A Continue decision that no natural request has satisfied. *)
OwesRequest(l) == l.explicit

(* The follow-up poll of the outer loop, with its three outcomes. *)
FollowUpPoll(c) ==
  LET polled == Drained(followUp, followUpMode) IN
  /\ pc[c] = "follow"
  /\ followUp' = Remaining(followUp, followUpMode)
  /\ \/ polled = <<>> /\ ~OwesRequest(loc[c]) /\ End(c)
     \/ /\ polled # <<>> \/ OwesRequest(loc[c])
        /\ loc' = [loc EXCEPT ![c].pending = polled, ![c].explicit = FALSE, ![c].more = TRUE]
        /\ Goto(c, "prepare")
        /\ UNCHANGED <<agent, obs>>
  /\ UNCHANGED <<runVars, steering, steeringMode, followUpMode, partial, waitVars, histVars>>

-----------------------------------------------------------------------------
(* finish_run. *)

(* The Err branch: the error becomes observable, and an assistant terminal *)
(* is synthesized only when the loop has published none.                   *)
Fail(c) ==
  LET final == Assistant(IF cancelled[c] THEN "aborted" ELSE "error")
      turnEnded == Observe(ObservePairs(obs, <<final>>), "turn_end")
  IN
  /\ pc[c] = "failed"
  /\ partial' = FALSE
  /\ \/ /\ loc[c].terminal
        /\ obs' = Observe(obs, "agent_end")
        /\ agent' = [agent EXCEPT !.message = FALSE, !.error = TRUE]
        /\ UNCHANGED loc
     \/ /\ ~loc[c].terminal
        /\ obs' = Observe(turnEnded, "agent_end")
        /\ agent' = [Published(agent, <<final>>) EXCEPT !.error = TRUE]
        /\ loc' = [loc EXCEPT ![c].tracked = Append(@, final)]
  /\ Goto(c, "ended")
  /\ UNCHANGED <<runVars, queueVars, waitVars, histVars>>

(* AgentState.finish_run. *)
Settled(a) == [a EXCEPT !.streaming = FALSE, !.message = FALSE]

(* One scope under both locks.  The run's locals are dropped with the      *)
(* messages it drained and had not appended.                               *)
Release(c) ==
  /\ pc[c] = "ended"
  /\ partial' = FALSE
  /\ agent' = Settled(agent)
  /\ isStreaming' = FALSE
  /\ active' = NoCaller
  /\ dropped' = dropped \cup Elements(loc[c].pending) \cup Elements(loc[c].prepared)
  /\ loc' = [loc EXCEPT ![c] = NoRun]
  /\ Goto(c, "notify")
  /\ UNCHANGED <<cancelled, queueVars, obs, waitVars, sent, steered, cleared, runs>>

(* Mutant: the Notified future is created when it is awaited. *)
Registered_AtAwait(w) == waiter[w] = "sleep"

(* The Notified future of a wait_for_idle call exists. *)
Registered(w) == waiter[w] \in {"check", "checked", "sleep"}

(* notify_waiters wakes every Notified future that exists. *)
NotifyWaiters(c) ==
  /\ pc[c] = "notify"
  /\ notified' = [w \in Waiters |-> notified[w] \/ Registered(w)]
  /\ Goto(c, "idle")
  /\ UNCHANGED <<runVars, agent, queueVars, partial, loc, obs, waiter, histVars>>

-----------------------------------------------------------------------------
(* wait_for_idle: the Notified future is created before the state is read. *)

WaitArm(w) ==
  /\ waiter[w] \in {"out", "arm"}
  /\ waiter' = [waiter EXCEPT ![w] = "check"]
  /\ notified' = [notified EXCEPT ![w] = FALSE]
  /\ UNCHANGED <<runVars, agent, queueVars, partial, pc, loc, obs, histVars>>

(* The check under the run lock. *)
WaitCheck(w) ==
  /\ waiter[w] = "check"
  /\ waiter' = [waiter EXCEPT ![w] = IF ~isStreaming /\ active = NoCaller THEN "out" ELSE "checked"]
  /\ UNCHANGED <<runVars, agent, queueVars, partial, pc, loc, obs, notified, histVars>>

(* The lock is released and the future awaited. *)
WaitSleep(w) ==
  /\ waiter[w] = "checked"
  /\ waiter' = [waiter EXCEPT ![w] = "sleep"]
  /\ UNCHANGED <<runVars, agent, queueVars, partial, pc, loc, obs, notified, histVars>>

WaitWake(w) ==
  /\ waiter[w] = "sleep"
  /\ notified[w]
  /\ waiter' = [waiter EXCEPT ![w] = "arm"]
  /\ UNCHANGED <<runVars, agent, queueVars, partial, pc, loc, obs, notified, histVars>>

-----------------------------------------------------------------------------

Caller ==
  \/ \E m \in Msgs : Steer(m) \/ FollowUp(m) \/ PushMessage(m)
  \/ \E mode \in QueueModes : SetSteeringMode(mode) \/ SetFollowUpMode(mode)
  \/ ClearQueues \/ Abort \/ Reset
  \/ PopLastIfAssistant \/ ReplaceLastAssistant \/ ReplaceMessages
  \/ \E c \in Callers : ContinueRun(c) \/ \E m \in Msgs : Prompt(c, m)

(* Steps the run takes by itself; hooks are taken to return. *)
LoopStep(c) ==
  \/ SetFlags(c) \/ Launch(c) \/ FirstPoll(c) \/ Inject(c)
  \/ Prepare(c) \/ Prepared(c) \/ Polled(c) \/ Request(c) \/ Terminal(c)
  \/ \E decision \in {"none", "continue", "end"} : FinishTurn(c, decision)
  \/ SteerPoll(c) \/ Steered(c) \/ FollowUpPoll(c)
  \/ Fail(c) \/ Release(c) \/ NotifyWaiters(c)

(* Steps that wait for the provider or for tools. *)
OutsideStep(c) ==
  \/ StreamStart(c)
  \/ \E stop \in Outcomes(c), calls \in BOOLEAN : Finalize(c, stop, calls)
  \/ \E terminate \in BOOLEAN : Tools(c, terminate)

WaitStep(w) ==
  WaitCheck(w) \/ WaitSleep(w) \/ WaitWake(w) \/ (waiter[w] = "arm" /\ WaitArm(w))

Next ==
  \/ Caller
  \/ \E c \in Callers : LoopStep(c) \/ OutsideStep(c)
  \/ \E w \in Waiters : WaitArm(w) \/ WaitCheck(w) \/ WaitSleep(w) \/ WaitWake(w)

Spec == Init /\ [][Next]_vars

(* The executor polls every ready task.  The provider and the tools owe    *)
(* nothing until the run is cancelled: then the selects on the token       *)
(* settle the stream and the batch.                                        *)
Fairness ==
  /\ \A c \in Callers :
       /\ WF_vars(LoopStep(c))
       /\ WF_vars(cancelled[c] /\ OutsideStep(c))
  /\ \A w \in Waiters : WF_vars(WaitStep(w))

FairSpec == Spec /\ Fairness
-----------------------------------------------------------------------------
(* Properties. *)

(* Every variable holds a value of its Rust type: RunState, AgentState, the *)
(* queues, the locals of run_loop and the wait_for_idle futures.            *)
TypeOK ==
  /\ active \in Callers \cup {NoCaller}
  /\ isStreaming \in BOOLEAN
  /\ cancelled \in [Callers -> BOOLEAN]
  /\ agent \in [messages: Seq(Entry), streaming: BOOLEAN, message: BOOLEAN, error: BOOLEAN]
  /\ steering \in Seq(Msgs) /\ followUp \in Seq(Msgs)
  /\ steeringMode \in QueueMode /\ followUpMode \in QueueMode
  /\ partial \in BOOLEAN
  /\ pc \in [Callers -> PCs]
  /\ loc \in [Callers -> Local]
  /\ obs \in Phases
  /\ waiter \in [Waiters -> {"out", "arm", "check", "checked", "sleep"}]
  /\ notified \in [Waiters -> BOOLEAN]
  /\ sent \subseteq Msgs /\ steered \in Seq(Msgs)
  /\ cleared \subseteq Msgs /\ dropped \subseteq Msgs
  /\ runs \in Nat

Contract == INSTANCE AgentContract WITH owner <- active, transcript <- agent.messages

(* The agent implements the contract: no run takes over from another one,   *)
(* and while a run is active nothing but its own appends reaches the        *)
(* transcript.                                                              *)
ImplementsContract == Contract!Spec

(* Two prompts, continuations or a reset never overlap a run: the stored   *)
(* token and the streaming flag belong to the one caller that is between   *)
(* start_run and the lock scope of finish_run.                             *)
SingleRun ==
  /\ \A c \in Callers : pc[c] \in Owning <=> active = c
  /\ isStreaming <=> active # NoCaller

(* "messages_after = messages_before ++ returned_messages" (run_agent_loop): *)
(* at every point of a run the transcript is the snapshot followed by what  *)
(* the sink tracked, and the loop's own delta agrees until finish_run.      *)
TranscriptContract ==
  \A c \in Callers : pc[c] \in Launched =>
    /\ agent.messages = loc[c].base \o loc[c].tracked
    /\ pc[c] # "ended" => loc[c].new = loc[c].tracked

(* The request context is the context a snapshot or a hook installed last,  *)
(* then every message published since, then the partial while one streams.  *)
ContextFollowsTranscript ==
  \A c \in Callers : pc[c] \in Launched \ {"failed", "ended"} =>
    loc[c].ctx = loc[c].seed
                   \o SubSeq(loc[c].tracked, loc[c].since + 1, Len(loc[c].tracked))
                   \o (IF loc[c].added THEN <<Assistant("done")>> ELSE <<>>)

(* Subscribers see well nested agent, turn and message brackets, and every  *)
(* run closes with one agent_end before the agent is idle.  Only a hook     *)
(* error can close a run inside an open turn.                               *)
EventProtocol ==
  /\ obs # "broken"
  /\ active = NoCaller => obs \in {"idle", "cut"}
  /\ obs = "cut" => "fail" \in HookPowers

(* The comment in finish_run: "If `terminal` is already set, the loop       *)
(* produced the single allowed assistant message end + turn end": agent_end *)
(* never arrives while a turn is open.                                      *)
TurnsAlwaysEnd == obs # "cut"

(* How often a sequence holds a message. *)
Occurrences(s, m) == Cardinality({i \in DOMAIN s : s[i] = m})

(* Every place that may hold a submitted message, and how often it does. *)
Copies(m) ==
  Occurrences(steering, m) + Occurrences(followUp, m)
    + Occurrences(agent.messages, User(m))
    + (IF active = NoCaller THEN 0
       ELSE Occurrences(loc[active].prompts \o loc[active].pending \o loc[active].prepared, m))
    + Cardinality({m} \cap cleared) + Cardinality({m} \cap dropped)

(* A submitted message is never duplicated and never vanishes: it is queued, *)
(* in flight, in the transcript, cleared on request, or dropped by a run     *)
(* that ended while it was in flight.                                        *)
Conservation == \A m \in sent : Copies(m) = 1

(* abort: "Queues are not cleared by abort."  A queued message is not lost   *)
(* because the run that polled it was cancelled.                             *)
AbortKeepsQueued == dropped = {}

(* The messages still waiting in the steering pipeline. *)
InFlight == Elements(steering) \cup
  (IF active = NoCaller THEN {} ELSE Elements(loc[active].prompts \o loc[active].pending))

(* Steering is delivered in the order of the steer calls: nothing overtakes  *)
(* a message that still waits, and the transcript keeps the order.           *)
SteeringInOrder ==
  \A i, j \in DOMAIN steered :
    (i < j /\ steered[j] \in UserIds(agent.messages)) =>
      /\ steered[i] \notin InFlight
      /\ \A p, q \in DOMAIN agent.messages :
           (agent.messages[p] = User(steered[i]) /\ agent.messages[q] = User(steered[j])) => p < q

(* AgentTurnDecision::Continue guarantees at least one further provider      *)
(* request: a run that neither failed nor was cancelled does not end owing   *)
(* one.                                                                      *)
ContinueHonoured ==
  \A c \in Callers :
    pc[c] = "ended" /\ ~cancelled[c] /\ ~agent.error => ~loc[c].promised

(* wait_for_idle cannot miss its wake-up: a waiter that found a run and has  *)
(* none means that a run is active or that finish_run has yet to notify.     *)
NoLostWakeup ==
  \A w \in Waiters : waiter[w] \in {"checked", "sleep"} /\ ~notified[w] =>
    active # NoCaller \/ \E c \in Callers : pc[c] = "notify"

(* A cancelled run settles whatever the provider and the tools do.           *)
AbortLeadsToIdle ==
  \A c \in Callers : (pc[c] \in Owning /\ cancelled[c]) ~> (pc[c] = "idle")

(* A wait_for_idle call returns once the agent stays idle.                   *)
WaiterReturns ==
  \A w \in Waiters : <>[](active = NoCaller) => (waiter[w] # "out" ~> waiter[w] = "out")
=============================================================================
