------------------------------ MODULE ToolBatch -----------------------------
(***************************************************************************)
(* The tool calls of one assistant message: crates/pi-agent/src/schedule.rs *)
(* with the ToolUpdates handle of crates/pi-agent/src/tool.rs.             *)
(*                                                                         *)
(* The coordinator is the agent loop's task.  It starts and prepares the   *)
(* calls in source order and either runs each to its end (sequential) or   *)
(* spawns up to MaxParallel workers and collects them (parallel).  A       *)
(* worker is a task; the tool inside it may hand its ToolUpdates to code   *)
(* that outlives the call, so updates may be sent at any time.             *)
(***************************************************************************)
EXTENDS Naturals, Sequences, FiniteSets

CONSTANTS
  N,               \* tool calls in the message
  MaxParallel,     \* MAX_PARALLEL_TOOL_CALLS
  UpdateCapacity,  \* PARALLEL_TOOL_UPDATE_CAPACITY
  MaxUpdates,      \* updates each tool sends
  MayPanic         \* whether tools and after hooks may panic

ASSUME ToolBatchAssumption ==
  /\ N \in Nat \ {0}
  /\ MaxParallel \in Nat \ {0}
  /\ UpdateCapacity \in Nat \ {0}
  /\ MaxUpdates \in Nat
  /\ MayPanic \in BOOLEAN

Calls == 1..N

VARIABLES
  mode,        \* sequential, parallel, or truncated by the output limit
  at,          \* the coordinator's position
  next,        \* the call the coordinator works on
  cancelled,   \* the run's cancellation token
  worker,      \* where each call's worker is
  outcome,     \* how each call was settled
  accepting,   \* ToolUpdatesState.accepting
  inFlight,    \* ToolUpdatesState.in_flight
  sends,       \* updates each tool has sent
  channel,     \* the updates buffered for the coordinator
  starts,      \* tool_execution_start events of each call
  ends,        \* tool_execution_end events of each call
  late,        \* the calls with an update published after their end
  messages     \* the calls whose result message was emitted, in order

coordVars == <<mode, at, next>>
updateVars == <<accepting, inFlight, sends>>
eventVars == <<starts, ends, late, messages>>
vars == <<coordVars, cancelled, worker, outcome, updateVars, channel, eventVars>>

Positions == {"start", "prepare", "execute", "finalize", "spawn", "collect", "drain", "emit",
              "done"}
WorkerStates == {"none", "queued", "spawned", "running", "stopping", "after", "joinable",
                 "joined"}
Settlements == {"none", "real", "refused", "aborted", "panicked", "lost"}

(* The tasks in the JoinSet. *)
Live == {i \in Calls : worker[i] \in {"spawned", "running", "stopping", "after", "joinable"}}
Queued == {i \in Calls : worker[i] = "queued"}

Init ==
  /\ mode \in {"sequential", "parallel", "truncated"}
  /\ at = "start" /\ next = 1
  /\ cancelled = FALSE
  /\ worker = [i \in Calls |-> "none"]
  /\ outcome = [i \in Calls |-> "none"]
  /\ accepting = [i \in Calls |-> FALSE]
  /\ inFlight = [i \in Calls |-> 0]
  /\ sends = [i \in Calls |-> 0]
  /\ channel = <<>>
  /\ starts = [i \in Calls |-> 0]
  /\ ends = [i \in Calls |-> 0]
  /\ late = {}
  /\ messages = <<>>

Cancel ==
  /\ at # "done" /\ ~cancelled
  /\ cancelled' = TRUE
  /\ UNCHANGED <<coordVars, worker, outcome, updateVars, channel, eventVars>>

-----------------------------------------------------------------------------
(* Publishing. *)

(* The updates of a sequence are published: late if their call has ended. *)
Publish(updates) ==
  late' = late \union {updates[k] : k \in {j \in DOMAIN updates : ends[updates[j]] > 0}}

(* The calls of a set end, in one settlement. *)
EndCalls(calls) == ends' = [i \in Calls |-> IF i \in calls THEN ends[i] + 1 ELSE ends[i]]

-----------------------------------------------------------------------------
(* Starting and preparing a call, in source order. *)

(* fail_tool_calls_from_truncated_message runs nothing and awaits nothing. *)
FailTruncated ==
  /\ mode = "truncated" /\ at = "start"
  /\ starts' = [i \in Calls |-> 1]
  /\ EndCalls(Calls)
  /\ outcome' = [i \in Calls |-> "refused"]
  /\ messages' = [i \in Calls |-> i]
  /\ at' = "done"
  /\ UNCHANGED <<mode, next, cancelled, worker, updateVars, channel, late>>

Start ==
  /\ mode # "truncated" /\ at = "start"
  /\ starts' = [starts EXCEPT ![next] = @ + 1]
  /\ at' = "prepare"
  /\ UNCHANGED <<mode, next, cancelled, worker, outcome, updateVars, channel, ends, late, messages>>

(* After the last call the batch is done, or its workers are spawned. *)
Advance ==
  /\ next' = next + 1
  /\ at' = IF next < N THEN "start" ELSE IF mode = "sequential" THEN "done" ELSE "spawn"

(* Mutant: a sequential batch also breaks after a call that was refused. *)
Stops_OnRefusal == cancelled \/ outcome[next] = "none"

(* The sequential loop breaks after the call during which it was cancelled. *)
Stops == cancelled

(* The end of a sequential call: end event, result message, break or go on. *)
SettleSequential(settlement) ==
  /\ outcome' = [outcome EXCEPT ![next] = settlement]
  /\ EndCalls({next})
  /\ messages' = Append(messages, next)
  /\ IF Stops THEN at' = "done" /\ UNCHANGED next ELSE Advance

(* prepare_tool_call yields an immediate result: unknown tool, invalid     *)
(* arguments, blocked or failed hook, or the cancellation it checks last.  *)
PrepareImmediate ==
  /\ at = "prepare"
  /\ \E settlement \in {"refused"} \cup (IF cancelled THEN {"aborted"} ELSE {}) :
       \/ mode = "sequential" /\ SettleSequential(settlement)
       \/ /\ mode = "parallel"
          /\ outcome' = [outcome EXCEPT ![next] = settlement]
          /\ EndCalls({next})
          /\ Advance
          /\ UNCHANGED messages
  /\ UNCHANGED <<mode, cancelled, worker, updateVars, channel, starts, late>>

(* The call may run: at once, or when a worker slot is free. *)
PrepareOk ==
  /\ at = "prepare"
  /\ ~cancelled
  /\ \/ /\ mode = "sequential"
        /\ worker' = [worker EXCEPT ![next] = "spawned"]
        /\ at' = "execute" /\ UNCHANGED next
     \/ /\ mode = "parallel"
        /\ worker' = [worker EXCEPT ![next] = "queued"]
        /\ Advance
  /\ UNCHANGED <<mode, cancelled, outcome, updateVars, channel, eventVars>>

-----------------------------------------------------------------------------
(* A worker. *)

(* The admission gate: a worker that finds the token set never runs its tool. *)
Admit(i) ==
  /\ worker[i] = "spawned"
  /\ IF cancelled
     THEN /\ worker' = [worker EXCEPT ![i] = "joinable"]
          /\ outcome' = [outcome EXCEPT ![i] = "aborted"]
          /\ UNCHANGED accepting
     ELSE /\ worker' = [worker EXCEPT ![i] = "running"]
          /\ accepting' = [accepting EXCEPT ![i] = TRUE]
          /\ UNCHANGED outcome
  /\ UNCHANGED <<coordVars, cancelled, inFlight, sends, channel, eventVars>>

(* ToolUpdates::send takes a ticket under the lock ... *)
SendAccepted(i) ==
  /\ accepting[i]
  /\ inFlight[i] = 0
  /\ sends[i] < MaxUpdates
  /\ inFlight' = [inFlight EXCEPT ![i] = 1]
  /\ sends' = [sends EXCEPT ![i] = @ + 1]
  /\ UNCHANGED <<coordVars, cancelled, worker, outcome, accepting, channel, eventVars>>

(* Whether the receiving half of a call's update channel still exists. *)
Receiving(i) ==
  \/ mode = "sequential" /\ at = "execute" /\ next = i
  \/ mode = "parallel" /\ at # "done"

(* ... and calls the sink outside it: a full or closed channel drops the   *)
(* update.  The sequential channel is unbounded.                           *)
SendDelivered(i) ==
  /\ inFlight[i] = 1
  /\ inFlight' = [inFlight EXCEPT ![i] = 0]
  /\ channel' = IF Receiving(i) /\ (mode = "sequential" \/ Len(channel) < UpdateCapacity)
                THEN Append(channel, i) ELSE channel
  /\ UNCHANGED <<coordVars, cancelled, worker, outcome, accepting, sends, eventVars>>

(* The tool returns; stop_accepting begins. *)
Return(i) ==
  /\ worker[i] = "running"
  /\ worker' = [worker EXCEPT ![i] = "stopping"]
  /\ outcome' = [outcome EXCEPT ![i] = "real"]
  /\ accepting' = [accepting EXCEPT ![i] = FALSE]
  /\ UNCHANGED <<coordVars, cancelled, inFlight, sends, channel, eventVars>>

(* Mutant: only the tool is raced against the token, not the after hook. *)
Overdue_ToolOnly(i) == cancelled /\ worker[i] = "running"

(* The worker's body is still pending after the token fired. *)
Overdue(i) == cancelled /\ worker[i] \in {"running", "after"}

(* run_until_cancelled drops a body that ignores the token. *)
ForceAbort(i) ==
  /\ Overdue(i)
  /\ worker' = [worker EXCEPT ![i] = "stopping"]
  /\ outcome' = [outcome EXCEPT ![i] = "aborted"]
  /\ accepting' = [accepting EXCEPT ![i] = FALSE]
  /\ UNCHANGED <<coordVars, cancelled, inFlight, sends, channel, eventVars>>

(* Mutant: stop_accepting does not wait for an accepted callback. *)
Quiet_Always(i) == TRUE

(* stop_accepting returns once no accepted callback is running. *)
Quiet(i) == inFlight[i] = 0

(* The parallel worker goes on to the after hook of an executed call. *)
Stopped(i) ==
  /\ worker[i] = "stopping"
  /\ Quiet(i)
  /\ worker' = [worker EXCEPT ![i] = IF mode = "parallel" /\ outcome[i] = "real"
                                     THEN "after" ELSE "joinable"]
  /\ UNCHANGED <<coordVars, cancelled, outcome, updateVars, channel, eventVars>>

AfterHook(i) ==
  /\ worker[i] = "after"
  /\ worker' = [worker EXCEPT ![i] = "joinable"]
  /\ UNCHANGED <<coordVars, cancelled, outcome, updateVars, channel, eventVars>>

(* A panic unwinds past stop_accepting. *)
Panic(i) ==
  /\ MayPanic
  /\ worker[i] \in {"running", "after"}
  /\ worker' = [worker EXCEPT ![i] = "joinable"]
  /\ outcome' = [outcome EXCEPT ![i] = "panicked"]
  /\ UNCHANGED <<coordVars, cancelled, updateVars, channel, eventVars>>

-----------------------------------------------------------------------------
(* The sequential coordinator while a call runs. *)

SeqUpdate ==
  /\ mode = "sequential" /\ at = "execute" /\ channel # <<>>
  /\ Publish(<<Head(channel)>>)
  /\ channel' = Tail(channel)
  /\ UNCHANGED <<coordVars, cancelled, worker, outcome, updateVars, starts, ends, messages>>

(* The worker is joined, the rest of the updates is published and the      *)
(* receiver is dropped.                                                    *)
SeqJoin ==
  /\ at = "execute" /\ worker[next] = "joinable"
  /\ Publish(channel)
  /\ channel' = <<>>
  /\ worker' = [worker EXCEPT ![next] = "joined"]
  /\ at' = "finalize"
  /\ UNCHANGED <<mode, next, cancelled, outcome, updateVars, starts, ends, messages>>

(* The after hook finishes, or cancellation settles the call instead. *)
SeqFinalize ==
  /\ at = "finalize"
  /\ \/ SettleSequential(outcome[next])
     \/ cancelled /\ SettleSequential("aborted")
  /\ UNCHANGED <<mode, cancelled, worker, updateVars, channel, starts, late>>

-----------------------------------------------------------------------------
(* The parallel coordinator. *)

(* The earliest k queued calls. *)
FirstQueued(k) == {i \in Queued : Cardinality({j \in Queued : j < i}) < k}

(* spawn_next on the calls of a set. *)
Spawned(w, calls) == [i \in Calls |-> IF i \in calls THEN "spawned" ELSE w[i]]

ParSpawn ==
  /\ at = "spawn"
  /\ worker' = Spawned(worker, FirstQueued(MaxParallel))
  /\ at' = "collect"
  /\ UNCHANGED <<mode, next, cancelled, outcome, updateVars, channel, eventVars>>

ParUpdate ==
  /\ at = "collect" /\ channel # <<>> /\ Live # {}
  /\ Publish(<<Head(channel)>>)
  /\ channel' = Tail(channel)
  /\ UNCHANGED <<coordVars, cancelled, worker, outcome, updateVars, starts, ends, messages>>

(* One completion frees one slot, unless the batch is cancelled. *)
Refill == IF cancelled THEN {} ELSE FirstQueued(1)

(* A worker is joined: buffered updates first, then its end. *)
ParJoin(i) ==
  /\ at \in {"collect", "drain"}
  /\ worker[i] = "joinable"
  /\ Publish(channel)
  /\ channel' = <<>>
  /\ EndCalls({i})
  /\ worker' = Spawned([worker EXCEPT ![i] = "joined"], IF at = "collect" THEN Refill ELSE {})
  /\ UNCHANGED <<coordVars, cancelled, outcome, updateVars, starts, messages>>

(* The cancelled arm: from here on workers are only joined. *)
ParCancelled ==
  /\ at = "collect" /\ cancelled /\ Live # {}
  /\ at' = "drain"
  /\ UNCHANGED <<mode, next, cancelled, worker, outcome, updateVars, channel, eventVars>>

(* Mutant: the calls that never got a worker are forgotten. *)
Unresolved_None == {}

(* The slots settle_all_pending still finds pending. *)
Unresolved == {i \in Calls : outcome[i] = "none"}

(* No worker is left: the last updates, then the unresolved slots. *)
ParSettle ==
  /\ at \in {"collect", "drain"} /\ Live = {}
  /\ Publish(channel)
  /\ channel' = <<>>
  /\ EndCalls(Unresolved)
  /\ outcome' = [i \in Calls |-> IF i \notin Unresolved THEN outcome[i]
                                 ELSE IF cancelled THEN "aborted" ELSE "lost"]
  /\ worker' = [i \in Calls |-> IF i \in Unresolved THEN "joined" ELSE worker[i]]
  /\ at' = "emit"
  /\ UNCHANGED <<mode, next, cancelled, updateVars, starts, messages>>

(* emit_source_ordered_results. *)
ParEmit ==
  /\ at = "emit"
  /\ messages' = [i \in Calls |-> i]
  /\ at' = "done"
  /\ UNCHANGED <<mode, next, cancelled, worker, outcome, updateVars, channel, starts, ends, late>>

-----------------------------------------------------------------------------

(* Steps the tasks owe once they can run: prepare hooks return and an      *)
(* accepted callback finishes.                                             *)
OwnStep ==
  \/ FailTruncated \/ Start \/ PrepareImmediate \/ PrepareOk
  \/ SeqUpdate \/ SeqJoin \/ SeqFinalize
  \/ ParSpawn \/ ParUpdate \/ ParCancelled \/ ParSettle \/ ParEmit
  \/ \E i \in Calls : ParJoin(i)

WorkerStep(i) == Admit(i) \/ SendDelivered(i) \/ ForceAbort(i) \/ Stopped(i)

(* Steps a tool or an after hook takes when it likes. *)
ToolStep(i) == SendAccepted(i) \/ Return(i) \/ AfterHook(i) \/ Panic(i)

Next ==
  \/ Cancel \/ OwnStep
  \/ \E i \in Calls : WorkerStep(i) \/ ToolStep(i)

Spec == Init /\ [][Next]_vars

(* Tools and after hooks owe nothing: they may ignore the token forever. *)
FairSpec ==
  /\ Spec
  /\ WF_vars(OwnStep)
  /\ \A i \in Calls : WF_vars(WorkerStep(i))

-----------------------------------------------------------------------------
(* Properties. *)

(* Every variable holds a value of its type in schedule.rs and tool.rs. *)
TypeOK ==
  /\ mode \in {"sequential", "parallel", "truncated"}
  /\ at \in Positions
  /\ next \in 1..(N + 1)
  /\ cancelled \in BOOLEAN
  /\ worker \in [Calls -> WorkerStates]
  /\ outcome \in [Calls -> Settlements]
  /\ accepting \in [Calls -> BOOLEAN]
  /\ inFlight \in [Calls -> 0..1]
  /\ sends \in [Calls -> Nat]
  /\ channel \in Seq(Calls)
  /\ starts \in [Calls -> Nat] /\ ends \in [Calls -> Nat]
  /\ late \subseteq Calls
  /\ messages \in Seq(Calls)

(* No call ends twice or without a start, and when the batch returns every  *)
(* call that was started has ended and has its result message: a panic, a   *)
(* cancellation or a forced abort never leaves a call open.                 *)
StartsAndEndsPair ==
  \A i \in Calls :
    /\ ends[i] <= starts[i] /\ starts[i] <= 1
    /\ at = "done" => ends[i] = starts[i] /\ outcome[i] # "lost"
    /\ at = "done" => (starts[i] = 1 <=> \E k \in DOMAIN messages : messages[k] = i)

(* Result messages come in source order; a call's message follows its end.  *)
(* A parallel batch answers every call, a sequential one stops early only   *)
(* when it was cancelled.                                                   *)
ResultsInSourceOrder ==
  /\ \A k \in DOMAIN messages : messages[k] = k /\ ends[k] = 1
  /\ at = "done" /\ Len(messages) < N => mode = "sequential" /\ cancelled

(* ToolUpdates: "a late update cannot publish after the execution           *)
(* lifecycle has settled".                                                  *)
NoLateUpdate == late = {}

(* Only a worker that panicked past stop_accepting can have an update        *)
(* published after its call's end; cancelled and forced calls never do.      *)
LateOnlyAfterPanic == \A i \in late : outcome[i] = "panicked"

(* A cancelled batch returns even if tools and after hooks ignore the token. *)
CancelSettles == cancelled ~> at = "done"
=============================================================================
