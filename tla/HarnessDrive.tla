---------------------------- MODULE HarnessDrive ----------------------------
(***************************************************************************)
(* One durable operation of a harness lane: crates/pi-agent/src/harness/   *)
(* runtime/drive.rs, with request_abort of admission.rs, restore.rs, the   *)
(* drive gate of gate.rs and the stream of stream.rs.                      *)
(*                                                                         *)
(* The operation is a record on disk and a copy of it in the lane's        *)
(* memory.  A drive reads the copy, works on its own snapshot of it across *)
(* awaits, and writes both through transition, which holds the lane's data *)
(* lock.  An abort request is another task that reads the copy, commits    *)
(* and applies in three separate steps.  The process may crash between any *)
(* two steps; a restart rebuilds the copy from disk.  Messages queued on   *)
(* the lane are counted only: HarnessLane models the inbox.                *)
(***************************************************************************)
EXTENDS Naturals, Sequences, FiniteSets

CONSTANTS
  Intents,      \* the operations accepted: "run", "compaction", "navigation", "summary"
  NCalls,       \* tool calls of an assistant message that has some
  MaxAttempts,  \* HarnessRetryPolicy.max_attempts
  MaxIds,       \* bound: response and summary ids reserved
  MaxQueued,    \* bound: messages queued while the operation is open
  MaxAborts,    \* bound: abort requests
  MaxTogether,  \* bound: ids, queued messages, crashes and twice the abort requests together
  MaxCrashes    \* bound: crashes of the process

ASSUME HarnessDriveAssumption ==
  /\ Intents \subseteq {"run", "compaction", "navigation", "summary"}
  /\ NCalls \in Nat \ {0}
  /\ MaxAttempts \in Nat \ {0}
  /\ MaxIds \in Nat /\ MaxQueued \in Nat /\ MaxAborts \in Nat /\ MaxTogether \in Nat
  /\ MaxCrashes \in Nat

Calls == 1..NCalls

VARIABLES
  intent,   \* OperationMeta.intent; "summary" is a navigation with summarize
  disk,     \* the durable records of the operation
  mem,      \* LaneData.operation
  queued,   \* inbox messages that trigger the assistant
  pc,       \* where the active drive is; "idle" without one
  snap,     \* the drive's snapshot of the operation
  gate,     \* the gate of the active drive is aborting
  opts,     \* DriveOptions of the active drive
  work,     \* locals of the procedure the drive is in
  abort,    \* request_abort: its position and its clone of the operation
  sealed,   \* the harness has faulted
  crashed,  \* crashes so far; alive while even, down while odd
  ids,      \* ids reserved so far
  aborts,   \* abort requests so far
  \* For the properties only:
  sent,     \* assistant requests started: position in the log and attempt
  resent,   \* an attempt was sent twice
  ran,      \* tool calls whose execute was invoked
  reran,    \* one of them twice
  acked,    \* an abort has returned newly_requested
  stalled,  \* a drive has returned "drive procedure made no progress"
  rejected, \* a restore has failed its validation
  cut       \* a drive ended between the last entry of the operation and its result

driveVars == <<pc, snap, gate, opts, work>>
ghosts == <<sent, resent, ran, reran, acked, stalled, rejected, cut>>
vars == <<intent, disk, mem, queued, driveVars, abort, sealed, crashed, ids, aborts, ghosts>>

-----------------------------------------------------------------------------
(* OperationState.  need and finish are the two continuations of a          *)
(* checkpoint.  ov is overflow_recovery_used: "length" while the trigger is  *)
(* the truncated response itself, "used" once it has moved on.              *)

Stages == {"starting", "need", "finish", "ready", "effect", "retry", "tools", "suspended", "poll",
           "deciding", "sready", "seffect", "sretry", "navready"}
Statuses == {"completed", "failed", "aborted"}
Overflow == {"no", "length", "used"}
Planned == [c \in Calls |-> "planned"]

Operations ==
  [at : Stages, ctl : {"running", "cancel"}, att : 0..MaxAttempts, ov : Overflow, id : 0..MaxIds,
   calls : [Calls -> {"planned", "pending", "ready"}]]
NoOp == [at |-> "none", ctl |-> "none"]

(* A state with the scope of s, the part every leaf carries. *)
Leaf(stage, s) ==
  [at |-> stage, ctl |-> s.ctl, att |-> 0, ov |-> "no", id |-> 0, calls |-> Planned]
Need(s, ov) == [Leaf("need", s) EXCEPT !.ov = ov]
Ready(s, att, ov) == [Leaf("ready", s) EXCEPT !.att = att, !.ov = ov]
Cancelled(s) == [s EXCEPT !.ctl = "cancel"]

First == CASE intent = "run" -> "starting"
           [] intent = "navigation" -> "navready"
           [] OTHER -> "deciding"

Alive == crashed % 2 = 0
Crashes == (crashed + 1) \div 2
Bounded(n) == ids + queued + 2 * aborts + Crashes + n <= MaxTogether
Room == ids < MaxIds /\ Bounded(1)

(* Entries are response and summary entries by their id, and the results of a batch. *)
Entry(id, kind) == [id |-> id, kind |-> kind]
Place(kind) == IF kind = "results" THEN "results" ELSE "reserved"
Duplicate(e) == \E k \in DOMAIN disk.log :
  disk.log[k].id = e.id /\ Place(disk.log[k].kind) = Place(e.kind)

(* Locals: the reserved id, the outcome of the request and the leaf it leads to, *)
(* whether a trigger was drained, the batch and the calls still to start or running. *)
NoWork == [id |-> 0, out |-> "none", next |-> NoOp, trigger |-> FALSE,
           calls |-> Planned, call |-> 1, todo |-> {}, live |-> {}]

Init ==
  /\ intent \in Intents
  /\ mem = Leaf(First, [ctl |-> "running"])
  /\ disk = [op |-> mem, result |-> "none", log |-> <<>>, frames |-> {}, staged |-> {},
             prep |-> First = "deciding"]
  /\ queued = 0
  /\ pc = "idle" /\ snap = NoOp /\ gate = FALSE /\ work = NoWork
  /\ opts = [wait |-> FALSE, poll |-> FALSE]
  /\ abort = [at |-> "idle", op |-> NoOp]
  /\ sealed = FALSE /\ crashed = 0 /\ ids = 0 /\ aborts = 0
  /\ sent = {} /\ resent = FALSE /\ ran = {} /\ reran = FALSE
  /\ acked = FALSE /\ stalled = FALSE /\ rejected = FALSE /\ cut = FALSE

-----------------------------------------------------------------------------
(* The drive loop. *)

Lane == <<intent, queued, abort, crashed, aborts>>

Drive ==
  /\ Alive /\ ~sealed /\ ~rejected /\ pc = "idle" /\ mem # NoOp
  /\ \E w, p \in BOOLEAN : opts' = [wait |-> w, poll |-> p]
  /\ pc' = "loop" /\ gate' = FALSE /\ work' = NoWork
  /\ UNCHANGED <<Lane, disk, mem, snap, sealed, ids, ghosts>>

Active(at) == Alive /\ pc = at
Go(at) == pc' = at /\ UNCHANGED <<gate, opts, snap>>
Work(at, w) == Go(at) /\ work' = w
Leave == pc' = "idle" /\ UNCHANGED <<gate, opts, snap>> /\ work' = NoWork

(* ensure_open, current_drive_operation, and the route to reconciliation. *)
ReadOperation ==
  /\ Active("loop") /\ ~sealed
  /\ snap' = mem
  /\ pc' = IF mem = NoOp THEN "idle" ELSE IF mem.ctl = "cancel" THEN "reconcile" ELSE mem.at
  /\ work' = NoWork
  /\ UNCHANGED <<Lane, disk, mem, gate, opts, sealed, ids, ghosts>>

(* DriveStep::Continue: an unchanged running operation ends the drive with an error. *)
Continue ==
  /\ Active("continue")
  /\ LET stuck == mem = snap /\ mem.ctl = "running" IN
     /\ stalled' = (stalled \/ stuck)
     /\ pc' = IF stuck \/ mem = NoOp THEN "idle" ELSE "loop"
  /\ UNCHANGED <<Lane, disk, mem, snap, gate, opts, work, sealed, ids,
                 sent, resent, ran, reran, acked, rejected, cut>>

(* Mutant: the new leaf is applied to the lane and not committed. *)
Transition_MemoryOnly(next) == UNCHANGED disk /\ mem' = next

(* transition: the snapshot's scope and the new leaf go to disk and memory. *)
Transition(next) == disk' = [disk EXCEPT !.op = next] /\ mem' = next

CancelSeen == gate \/ mem.ctl = "cancel"

-----------------------------------------------------------------------------
(* Settling. *)

ResponseIdOf(s) == IF s.at \in {"effect", "poll"} THEN {s.id} ELSE {}

(* One commit: the result, the lane pointer, and the cleanup of the operation's records. *)
Settled(s, status) ==
  [disk EXCEPT !.op = NoOp, !.result = status, !.frames = @ \ ResponseIdOf(s),
               !.staged = {}, !.prep = FALSE]

Settle(s, status) ==
  /\ disk' = Settled(s, status)
  /\ mem' = NoOp
  /\ Leave
  /\ UNCHANGED <<Lane, sealed, ids, ghosts>>

(* settle after another step of the same procedure. *)
SettleStep ==
  /\ Active("settle")
  /\ Settle(snap, work.out)

Reconcile ==
  /\ Active("reconcile")
  /\ gate' = TRUE
  /\ \/ /\ snap.at = "effect"
        /\ pc' = "recover"
        /\ UNCHANGED <<disk, mem, work>>
     \/ /\ snap.at # "effect"
        /\ disk' = Settled(snap, "aborted") /\ mem' = NoOp
        /\ pc' = "idle" /\ work' = NoWork
  /\ UNCHANGED <<Lane, snap, opts, sealed, ids, ghosts>>

(* A fault seals every lane and fails every drive. *)
Fault ==
  /\ sealed' = TRUE
  /\ Leave
  /\ UNCHANGED <<Lane, disk, mem, ids, ghosts>>

(* The entry of the commit the drive is about to make: a response, what recovery fills a *)
(* reserved response with, the results of a batch, or a summary.                          *)
Committing == pc \in {"commit", "recover", "effect", "results", "scommit"}
Offered ==
  CASE pc = "commit" -> Entry(work.id, work.out)
    [] pc = "results" -> Entry(snap.id, "results")
    [] pc = "scommit" -> Entry(snap.id, "summary")
    [] OTHER -> Entry(snap.id, "interrupted")

(* The store rejects an id it already has, and the rejection is a fault. *)
CommitRejected == Alive /\ Committing /\ Duplicate(Offered) /\ Fault

(* An error ends the drive between any two commits and leaves the operation open: a hook that     *)
(* fails, a model or target that is gone, a read or a commit under a cancelled context.  Only      *)
(* commit_branch_summary cannot fail between its commit and the lane's copy.                      *)
Interruptible == Alive /\ pc \notin {"idle", "sapply"}
DriveError ==
  /\ Interruptible
  /\ Leave
  /\ cut' = (cut \/ pc = "settle")
  /\ UNCHANGED <<Lane, disk, mem, sealed, ids, sent, resent, ran, reran, acked, stalled, rejected>>

(* The store fails a commit, or the observer of a stream cannot persist its frames: the harness *)
(* is sealed.  The other positions write nothing.                                               *)
Writing == Interruptible /\ pc \notin {"loop", "continue", "hook", "scheduled", "execute", "pstaged",
                                      "summary"}
StoreFails ==
  /\ Writing
  /\ sealed' = TRUE
  /\ Leave
  /\ cut' = (cut \/ pc = "settle")
  /\ UNCHANGED <<Lane, disk, mem, ids, sent, resent, ran, reran, acked, stalled, rejected>>

-----------------------------------------------------------------------------
(* Starting and checkpoints. *)

(* before_run under an aborting gate ends the drive with an error. *)
StartRun ==
  /\ Active("starting")
  /\ \/ /\ Transition(Need(snap, "no"))
        /\ Work("continue", NoWork)
     \/ /\ gate
        /\ Leave /\ UNCHANGED <<disk, mem>>
  /\ UNCHANGED <<Lane, sealed, ids, ghosts>>

(* drain_inbox, at the head of a checkpoint. *)
Drain(at) ==
  /\ queued' = 0
  /\ Work(at, [NoWork EXCEPT !.trigger = queued > 0])
  /\ UNCHANGED <<intent, abort, crashed, aborts, disk, mem, sealed, ids, ghosts>>

CheckpointNeed == Active("need") /\ Drain("need2")
CheckpointFinish == Active("finish") /\ Drain("finish2")

(* A drained message moves the trigger off the truncated response. *)
ForceCompaction == snap.ov = "length" /\ ~work.trigger

(* maybe_start_compaction: forced, or because the context crossed the threshold.  A model that *)
(* is gone or a preparation that fails settles the run.                                         *)
StartCompaction ==
  /\ Active("need2")
  /\ \/ Settle(snap, "failed")
     \/ /\ LET next == [Leaf("deciding", snap) EXCEPT !.ov = IF ForceCompaction THEN "used" ELSE "no"]
           IN /\ disk' = [disk EXCEPT !.op = next, !.prep = TRUE]
              /\ mem' = next
        /\ Work("continue", NoWork)
        /\ UNCHANGED <<Lane, sealed, ids, ghosts>>

(* Nothing to compact, or compaction is off. *)
AssistantReady ==
  /\ Active("need2")
  /\ Transition(Ready(snap, 1, IF snap.ov = "no" THEN "no" ELSE "used"))
  /\ Work("continue", NoWork)
  /\ UNCHANGED <<Lane, sealed, ids, ghosts>>

RenewReady ==
  /\ Transition(Ready(snap, 1, "no"))
  /\ Work("continue", NoWork)
  /\ UNCHANGED <<Lane, sealed, ids, ghosts>>

(* finish_run_boundary up to the before_run_end hook. *)
FinishBoundary ==
  /\ Active("finish2")
  /\ \/ work.trigger /\ RenewReady
     \/ /\ ~work.trigger
        /\ Go(IF CancelSeen THEN "continue" ELSE "hook")
        /\ UNCHANGED <<Lane, disk, mem, work, sealed, ids, ghosts>>

(* The hook returns, with a follow-up or without, or is refused by the gate. *)
BeforeRunEnd ==
  /\ Active("hook")
  /\ \/ \E f \in BOOLEAN :
          Work(IF CancelSeen THEN "continue" ELSE "redrain", [NoWork EXCEPT !.trigger = f])
     \/ gate /\ Work("reconcile", NoWork)
  /\ UNCHANGED <<Lane, disk, mem, sealed, ids, ghosts>>

Redrain ==
  /\ Active("redrain")
  /\ \/ /\ queued > 0
        /\ queued' = 0
        /\ Work("renew", NoWork)
     \/ /\ queued = 0
        /\ UNCHANGED queued
        /\ IF work.trigger THEN Work("renew", NoWork)
           ELSE Work("settle", [NoWork EXCEPT !.out = "completed"])
  /\ UNCHANGED <<intent, abort, crashed, aborts, disk, mem, sealed, ids, ghosts>>

(* renew_assistant_ready, or append_run_follow_up: the entry and the state in one commit. *)
Renew == Active("renew") /\ RenewReady

-----------------------------------------------------------------------------
(* Assistant generation. *)

(* The model is gone, before_request is refused by the gate, or a response id is reserved. *)
Generation ==
  /\ Active("ready")
  /\ \/ Settle(snap, "failed")
     \/ /\ gate
        /\ Work("reconcile", NoWork)
        /\ UNCHANGED <<Lane, disk, mem, sealed, ids, ghosts>>
     \/ /\ Room
        /\ ids' = ids + 1
        /\ Transition([snap EXCEPT !.at = "effect", !.id = ids + 1])
        /\ Work("stream", [NoWork EXCEPT !.id = ids + 1])
        /\ UNCHANGED <<Lane, sealed, ghosts>>

(* The deferred poll, and its recovery, which drops the frames of the poll it replaces. *)
DeferredPoll ==
  /\ Active("suspended") \/ Active("poll")
  /\ \/ /\ ~opts.poll
        /\ Leave
        /\ UNCHANGED <<Lane, disk, mem, sealed, ids, ghosts>>
     \/ /\ opts.poll /\ gate
        /\ Work("reconcile", NoWork)
        /\ UNCHANGED <<Lane, disk, mem, sealed, ids, ghosts>>
     \/ /\ opts.poll /\ Room
        /\ ids' = ids + 1
        /\ LET next == [Leaf("poll", snap) EXCEPT !.id = ids + 1] IN
           /\ disk' = [disk EXCEPT !.op = next, !.frames = @ \ ResponseIdOf(snap)]
           /\ mem' = next
        /\ Work("stream", [NoWork EXCEPT !.id = ids + 1])
        /\ UNCHANGED <<Lane, sealed, ghosts>>

(* The gate rejects the next effect of the stream. *)
StreamRefused ==
  /\ Active("stream") \/ Active("frames")
  /\ gate
  /\ Work("reconcile", NoWork)
  /\ UNCHANGED <<Lane, disk, mem, sealed, ids, ghosts>>

(* The request goes out.  A poll asks for a response that exists already. *)
StreamStart ==
  /\ Active("stream") /\ ~gate
  /\ LET attempt == <<Len(disk.log), snap.att>> IN
     IF snap.at = "ready"
     THEN sent' = sent \union {attempt} /\ resent' = (resent \/ attempt \in sent)
     ELSE UNCHANGED <<sent, resent>>
  /\ Go("frames")
  /\ UNCHANGED <<Lane, disk, mem, work, sealed, ids, ran, reran, acked, stalled, rejected, cut>>

(* The observer persists what has arrived. *)
StreamFrame ==
  /\ Active("frames") /\ ~gate /\ work.id \notin disk.frames
  /\ disk' = [disk EXCEPT !.frames = @ \union {work.id}]
  /\ Go("frames")
  /\ UNCHANGED <<Lane, mem, work, sealed, ids, ghosts>>

Responses == {"stop", "error", "length", "deferred", "tools"}

StreamEnd ==
  /\ Active("frames") /\ ~gate
  /\ \E out \in Responses \union {"provider", "preparation"} :
       Work(IF out \in Responses THEN "publish" ELSE "failure", [work EXCEPT !.out = out])
  /\ UNCHANGED <<Lane, disk, mem, sealed, ids, ghosts>>

(* stream_failure. *)
StreamFailure ==
  /\ Active("failure") /\ snap.at = "ready"
  /\ \/ /\ work.out = "preparation"
        /\ Settle(snap, "failed")
     \/ /\ work.out = "provider" /\ CancelSeen
        /\ Work("reconcile", NoWork)
        /\ UNCHANGED <<Lane, disk, mem, sealed, ids, ghosts>>
     \/ /\ work.out = "provider" /\ ~CancelSeen /\ snap.att < MaxAttempts
        /\ Transition([snap EXCEPT !.at = "retry", !.att = @ + 1])
        /\ Leave
        /\ UNCHANGED <<Lane, sealed, ids, ghosts>>
     \/ /\ work.out = "provider" /\ ~CancelSeen /\ snap.att = MaxAttempts
        /\ Settle(snap, "failed")

(* deferred_stream_failure: the provider's error faults the harness. *)
DeferredFailure ==
  /\ Active("failure") /\ snap.at # "ready"
  /\ \/ work.out = "provider" /\ Fault
     \/ /\ work.out = "preparation"
        /\ Leave
        /\ UNCHANGED <<Lane, disk, mem, sealed, ids, ghosts>>

(* Mutant: a retry after an error response does not count the attempt. *)
AfterError_SameAttempt(p) ==
  LET att == IF p.at = "effect" THEN p.att ELSE 1 IN
  IF att < MaxAttempts THEN [Leaf("retry", p) EXCEPT !.att = att, !.ov = p.ov]
  ELSE Leaf("finish", p)

(* assistant_response_state: the leaf a response leads to. *)
AfterError(p) ==
  LET att == IF p.at = "effect" THEN p.att ELSE 1 IN
  IF att < MaxAttempts THEN [Leaf("retry", p) EXCEPT !.att = att + 1, !.ov = p.ov]
  ELSE Leaf("finish", p)
AfterLength(p) ==
  IF p.ov # "no" \/ p.at = "poll" THEN Leaf("finish", p) ELSE Need(p, "length")
AfterResponse(p, out) ==
  CASE out = "error" -> AfterError(p)
    [] out = "length" -> AfterLength(p)
    [] out = "deferred" -> [Leaf("suspended", p) EXCEPT !.id = p.id]
    [] out = "tools" -> [Leaf("tools", p) EXCEPT !.id = p.id]
    [] OTHER -> Leaf("finish", p)

(* The operation is read again before the response is published. *)
Publish ==
  /\ Active("publish")
  /\ \/ /\ mem.at \notin {"effect", "poll"}
        /\ Leave
        /\ UNCHANGED <<disk, mem>>
     \/ /\ mem.at \in {"effect", "poll"} /\ mem.ctl = "cancel"
        /\ disk' = Settled(mem, "aborted") /\ mem' = NoOp
        /\ Leave
     \/ /\ mem.at \in {"effect", "poll"} /\ mem.ctl = "running"
        /\ Work("commit", [work EXCEPT !.id = mem.id, !.next = AfterResponse(mem, work.out)])
        /\ UNCHANGED <<disk, mem>>
  /\ UNCHANGED <<Lane, sealed, ids, ghosts>>

(* Mutant: the entry is committed alone, without the state that follows it. *)
CommitResponse_EntryFirst(e, next) ==
  /\ disk' = [disk EXCEPT !.log = Append(@, e), !.frames = @ \ {e.id}]
  /\ UNCHANGED mem

(* commit_assistant: entry, usage, state, tip and the end of the frames in one commit. *)
CommitResponse(e, next) ==
  /\ disk' = [disk EXCEPT !.log = Append(@, e), !.op = next, !.frames = @ \ {e.id}]
  /\ mem' = next

(* Mutant: an overflow that cannot be recovered completes the run. *)
FailsRun_ErrorsOnly == work.next.at = "finish" /\ work.out = "error"

(* An error or overflow that leads to finish settles the run as failed, in a second commit. *)
FailsRun == work.next.at = "finish" /\ work.out \in {"error", "length"}

CommitAssistant ==
  /\ Active("commit") /\ ~Duplicate(Offered)
  /\ CommitResponse(Offered, work.next)
  /\ CASE FailsRun -> Work("settle", [NoWork EXCEPT !.out = "failed"])
       [] work.next.at = "retry" -> Work("scheduled", NoWork)
       [] OTHER -> Work("continue", NoWork)
  /\ UNCHANGED <<Lane, sealed, ids, ghosts>>

(* publish_response: WaitingRetry if the retry is still what the lane holds. *)
RetryScheduled ==
  /\ Active("scheduled")
  /\ IF mem.at = "retry" THEN Leave ELSE Work("continue", NoWork)
  /\ UNCHANGED <<Lane, disk, mem, sealed, ids, ghosts>>

(* recover_assistant_effect: the reserved id is filled with what was persisted, never sent again. *)
(* The API was captured with the reservation, so the model need not exist any more.            *)
RecoverAssistantEffect ==
  /\ Active("recover") \/ Active("effect")
  /\ ~Duplicate(Offered)
  /\ CommitResponse(Offered, Leaf("finish", snap))
  /\ Work("settle", [NoWork EXCEPT !.out = "aborted"])
  /\ UNCHANGED <<Lane, sealed, ids, ghosts>>

(* retry_wait, for both kinds of request. *)
RetryWait ==
  /\ Active("retry") \/ Active("sretry")
  /\ \/ /\ ~opts.wait
        /\ Leave /\ UNCHANGED <<disk, mem>>
     \/ /\ opts.wait /\ gate
        /\ Work("reconcile", NoWork) /\ UNCHANGED <<disk, mem>>
     \/ /\ opts.wait
        /\ Transition([snap EXCEPT !.at = IF @ = "retry" THEN "ready" ELSE "sready"])
        /\ Work("continue", NoWork)
  /\ UNCHANGED <<Lane, sealed, ids, ghosts>>

-----------------------------------------------------------------------------
(* Tools. *)

Runs(c) ==
  IF gate THEN UNCHANGED <<ran, reran>>
  ELSE /\ ran' = ran \union {<<snap.id, c>>}
       /\ reran' = (reran \/ <<snap.id, c>> \in ran)
Marked(c, status) == [work.calls EXCEPT ![c] = status]

(* tools: the whole batch at once if nothing of it has started and the settings and every tool *)
(* of it allow that; one after the other otherwise.                                            *)
MayRunTogether == NCalls > 1 /\ snap.calls = Planned

ToolsStart ==
  /\ Active("tools")
  /\ \/ /\ MayRunTogether
        /\ LET pending == [c \in Calls |-> "pending"] IN
           /\ Transition([snap EXCEPT !.calls = pending])
           /\ Work("parallel", [NoWork EXCEPT !.calls = pending, !.todo = Calls])
     \/ /\ Work("sequence", [NoWork EXCEPT !.calls = snap.calls])
        /\ UNCHANGED <<disk, mem>>
  /\ UNCHANGED <<Lane, sealed, ids, ghosts>>

(* Mutant: a call that was marked and not finished is started again. *)
Fresh_UnlessReady(c) == work.calls[c] # "ready"

Fresh(c) == work.calls[c] = "planned"

(* run_sequential_tool: a planned call is marked before it runs. *)
ToolMark ==
  /\ Active("sequence") /\ work.call \in Calls
  /\ Fresh(work.call)
  /\ LET calls == Marked(work.call, "pending") IN
     /\ Transition([snap EXCEPT !.calls = calls])
     /\ Work("execute", [work EXCEPT !.calls = calls])
  /\ UNCHANGED <<Lane, sealed, ids, ghosts>>

(* recover_sequential_tool: a marked call is never run again; without a staged output *)
(* its effect is unknown.                                                             *)
ToolRecover ==
  /\ Active("sequence") /\ work.call \in Calls
  /\ ~Fresh(work.call)
  /\ \/ /\ work.call \in disk.staged
        /\ Work("sequence", [work EXCEPT !.call = @ + 1])
        /\ UNCHANGED <<Lane, disk, mem, sealed, ids, ghosts>>
     \/ /\ work.call \notin disk.staged
        /\ Settle(snap, "failed")

(* execute_tool, sequentially. *)
ToolExecute ==
  /\ Active("execute")
  /\ Runs(work.call)
  /\ Go("stage")
  /\ UNCHANGED <<Lane, disk, mem, work, sealed, ids, sent, resent, acked, stalled, rejected, cut>>

Stage(c) == disk' = [disk EXCEPT !.staged = @ \union {c}]

ToolStage ==
  /\ Active("stage")
  /\ Stage(work.call)
  /\ Go("staged")
  /\ UNCHANGED <<Lane, mem, work, sealed, ids, ghosts>>

ToolReady ==
  /\ Active("staged")
  /\ LET calls == Marked(work.call, "ready") IN
     /\ Transition([snap EXCEPT !.calls = calls])
     /\ Work("sequence", [work EXCEPT !.calls = calls, !.call = @ + 1])
  /\ UNCHANGED <<Lane, sealed, ids, ghosts>>

SequenceDone ==
  /\ Active("sequence") /\ work.call > NCalls
  /\ Go("results")
  /\ UNCHANGED <<Lane, disk, mem, work, sealed, ids, ghosts>>

(* execute_parallel_tools: the calls run while the drive waits for the next result. *)
ParallelExecute(c) ==
  /\ Active("parallel") /\ c \in work.todo
  /\ Runs(c)
  /\ Work("parallel", [work EXCEPT !.todo = @ \ {c}, !.live = @ \union {c}])
  /\ UNCHANGED <<Lane, disk, mem, sealed, ids, sent, resent, acked, stalled, rejected, cut>>

(* commit_parallel_tool_result, up to the commit of the staged output. *)
ParallelResult(c) ==
  /\ Active("parallel") /\ work.todo = {} /\ c \in work.live
  /\ \/ /\ CancelSeen
        /\ Work("reconcile", NoWork) /\ UNCHANGED disk
     \/ /\ ~CancelSeen
        /\ Stage(c)
        /\ Work("pstaged", [work EXCEPT !.live = @ \ {c}, !.call = c])
  /\ UNCHANGED <<Lane, mem, sealed, ids, ghosts>>

(* The operation is read again, and its cancellation honoured. *)
ParallelReread ==
  /\ Active("pstaged")
  /\ pc' = IF mem.ctl = "cancel" THEN "reconcile" ELSE "pready"
  /\ snap' = IF mem.ctl = "cancel" THEN mem ELSE snap
  /\ UNCHANGED <<Lane, disk, mem, gate, opts, work, sealed, ids, ghosts>>

ParallelReady ==
  /\ Active("pready")
  /\ LET calls == Marked(work.call, "ready") IN
     /\ Transition([snap EXCEPT !.calls = calls])
     /\ Work("parallel", [work EXCEPT !.calls = calls])
  /\ UNCHANGED <<Lane, sealed, ids, ghosts>>

ParallelDone ==
  /\ Active("parallel") /\ work.todo = {} /\ work.live = {}
  /\ snap' = mem
  /\ pc' = IF CancelSeen THEN "reconcile" ELSE "results"
  /\ UNCHANGED <<Lane, disk, mem, gate, opts, work, sealed, ids, ghosts>>

(* commit_tool_results: every result entry, the staged outputs and the state in one commit. *)
CommitToolResults ==
  /\ Active("results") /\ ~Duplicate(Offered)
  /\ \E next \in {Leaf("finish", snap), Need(snap, "no")} :
       /\ disk' = [disk EXCEPT !.log = Append(@, Offered), !.op = next, !.staged = {}]
       /\ mem' = next
  /\ Work("continue", NoWork)
  /\ UNCHANGED <<Lane, sealed, ids, ghosts>>

-----------------------------------------------------------------------------
(* Summaries and navigation. *)

(* start_summary_generation reserves the id of the entry the summary will have. *)
StartSummary ==
  /\ Active("deciding")
  /\ \/ Settle(snap, "failed")
     \/ /\ Room
        /\ ids' = ids + 1
        /\ Transition([snap EXCEPT !.at = "sready", !.att = 1, !.id = ids + 1])
        /\ Work("continue", NoWork)
        /\ UNCHANGED <<Lane, sealed, ghosts>>

(* ensure_summary_request: a pending request is made again after a restart. *)
SummaryRequest ==
  /\ Active("sready") \/ Active("seffect")
  /\ IF snap.at = "sready" THEN Transition([snap EXCEPT !.at = "seffect"])
     ELSE UNCHANGED <<disk, mem>>
  /\ Work("summary", NoWork)
  /\ UNCHANGED <<Lane, sealed, ids, ghosts>>

SummaryAnswer ==
  /\ Active("summary")
  /\ \E at \in {"sfailed", "scommit"} : Work(at, NoWork)
  /\ UNCHANGED <<Lane, disk, mem, sealed, ids, ghosts>>

Rescheduled(s) == [s EXCEPT !.at = "sretry", !.att = @ + 1]

SummaryFailure ==
  /\ Active("sfailed")
  /\ \/ /\ CancelSeen
        /\ Work("reconcile", NoWork)
        /\ UNCHANGED <<Lane, disk, mem, sealed, ids, ghosts>>
     \/ /\ ~CancelSeen /\ snap.att < MaxAttempts
        /\ Transition(Rescheduled(snap))
        /\ Leave
        /\ UNCHANGED <<Lane, sealed, ids, ghosts>>
     \/ /\ ~CancelSeen /\ snap.att = MaxAttempts
        /\ Settle(snap, "failed")

(* commit_compaction inside a run: the entry and the checkpoint it resumes in one commit. *)
CommitCompactionResume ==
  /\ Active("scommit") /\ intent = "run" /\ ~Duplicate(Offered)
  /\ disk' = [disk EXCEPT !.log = Append(@, Offered), !.op = Need(snap, snap.ov)]
  /\ mem' = Need(snap, snap.ov)
  /\ Work("continue", NoWork)
  /\ UNCHANGED <<Lane, sealed, ids, ghosts>>

(* commit_compaction of a compaction: the entry first, the result in a second commit. *)
CommitCompactionFinish ==
  /\ Active("scommit") /\ intent = "compaction" /\ ~Duplicate(Offered)
  /\ disk' = [disk EXCEPT !.log = Append(@, Offered)]
  /\ Work("settle", [NoWork EXCEPT !.out = "completed"])
  /\ UNCHANGED <<Lane, mem, sealed, ids, ghosts>>

(* commit_branch_summary commits without the lane's lock and applies afterwards. *)
CommitBranchSummary ==
  /\ Active("scommit") /\ intent = "summary" /\ ~Duplicate(Offered)
  /\ disk' = [disk EXCEPT !.log = Append(@, Offered), !.op = Leaf("navready", snap)]
  /\ Work("sapply", NoWork)
  /\ UNCHANGED <<Lane, mem, sealed, ids, ghosts>>

ApplyBranchSummary ==
  /\ Active("sapply")
  /\ mem' = Leaf("navready", snap)
  /\ Work("continue", NoWork)
  /\ UNCHANGED <<Lane, disk, sealed, ids, ghosts>>

(* navigation: the tip moves and the operation settles in one commit, which drops the *)
(* operation's own records but not its preparation.                                   *)
Navigation ==
  /\ Active("navready")
  /\ disk' = [disk EXCEPT !.op = NoOp, !.result = "completed"]
  /\ mem' = NoOp
  /\ Leave
  /\ UNCHANGED <<Lane, sealed, ids, ghosts>>

-----------------------------------------------------------------------------
(* request_abort. *)

AbortRead ==
  /\ Alive /\ ~sealed /\ ~rejected /\ abort.at = "idle"
  /\ aborts < MaxAborts /\ Bounded(2)
  /\ mem # NoOp /\ mem.ctl = "running"
  /\ abort' = [at |-> "commit", op |-> mem]
  /\ aborts' = aborts + 1
  /\ UNCHANGED <<intent, queued, crashed, disk, mem, driveVars, sealed, ids, ghosts>>

AbortIdle == abort' = [at |-> "idle", op |-> NoOp]

(* Mutant: the abort does not look at the durable state before it writes. *)
Abortable_Unread == ~sealed

(* The durable state decides whether anything is left to abort; what is written is the clone. *)
Abortable == ~sealed /\ disk.op # NoOp /\ disk.op.ctl = "running"

(* A commit that fails seals the harness; a drive under way goes on to its next look at that. *)
AbortCommit ==
  /\ Alive /\ abort.at = "commit"
  /\ \/ /\ ~Abortable
        /\ AbortIdle
        /\ UNCHANGED <<disk, queued, sealed>>
     \/ /\ Abortable
        /\ sealed' = TRUE
        /\ AbortIdle
        /\ UNCHANGED <<disk, queued>>
     \/ /\ Abortable
        /\ disk' = [disk EXCEPT !.op = Cancelled(abort.op)]
        /\ queued' = 0
        /\ abort' = [abort EXCEPT !.at = "apply"]
        /\ UNCHANGED sealed
  /\ UNCHANGED <<intent, crashed, aborts, mem, driveVars, ids, ghosts>>

AbortApply ==
  /\ Alive /\ abort.at = "apply"
  /\ mem' = IF mem = NoOp THEN NoOp ELSE Cancelled(abort.op)
  /\ abort' = [abort EXCEPT !.at = "signal"]
  /\ UNCHANGED <<intent, queued, crashed, aborts, disk, driveVars, sealed, ids, ghosts>>

(* The gate of the active drive is aborted, and the caller is told. *)
AbortSignal ==
  /\ Alive /\ abort.at = "signal"
  /\ gate' = (gate \/ pc # "idle")
  /\ acked' = TRUE
  /\ AbortIdle
  /\ UNCHANGED <<intent, queued, crashed, aborts, disk, mem, pc, snap, opts, work, sealed, ids,
                 sent, resent, ran, reran, stalled, rejected, cut>>

-----------------------------------------------------------------------------
(* The lane's other users, crashes and restarts. *)

Enqueue ==
  /\ Alive /\ ~sealed /\ ~rejected /\ mem # NoOp /\ intent = "run"
  /\ queued < MaxQueued /\ Room
  /\ queued' = queued + 1
  /\ UNCHANGED <<intent, abort, crashed, aborts, disk, mem, driveVars, sealed, ids, ghosts>>

Crash ==
  /\ Alive /\ crashed < 2 * MaxCrashes /\ Bounded(1)
  /\ crashed' = crashed + 1
  /\ mem' = NoOp /\ snap' = NoOp /\ pc' = "idle" /\ gate' = FALSE /\ work' = NoWork
  /\ AbortIdle
  /\ cut' = (cut \/ pc = "settle")
  /\ UNCHANGED <<intent, queued, aborts, disk, opts, sealed, ids,
                 sent, resent, ran, reran, acked, stalled, rejected>>

(* validate_state_intent. *)
KindOfIntent == IF intent \in {"navigation", "summary"} THEN "navigation" ELSE intent
KindOfState(s) ==
  CASE s.at \in {"deciding", "sready", "seffect", "sretry"} ->
         IF intent = "summary" THEN "navigation" ELSE "compaction"
    [] s.at = "navready" -> "navigation"
    [] OTHER -> "run"
ValidStateIntent(s) == s = NoOp \/ KindOfState(s) = KindOfIntent

(* restore_session: one lane that does not validate fails the whole session. *)
Restore ==
  /\ ~Alive
  /\ crashed' = crashed + 1
  /\ sealed' = FALSE
  /\ IF ValidStateIntent(disk.op) THEN mem' = disk.op /\ UNCHANGED rejected
     ELSE rejected' = TRUE /\ UNCHANGED mem
  /\ UNCHANGED <<intent, queued, abort, aborts, disk, driveVars, ids,
                 sent, resent, ran, reran, acked, stalled, cut>>

-----------------------------------------------------------------------------
DriveStep ==
  \/ ReadOperation \/ Continue \/ SettleStep \/ Reconcile \/ StartRun
  \/ CheckpointNeed \/ CheckpointFinish \/ StartCompaction \/ AssistantReady
  \/ FinishBoundary \/ BeforeRunEnd \/ Redrain \/ Renew
  \/ Generation \/ DeferredPoll \/ StreamRefused \/ StreamStart \/ StreamFrame \/ StreamEnd
  \/ StreamFailure \/ DeferredFailure \/ Publish \/ CommitAssistant \/ RetryScheduled
  \/ RecoverAssistantEffect \/ RetryWait
  \/ ToolsStart \/ ToolMark \/ ToolRecover \/ ToolExecute \/ ToolStage \/ ToolReady
  \/ SequenceDone
  \/ \E c \in Calls : ParallelExecute(c) \/ ParallelResult(c)
  \/ ParallelReread \/ ParallelReady \/ ParallelDone \/ CommitToolResults
  \/ StartSummary \/ SummaryRequest \/ SummaryAnswer \/ SummaryFailure
  \/ CommitCompactionResume \/ CommitCompactionFinish \/ CommitBranchSummary
  \/ ApplyBranchSummary \/ Navigation \/ CommitRejected

AbortStep == AbortCommit \/ AbortApply \/ AbortSignal

Next == Drive \/ DriveStep \/ DriveError \/ StoreFails \/ AbortRead \/ AbortStep \/ Enqueue
        \/ Crash \/ Restore

Spec == Init /\ [][Next]_vars

-----------------------------------------------------------------------------
(* Properties. *)

Positions == Stages \union
  {"idle", "loop", "continue", "settle", "reconcile", "need2", "finish2", "hook", "redrain",
   "renew", "stream", "frames", "failure", "publish", "commit", "scheduled", "recover",
   "sequence", "execute", "stage", "staged", "parallel", "pstaged", "pready", "results",
   "summary", "sfailed", "scommit", "sapply"}

(* The variables have their types: the drive's position, its snapshot and the abort's clone are *)
(* states of the operation, and the durable records belong to it.                               *)
TypeOK ==
  /\ intent \in Intents
  /\ disk.op \in Operations \union {NoOp} /\ disk.result \in Statuses \union {"none"}
  /\ disk.frames \subseteq 1..MaxIds /\ disk.staged \subseteq Calls /\ disk.prep \in BOOLEAN
  /\ mem \in Operations \union {NoOp} /\ snap \in Operations \union {NoOp}
  /\ abort.op \in Operations \union {NoOp}
  /\ abort.at \in {"idle", "commit", "apply", "signal"}
  /\ pc \in Positions /\ queued \in 0..MaxQueued /\ gate \in BOOLEAN
  /\ work.next \in Operations \union {NoOp}
  /\ work.calls \in [Calls -> {"planned", "pending", "ready"}]

(* No effect is performed twice, whatever crashes, aborts and re-drives happen between marking   *)
(* it, performing it and committing what it returned: a tool call that was started is never      *)
(* executed again (run_sequential_tool, parallel_tools, recover_sequential_tool), and a request   *)
(* that may have reached the provider is never sent again (recover_assistant_effect).             *)
EffectsAtMostOnce == ~reran /\ ~resent

(* No commit of the drive is rejected for an id that is already in the log; a rejection seals the *)
(* harness (commit_assistant, commit_tool_results, commit_compaction, commit_branch_summary).    *)
NoDuplicateCommit == Committing => ~Duplicate(Offered)

(* It can happen only after an abort has written back an old state, or to a compaction whose      *)
(* drive ended, by an error or with the process, between its two commits.                        *)
DuplicatesExplained ==
  aborts = 0 /\ (intent = "compaction" => ~cut) => NoDuplicateCommit

(* Unless an abort was requested, the lane's copy is the durable operation whenever no drive is  *)
(* under way, after restarts and errors too.                                                     *)
MemoryFollowsDisk ==
  Alive /\ ~sealed /\ ~rejected /\ pc = "idle" /\ aborts = 0 => mem = disk.op

(* A settled operation is never reopened or settled again, by a late abort or a second drive. *)
SettledForGood ==
  [][disk.result # "none" => disk'.result = disk.result /\ disk'.op = NoOp]_vars

(* Over crashes, errors and restarts, a run is completed only by an answer or by the results of  *)
(* its tools, and not by a failed, truncated or interrupted response (commit_assistant,          *)
(* finish_run_boundary); unless a drive ended between that response and the run's result.        *)
Answers == {k \in DOMAIN disk.log : disk.log[k].kind # "summary"}
CompletedIsAnswered ==
  ~cut /\ intent = "run" /\ disk.result = "completed" /\ Answers # {} =>
    \E k \in Answers : disk.log[k].kind \in {"stop", "results"} /\ \A j \in Answers : j <= k

(* Until something other than an error arrives, a run sends at most max_attempts requests, over  *)
(* crashes, errors and drives anew (stream_failure, assistant_response_state, retry_wait); unless *)
(* a drive ended after the last of them and before the run's result.                             *)
Asked == {s \in sent : \A k \in DOMAIN disk.log : disk.log[k].kind # "error" => k <= s[1]}
RetriesBounded == ~cut => Cardinality(Asked) <= MaxAttempts

(* The caller of request_abort was told that the abort is new: it is durable until the operation *)
(* settles (admission.rs: "Durably mark an operation for cancellation").                         *)
AckedAbortIsDurable == acked /\ disk.op # NoOp => disk.op.ctl = "cancel"

(* A durable assistant.effect_pending means that the response is not yet in the log: operation.rs *)
(* says that "its durable effects ... are not yet confirmed".                                     *)
PendingIsUnconfirmed ==
  disk.op.at = "effect" => ~Duplicate(Entry(disk.op.id, "interrupted"))

(* The boundary's early return for a cancelled operation leads to reconciliation, not to the *)
(* drive's no-progress error (drive.rs: "the drive loop then reconciles the abort").         *)
DriveProgresses == ~stalled

(* Every durable state of an open operation is one that restore_session accepts (harness.rs: *)
(* "restores every open operation").                                                         *)
Restorable == ValidStateIntent(disk.op)

(* The preparation of a summary is gone once the operation has settled (operation.rs: the writes *)
(* of a summary include the "preparation cleanup").                                              *)
PreparationCleaned == disk.op = NoOp => ~disk.prep

=============================================================================
