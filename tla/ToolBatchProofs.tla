--------------------------- MODULE ToolBatchProofs ---------------------------
(* Theorems about ToolBatch for every number of calls, of workers and of updates. *)
EXTENDS ToolBatch, FiniteSetTheorems, WellFoundedInduction, SequenceTheorems, TLAPS

(* The calls with an update in the channel. *)
Buffered == {channel[k] : k \in DOMAIN channel}

-----------------------------------------------------------------------------
(* The invariant. *)

(* Where the coordinator can be in each mode. *)
CursorInv ==
  /\ at \in {"start", "prepare", "execute", "finalize"} => next <= N
  /\ at \in {"execute", "finalize"} => mode = "sequential"
  /\ at \in {"spawn", "collect", "drain", "emit"} => mode = "parallel"
  /\ mode = "parallel" /\ at \notin {"start", "prepare"} => next = N + 1
  /\ mode = "truncated" => at \in {"start", "done"}
  /\ at = "drain" => cancelled

(* The calls up to the cursor have been started, once. *)
Begun(i) == i < next \/ (i = next /\ at # "start")
StartInv == mode # "truncated" => \A i \in Calls : starts[i] = IF Begun(i) THEN 1 ELSE 0

(* A truncated batch ends its calls in one step. *)
TruncatedInv ==
  mode = "truncated" =>
    /\ at = "start" => messages = <<>> /\ \A i \in Calls : starts[i] = 0 /\ ends[i] = 0
    /\ at = "done" => messages = [i \in Calls |-> i] /\ \A i \in Calls : starts[i] = 1 /\ ends[i] = 1
    /\ Buffered = {} /\ late = {} /\ \A i \in Calls : worker[i] = "none" /\ inFlight[i] = 0 /\ ~accepting[i]

(* A sequential batch has one call under way; its updates are the only ones in the channel. *)
Answered == IF at = "done" /\ next <= N THEN next ELSE next - 1
SequentialInv ==
  mode = "sequential" =>
    /\ \A i \in Calls :
         /\ i > next => worker[i] = "none"
         /\ i < next \/ (i = next /\ at = "done") => worker[i] \in {"none", "joined"}
         /\ ends[i] = IF i < next \/ (i = next /\ at = "done") THEN 1 ELSE 0
    /\ at \in {"start", "prepare"} => worker[next] = "none"
    /\ at = "execute" => worker[next] \notin {"none", "queued", "joined"}
    /\ at = "finalize" => worker[next] = "joined"
    /\ messages = [k \in 1..Answered |-> k]
    /\ at = "done" => cancelled \/ next = N + 1
    /\ \A i \in Buffered : at = "execute" /\ i = next
    /\ late = {}

(* A parallel batch has ended the calls that never had a worker or whose worker was joined.  *)
(* Until it is cancelled a queued call has a live worker to make room for it.                *)
ParallelInv ==
  mode = "parallel" =>
    /\ \A i \in Calls :
         /\ i >= next => worker[i] = "none"
         /\ at \in {"start", "prepare", "spawn"} => worker[i] \in {"none", "queued"}
         /\ at \in {"emit", "done"} => worker[i] \in {"none", "joined"}
         /\ ends[i] = IF i < next /\ worker[i] \in {"none", "joined"} THEN 1 ELSE 0
    /\ at = "collect" /\ ~cancelled /\ Queued # {} => Live # {}
    /\ messages = IF at = "done" THEN [i \in Calls |-> i] ELSE <<>>

(* How a call was settled fits the state of its worker. *)
OutcomeInv ==
  \A i \in Calls :
    /\ outcome[i] # "lost"
    /\ worker[i] \in {"queued", "spawned", "running"} => outcome[i] = "none"
    /\ worker[i] \in {"stopping", "after", "joinable", "joined"} => outcome[i] # "none"
    /\ i < next /\ worker[i] = "none" => outcome[i] # "none"
    /\ mode # "truncated" /\ (i > next \/ (i = next /\ at \in {"start", "prepare"})) => outcome[i] = "none"
    /\ outcome[i] = "panicked" => worker[i] \in {"joinable", "joined"}

(* In a parallel batch only a worker that panicked leaves an update behind. *)
UpdateInv ==
  mode = "parallel" =>
    /\ \A i \in Calls :
         /\ accepting[i] => worker[i] = "running" \/ outcome[i] = "panicked"
         /\ inFlight[i] = 1 => worker[i] \in {"running", "stopping"} \/ outcome[i] = "panicked"
         /\ i \in late => outcome[i] = "panicked" /\ ends[i] > 0
         /\ i \in Buffered => /\ worker[i] \notin {"none", "queued", "spawned"}
                              /\ ends[i] > 0 => outcome[i] = "panicked"

BatchInv ==
  /\ TypeOK /\ CursorInv /\ StartInv /\ TruncatedInv /\ SequentialInv /\ ParallelInv
  /\ OutcomeInv /\ UpdateInv

-----------------------------------------------------------------------------
(* The channel, and what is published from it. *)

LEMMA BufferedCalls ==
  ASSUME TypeOK
  PROVE  Buffered \subseteq Calls
BY DEF TypeOK, Buffered

LEMMA ChannelSame ==
  ASSUME channel' = channel
  PROVE  Buffered' = Buffered
BY DEF Buffered

LEMMA ChannelEmptied ==
  ASSUME channel' = <<>>
  PROVE  Buffered' = {}
BY DEF Buffered

LEMMA ChannelRead ==
  ASSUME TypeOK, channel # <<>>, channel' = Tail(channel)
  PROVE  Buffered' \subseteq Buffered /\ Head(channel) \in Buffered /\ channel' \in Seq(Calls)
<1>1. channel \in Seq(Calls) /\ Len(channel) \in Nat \ {0}
  BY EmptySeq DEF TypeOK
<1>2. channel' \in Seq(Calls) /\ \A k \in DOMAIN channel' : k + 1 \in DOMAIN channel /\ channel'[k] = channel[k + 1]
  BY <1>1
<1>3. 1 \in DOMAIN channel /\ Head(channel) = channel[1]
  BY <1>1
<1>4. QED
  BY <1>2, <1>3 DEF Buffered

LEMMA ChannelWritten ==
  ASSUME TypeOK, NEW i \in Calls, channel' = Append(channel, i)
  PROVE  Buffered' = Buffered \union {i} /\ channel' \in Seq(Calls)
<1>1. channel \in Seq(Calls) /\ Len(channel) \in Nat
  BY DEF TypeOK
<1>2. /\ DOMAIN channel' = DOMAIN channel \union {Len(channel) + 1} /\ channel'[Len(channel) + 1] = i
      /\ \A k \in DOMAIN channel : channel'[k] = channel[k]
  BY <1>1
<1>3. QED
  BY <1>1, <1>2 DEF Buffered

LEMMA PublishesAll ==
  ASSUME Publish(channel)
  PROVE  late' = late \union {i \in Buffered : ends[i] > 0}
BY DEF Publish, Buffered

LEMMA PublishesOne ==
  ASSUME TypeOK, channel # <<>>, Publish(<<Head(channel)>>)
  PROVE  late' \subseteq late \union {i \in Buffered : ends[i] > 0}
<1>1. Head(channel) \in Buffered
  <2>1. channel \in Seq(Calls) /\ Len(channel) \in Nat \ {0}
    BY EmptySeq DEF TypeOK
  <2>2. 1 \in DOMAIN channel /\ Head(channel) = channel[1]
    BY <2>1
  <2>3. QED
    BY <2>2 DEF Buffered
<1>2. QED
  BY <1>1 DEF Publish

-----------------------------------------------------------------------------
(* The workers. *)

Body == {"spawned", "running", "stopping", "after", "joinable"}

(* A worker goes on, and nobody has joined it. *)
WorkerMoves(i) ==
  /\ worker[i] \in Body /\ \E w \in Body : worker' = [worker EXCEPT ![i] = w]
  /\ UNCHANGED <<coordVars, cancelled, channel, eventVars>>

LEMMA WorkerMoveKeeps ==
  ASSUME BatchInv, NEW i \in Calls, WorkerMoves(i)
  PROVE  /\ CursorInv' /\ StartInv' /\ TruncatedInv' /\ SequentialInv' /\ ParallelInv'
         /\ i < next \/ (i = next /\ at = "execute")
<1> USE DEF Body
<1>1. /\ TypeOK /\ CursorInv /\ StartInv /\ TruncatedInv /\ SequentialInv /\ ParallelInv
      /\ UNCHANGED <<mode, at, next, cancelled, channel, starts, ends, late, messages>>
  BY DEF BatchInv, WorkerMoves, coordVars, eventVars
<1>2. PICK w \in Body : worker' = [worker EXCEPT ![i] = w]
  BY DEF WorkerMoves
<1>3. worker[i] \in Body /\ worker \in [Calls -> WorkerStates]
  BY <1>1 DEF WorkerMoves, TypeOK
<1>4. mode # "truncated"
  BY <1>1, <1>3 DEF TruncatedInv
<1>5. Buffered' = Buffered
  BY <1>1, ChannelSame
<1>6. CursorInv' /\ StartInv'
  BY <1>1 DEF CursorInv, StartInv, Begun
<1>7. ASSUME mode = "sequential" PROVE i = next /\ at = "execute"
  <2>1. i \in Nat /\ next \in Nat
    BY <1>1, ToolBatchAssumption DEF Calls, TypeOK
  <2>2. i = next
    BY <1>1, <1>3, <1>7, <2>1 DEF SequentialInv
  <2>3. at \notin {"start", "prepare", "finalize", "done"}
    BY <1>1, <1>3, <1>7, <2>2 DEF SequentialInv
  <2>4. at \notin {"spawn", "collect", "drain", "emit"} /\ at \in Positions
    BY <1>1, <1>7 DEF CursorInv, TypeOK
  <2>5. QED
    BY <2>2, <2>3, <2>4 DEF Positions
<1>8. SequentialInv'
  BY <1>1, <1>2, <1>3, <1>5, <1>7 DEF SequentialInv, Answered
<1>9. ParallelInv'
  <2>1. SUFFICES ASSUME mode = "parallel" PROVE ParallelInv'
    BY <1>1 DEF ParallelInv
  <2>2. Live' = Live /\ Queued' = Queued
    BY <1>2, <1>3 DEF Live, Queued
  <2>3. QED
    BY <1>1, <1>2, <1>3, <2>1, <2>2 DEF ParallelInv
<1>10. mode = "parallel" => i < next
  <2>1. i \in Nat /\ next \in Nat
    BY <1>1, ToolBatchAssumption DEF Calls, TypeOK
  <2>2. mode = "parallel" => ~(i >= next)
    BY <1>1, <1>3 DEF ParallelInv
  <2>3. QED
    BY <2>1, <2>2
<1>11. QED
  BY <1>1, <1>4, <1>6, <1>7, <1>8, <1>9, <1>10 DEF TruncatedInv, TypeOK

(* The gate. *)
LEMMA AdmitKeeps ==
  ASSUME BatchInv, NEW i \in Calls, Admit(i)
  PROVE  BatchInv'
<1>1. TypeOK /\ OutcomeInv /\ UpdateInv
  BY DEF BatchInv
<1>2. WorkerMoves(i)
  BY DEF Admit, WorkerMoves, Body, coordVars, eventVars
<1>3. TypeOK'
  BY <1>1 DEF Admit, TypeOK, WorkerStates, Settlements, coordVars, updateVars, eventVars
<1>4. ~(i > next) /\ ~(i = next /\ at \in {"start", "prepare"})
  BY <1>1, <1>2, WorkerMoveKeeps, ToolBatchAssumption DEF TypeOK, Calls
<1>5. OutcomeInv'
  BY <1>1, <1>4 DEF Admit, TypeOK, OutcomeInv, coordVars
<1>6. UpdateInv'
  <2>1. Buffered' = Buffered
    BY ChannelSame DEF Admit
  <2>2. QED
    BY <1>1, <2>1 DEF Admit, TypeOK, OutcomeInv, UpdateInv, coordVars, updateVars, eventVars
<1>7. QED
  BY <1>2, <1>3, <1>5, <1>6, WorkerMoveKeeps DEF BatchInv

(* A body is dropped: its handle accepts nothing more. *)
LEMMA ForceAbortKeeps ==
  ASSUME BatchInv, NEW i \in Calls, ForceAbort(i)
  PROVE  BatchInv'
<1>1. TypeOK /\ OutcomeInv /\ UpdateInv
  BY DEF BatchInv
<1>2. WorkerMoves(i)
  BY DEF ForceAbort, Overdue, WorkerMoves, Body, coordVars, eventVars
<1>3. TypeOK'
  BY <1>1 DEF ForceAbort, Overdue, TypeOK, WorkerStates, Settlements, coordVars, updateVars, eventVars
<1>4. ~(i > next) /\ ~(i = next /\ at \in {"start", "prepare"})
  BY <1>1, <1>2, WorkerMoveKeeps, ToolBatchAssumption DEF TypeOK, Calls
<1>5. OutcomeInv'
  BY <1>1, <1>4 DEF ForceAbort, Overdue, TypeOK, OutcomeInv, coordVars
<1>6. UpdateInv'
  <2>1. Buffered' = Buffered
    BY ChannelSame DEF ForceAbort
  <2>2. QED
    BY <1>1, <2>1 DEF ForceAbort, Overdue, TypeOK, OutcomeInv, UpdateInv, coordVars, updateVars, eventVars
<1>7. QED
  BY <1>2, <1>3, <1>5, <1>6, WorkerMoveKeeps DEF BatchInv

(* No accepted callback is running when stop_accepting returns. *)
LEMMA StoppedKeeps ==
  ASSUME BatchInv, NEW i \in Calls, Stopped(i)
  PROVE  BatchInv'
<1>1. TypeOK /\ OutcomeInv /\ UpdateInv
  BY DEF BatchInv
<1>2. WorkerMoves(i)
  BY DEF Stopped, Quiet, WorkerMoves, Body, coordVars, eventVars
<1>3. TypeOK'
  BY <1>1 DEF Stopped, Quiet, TypeOK, WorkerStates, Settlements, coordVars, updateVars, eventVars
<1>4. ~(i > next) /\ ~(i = next /\ at \in {"start", "prepare"})
  BY <1>1, <1>2, WorkerMoveKeeps, ToolBatchAssumption DEF TypeOK, Calls
<1>5. OutcomeInv'
  BY <1>1, <1>4 DEF Stopped, Quiet, TypeOK, OutcomeInv, coordVars
<1>6. UpdateInv'
  <2>1. Buffered' = Buffered
    BY ChannelSame DEF Stopped
  <2>2. QED
    BY <1>1, <2>1 DEF Stopped, Quiet, TypeOK, OutcomeInv, UpdateInv, coordVars, updateVars, eventVars
<1>7. QED
  BY <1>2, <1>3, <1>5, <1>6, WorkerMoveKeeps DEF BatchInv

(* The tool returns: its handle accepts nothing more. *)
LEMMA ReturnKeeps ==
  ASSUME BatchInv, NEW i \in Calls, Return(i)
  PROVE  BatchInv'
<1>1. TypeOK /\ OutcomeInv /\ UpdateInv
  BY DEF BatchInv
<1>2. WorkerMoves(i)
  BY DEF Return, WorkerMoves, Body, coordVars, eventVars
<1>3. TypeOK'
  BY <1>1 DEF Return, TypeOK, WorkerStates, Settlements, coordVars, updateVars, eventVars
<1>4. ~(i > next) /\ ~(i = next /\ at \in {"start", "prepare"})
  BY <1>1, <1>2, WorkerMoveKeeps, ToolBatchAssumption DEF TypeOK, Calls
<1>5. OutcomeInv'
  BY <1>1, <1>4 DEF Return, TypeOK, OutcomeInv, coordVars
<1>6. UpdateInv'
  <2>1. Buffered' = Buffered
    BY ChannelSame DEF Return
  <2>2. QED
    BY <1>1, <2>1 DEF Return, TypeOK, OutcomeInv, UpdateInv, coordVars, updateVars, eventVars
<1>7. QED
  BY <1>2, <1>3, <1>5, <1>6, WorkerMoveKeeps DEF BatchInv

LEMMA AfterHookKeeps ==
  ASSUME BatchInv, NEW i \in Calls, AfterHook(i)
  PROVE  BatchInv'
<1>1. TypeOK /\ OutcomeInv /\ UpdateInv
  BY DEF BatchInv
<1>2. WorkerMoves(i)
  BY DEF AfterHook, WorkerMoves, Body, coordVars, eventVars
<1>3. TypeOK'
  BY <1>1 DEF AfterHook, TypeOK, WorkerStates, Settlements, coordVars, updateVars, eventVars
<1>4. ~(i > next) /\ ~(i = next /\ at \in {"start", "prepare"})
  BY <1>1, <1>2, WorkerMoveKeeps, ToolBatchAssumption DEF TypeOK, Calls
<1>5. OutcomeInv'
  BY <1>1, <1>4 DEF AfterHook, TypeOK, OutcomeInv, coordVars
<1>6. UpdateInv'
  <2>1. Buffered' = Buffered
    BY ChannelSame DEF AfterHook
  <2>2. QED
    BY <1>1, <2>1 DEF AfterHook, TypeOK, OutcomeInv, UpdateInv, coordVars, updateVars, eventVars
<1>7. QED
  BY <1>2, <1>3, <1>5, <1>6, WorkerMoveKeeps DEF BatchInv

(* A worker that panics keeps its handle open. *)
LEMMA PanicKeeps ==
  ASSUME BatchInv, NEW i \in Calls, Panic(i)
  PROVE  BatchInv'
<1>1. TypeOK /\ OutcomeInv /\ UpdateInv
  BY DEF BatchInv
<1>2. WorkerMoves(i)
  BY DEF Panic, WorkerMoves, Body, coordVars, eventVars
<1>3. TypeOK'
  BY <1>1 DEF Panic, TypeOK, WorkerStates, Settlements, coordVars, updateVars, eventVars
<1>4. ~(i > next) /\ ~(i = next /\ at \in {"start", "prepare"})
  BY <1>1, <1>2, WorkerMoveKeeps, ToolBatchAssumption DEF TypeOK, Calls
<1>5. OutcomeInv'
  BY <1>1, <1>4 DEF Panic, TypeOK, OutcomeInv, coordVars
<1>6. UpdateInv'
  <2>1. Buffered' = Buffered
    BY ChannelSame DEF Panic
  <2>2. QED
    BY <1>1, <2>1 DEF Panic, TypeOK, OutcomeInv, UpdateInv, coordVars, updateVars, eventVars
<1>7. QED
  BY <1>2, <1>3, <1>5, <1>6, WorkerMoveKeeps DEF BatchInv

(* The handle: an update is accepted only while its worker runs, or after it panicked. *)
LEMMA SendAcceptedKeeps ==
  ASSUME BatchInv, NEW i \in Calls, SendAccepted(i)
  PROVE  BatchInv'
<1>1. /\ TypeOK /\ CursorInv /\ StartInv /\ TruncatedInv /\ SequentialInv /\ ParallelInv
      /\ OutcomeInv /\ UpdateInv
  BY DEF BatchInv
<1>2. /\ accepting[i] /\ inFlight' = [inFlight EXCEPT ![i] = 1] /\ sends' \in [Calls -> Nat]
      /\ UNCHANGED <<mode, at, next, cancelled, worker, outcome, accepting, channel, starts, ends, late, messages>>
  BY <1>1 DEF SendAccepted, TypeOK, coordVars, eventVars
<1>3. Buffered' = Buffered /\ Live' = Live /\ Queued' = Queued
  BY <1>2, ChannelSame DEF Live, Queued
<1>4. TypeOK'
  <2>1. inFlight' \in [Calls -> 0..1]
    BY <1>1, <1>2 DEF TypeOK
  <2>2. QED
    BY <1>1, <1>2, <2>1 DEF TypeOK
<1>5. CursorInv' /\ StartInv' /\ OutcomeInv'
  BY <1>1, <1>2 DEF CursorInv, StartInv, Begun, OutcomeInv
<1>6. TruncatedInv'
  BY <1>1, <1>2 DEF TruncatedInv
<1>7. SequentialInv'
  BY <1>1, <1>2, <1>3 DEF SequentialInv, Answered
<1>8. ParallelInv'
  BY <1>1, <1>2, <1>3 DEF ParallelInv
<1>9. UpdateInv'
  BY <1>1, <1>2, <1>3 DEF UpdateInv, TypeOK
<1>10. QED
  BY <1>4, <1>5, <1>6, <1>7, <1>8, <1>9 DEF BatchInv

(* An update reaches the channel only while its receiver exists. *)
LEMMA SendDeliveredKeeps ==
  ASSUME BatchInv, NEW i \in Calls, SendDelivered(i)
  PROVE  BatchInv'
<1>1. /\ TypeOK /\ CursorInv /\ StartInv /\ TruncatedInv /\ SequentialInv /\ ParallelInv
      /\ OutcomeInv /\ UpdateInv
  BY DEF BatchInv
<1>2. /\ inFlight[i] = 1 /\ inFlight' = [inFlight EXCEPT ![i] = 0]
      /\ channel' = channel \/ (Receiving(i) /\ channel' = Append(channel, i))
      /\ UNCHANGED <<mode, at, next, cancelled, worker, outcome, accepting, sends, starts, ends, late, messages>>
  BY DEF SendDelivered, coordVars, eventVars
<1>3. Live' = Live /\ Queued' = Queued
  BY <1>2 DEF Live, Queued
<1>4. /\ Buffered' = Buffered \/ (Receiving(i) /\ Buffered' = Buffered \union {i})
      /\ channel' \in Seq(Calls)
  BY <1>1, <1>2, ChannelSame, ChannelWritten DEF TypeOK
<1>5. TypeOK'
  <2>1. inFlight' \in [Calls -> 0..1]
    BY <1>1, <1>2 DEF TypeOK
  <2>2. QED
    BY <1>1, <1>2, <1>4, <2>1 DEF TypeOK
<1>6. CursorInv' /\ StartInv' /\ OutcomeInv'
  BY <1>1, <1>2 DEF CursorInv, StartInv, Begun, OutcomeInv
<1>7. mode # "truncated"
  BY <1>1, <1>2 DEF TruncatedInv
<1>8. SequentialInv'
  BY <1>1, <1>2, <1>4 DEF SequentialInv, Answered, Receiving
<1>9. ParallelInv'
  BY <1>1, <1>2, <1>3 DEF ParallelInv
<1>10. UpdateInv'
  <2>1. SUFFICES ASSUME mode = "parallel" PROVE UpdateInv'
    BY <1>2 DEF UpdateInv
  <2>2. /\ worker[i] \notin {"none", "queued", "spawned", "joined"} \/ outcome[i] = "panicked"
        /\ worker[i] \notin {"none", "queued", "spawned"}
    BY <1>1, <1>2, <2>1 DEF UpdateInv, OutcomeInv
  <2>3. ends[i] > 0 => outcome[i] = "panicked"
    BY <1>1, <2>1, <2>2 DEF ParallelInv
  <2>4. QED
    BY <1>1, <1>2, <1>4, <2>1, <2>2, <2>3 DEF UpdateInv, TypeOK
<1>11. QED
  BY <1>2, <1>5, <1>6, <1>7, <1>8, <1>9, <1>10 DEF BatchInv, TruncatedInv

LEMMA CancelKeeps ==
  ASSUME BatchInv, Cancel
  PROVE  BatchInv'
<1>1. /\ TypeOK /\ CursorInv /\ StartInv /\ TruncatedInv /\ SequentialInv /\ ParallelInv
      /\ OutcomeInv /\ UpdateInv
  BY DEF BatchInv
<1>2. /\ cancelled' = TRUE
      /\ UNCHANGED <<mode, at, next, worker, outcome, accepting, inFlight, sends, channel, starts, ends, late, messages>>
  BY DEF Cancel, coordVars, updateVars, eventVars
<1>3. Buffered' = Buffered /\ Live' = Live /\ Queued' = Queued
  BY <1>2, ChannelSame DEF Live, Queued
<1>4. TypeOK' /\ CursorInv' /\ StartInv' /\ OutcomeInv'
  BY <1>1, <1>2 DEF TypeOK, CursorInv, StartInv, Begun, OutcomeInv
<1>5. TruncatedInv' /\ UpdateInv'
  BY <1>1, <1>2, <1>3 DEF TruncatedInv, UpdateInv
<1>6. SequentialInv' /\ ParallelInv'
  BY <1>1, <1>2, <1>3 DEF SequentialInv, Answered, ParallelInv
<1>7. QED
  BY <1>4, <1>5, <1>6 DEF BatchInv

-----------------------------------------------------------------------------
(* The coordinator starts and prepares the calls. *)

LEMMA CursorCall ==
  ASSUME BatchInv, at \in {"start", "prepare", "execute", "finalize"}
  PROVE  next \in Calls /\ next \in Nat /\ N \in Nat
BY ToolBatchAssumption DEF BatchInv, TypeOK, CursorInv, Calls

LEMMA FailTruncatedKeeps ==
  ASSUME BatchInv, FailTruncated
  PROVE  BatchInv'
<1>1. TypeOK /\ TruncatedInv
  BY DEF BatchInv
<1>2. /\ mode = "truncated" /\ at = "start" /\ at' = "done"
      /\ starts' = [i \in Calls |-> 1] /\ ends' = [i \in Calls |-> ends[i] + 1]
      /\ messages' = [i \in Calls |-> i] /\ outcome' = [i \in Calls |-> "refused"]
      /\ UNCHANGED <<mode, next, cancelled, worker, accepting, inFlight, sends, channel, late>>
  BY DEF FailTruncated, EndCalls, updateVars
<1>3. messages' \in Seq(Calls)
  BY <1>2, ToolBatchAssumption DEF Calls
<1>4. TypeOK'
  <2>1. ends' \in [Calls -> Nat] /\ starts' \in [Calls -> Nat] /\ outcome' \in [Calls -> Settlements]
    BY <1>1, <1>2 DEF TypeOK, Settlements
  <2>2. QED
    BY <1>1, <1>2, <1>3, <2>1 DEF TypeOK, Positions
<1>5. TruncatedInv'
  BY <1>1, <1>2, ChannelSame DEF TruncatedInv
<1>6. OutcomeInv'
  BY <1>1, <1>2 DEF TruncatedInv, OutcomeInv
<1>7. QED
  BY <1>2, <1>4, <1>5, <1>6 DEF BatchInv, CursorInv, StartInv, SequentialInv, ParallelInv, UpdateInv

LEMMA StartKeeps ==
  ASSUME BatchInv, Start
  PROVE  BatchInv'
<1>1. /\ TypeOK /\ CursorInv /\ StartInv /\ TruncatedInv /\ SequentialInv /\ ParallelInv
      /\ OutcomeInv /\ UpdateInv
  BY DEF BatchInv
<1>2. /\ mode # "truncated" /\ at = "start" /\ at' = "prepare" /\ starts' = [starts EXCEPT ![next] = @ + 1]
      /\ UNCHANGED <<mode, next, cancelled, worker, outcome, accepting, inFlight, sends, channel, ends, late, messages>>
  BY DEF Start, updateVars
<1>3. Buffered' = Buffered /\ Live' = Live /\ Queued' = Queued
  BY <1>2, ChannelSame DEF Live, Queued
<1>4. next \in Calls /\ next \in Nat /\ N \in Nat
  BY <1>2, CursorCall
<1>5. TypeOK'
  <2>1. starts' \in [Calls -> Nat]
    BY <1>1, <1>2, <1>4 DEF TypeOK
  <2>2. QED
    BY <1>1, <1>2, <2>1 DEF TypeOK, Positions
<1>6. CursorInv' /\ OutcomeInv'
  BY <1>1, <1>2 DEF CursorInv, OutcomeInv
<1>7. StartInv'
  <2>1. starts[next] = 0
    BY <1>1, <1>2, <1>4 DEF StartInv, Begun
  <2>2. QED
    BY <1>1, <1>2, <1>4, <2>1 DEF TypeOK, StartInv, Begun, Calls
<1>8. SequentialInv'
  BY <1>1, <1>2, <1>3 DEF SequentialInv, Answered
<1>9. ParallelInv' /\ UpdateInv'
  BY <1>1, <1>2, <1>3 DEF ParallelInv, UpdateInv
<1>10. QED
  BY <1>2, <1>5, <1>6, <1>7, <1>8, <1>9 DEF BatchInv, TruncatedInv

(* The end of a sequential call. *)
LEMMA SettleSequentialKeeps ==
  ASSUME BatchInv, mode = "sequential", at \in {"prepare", "finalize"},
         NEW settlement \in Settlements \ {"none", "lost"},
         settlement = "panicked" => worker[next] = "joined", SettleSequential(settlement),
         UNCHANGED <<mode, cancelled, worker, updateVars, channel, starts, late>>
  PROVE  BatchInv'
<1>1. TypeOK /\ CursorInv /\ StartInv /\ SequentialInv /\ OutcomeInv
  BY DEF BatchInv
<1>2. /\ outcome' = [outcome EXCEPT ![next] = settlement]
      /\ ends' = [i \in Calls |-> IF i = next THEN ends[i] + 1 ELSE ends[i]]
      /\ messages' = Append(messages, next)
      /\ UNCHANGED <<mode, cancelled, worker, accepting, inFlight, sends, channel, starts, late>>
  BY DEF SettleSequential, EndCalls, updateVars
<1>3. next \in Calls /\ next \in Nat /\ N \in Nat
  BY CursorCall
<1>4. \/ cancelled /\ at' = "done" /\ next' = next
      \/ next' = next + 1 /\ next < N /\ at' = "start"
      \/ next' = next + 1 /\ next = N /\ at' = "done"
  BY <1>3 DEF SettleSequential, Stops, Advance, Calls
<1>5. Buffered = {} /\ Buffered' = {}
  <2>1. Buffered = {}
    BY <1>1 DEF SequentialInv
  <2>2. QED
    BY <1>2, <2>1, ChannelSame
<1>6. messages' = [k \in 1..next |-> k] /\ messages' \in Seq(Calls)
  <2>1. Answered = next - 1 /\ messages = [k \in 1..(next - 1) |-> k]
    BY <1>1 DEF SequentialInv, Answered
  <2>2. messages \in Seq(Calls) /\ Len(messages) = next - 1
    BY <1>1, <1>3, <2>1 DEF TypeOK
  <2>3. /\ messages' \in Seq(Calls) /\ Len(messages') = next /\ messages'[next] = next
        /\ \A k \in 1..(next - 1) : messages'[k] = messages[k]
    BY <1>2, <1>3, <2>2
  <2>4. DOMAIN messages' = 1..next /\ \A k \in 1..next : messages'[k] = k
    BY <1>3, <2>1, <2>3
  <2>5. QED
    BY <2>3, <2>4
<1>7. TypeOK'
  <2>1. ends' \in [Calls -> Nat] /\ outcome' \in [Calls -> Settlements]
    BY <1>1, <1>2, <1>3 DEF TypeOK
  <2>2. next' \in 1..(N + 1) /\ at' \in Positions
    BY <1>3, <1>4 DEF Positions, Calls
  <2>3. QED
    BY <1>1, <1>2, <1>6, <2>1, <2>2 DEF TypeOK
<1>8. CursorInv'
  BY <1>1, <1>2, <1>3, <1>4 DEF CursorInv
<1>9. StartInv'
  BY <1>1, <1>2, <1>3, <1>4 DEF StartInv, Begun, Calls
<1>10. SequentialInv'
  <2>1. worker[next] \in {"none", "joined"} /\ ends[next] = 0
    BY <1>1, <1>3 DEF SequentialInv
  <2>2. ASSUME NEW i \in Calls
        PROVE  /\ i > next' => worker[i] = "none"
               /\ i < next' \/ (i = next' /\ at' = "done") => worker[i] \in {"none", "joined"}
               /\ ends'[i] = IF i < next' \/ (i = next' /\ at' = "done") THEN 1 ELSE 0
    BY <1>1, <1>2, <1>3, <1>4, <2>1 DEF SequentialInv, Calls
  <2>3. Answered' = next
    BY <1>3, <1>4 DEF Answered, Calls
  <2>4. at' = "start" => worker[next'] = "none"
    BY <1>1, <1>3, <1>4 DEF SequentialInv, Calls
  <2>5. QED
    BY <1>1, <1>2, <1>4, <1>5, <1>6, <2>2, <2>3, <2>4 DEF SequentialInv
<1>11. OutcomeInv'
  <2>1. SUFFICES ASSUME NEW i \in Calls PROVE OutcomeInv!(i)'
    BY DEF OutcomeInv
  <2>2. worker[next] \in {"none", "joined"}
    BY <1>1, <1>3 DEF SequentialInv
  <2>3. /\ i < next' => i = next \/ i < next
        /\ i > next' \/ (i = next' /\ at' \in {"start", "prepare"}) => i > next
    BY <1>3, <1>4 DEF Calls
  <2>4. QED
    BY <1>1, <1>2, <1>3, <2>2, <2>3 DEF TypeOK, OutcomeInv
<1>12. QED
  BY <1>2, <1>7, <1>8, <1>9, <1>10, <1>11 DEF BatchInv, TruncatedInv, ParallelInv, UpdateInv

(* A parallel batch goes on to the next call, or to its workers. *)
LEMMA AdvanceParallel ==
  ASSUME BatchInv, mode = "parallel", mode' = mode, cancelled' = cancelled, at = "prepare", Advance,
         starts' = starts
  PROVE  /\ next \in Calls /\ next' = next + 1 /\ next' \in 1..(N + 1) /\ at' \in {"start", "spawn"}
         /\ CursorInv' /\ StartInv'
<1>1. CursorInv /\ StartInv
  BY DEF BatchInv
<1>2. next \in Calls /\ next \in Nat /\ N \in Nat
  BY CursorCall
<1>3. \/ next' = next + 1 /\ next < N /\ at' = "start"
      \/ next' = next + 1 /\ next = N /\ at' = "spawn"
  BY <1>2 DEF Advance, Calls
<1>4. next' \in 1..(N + 1)
  BY <1>2, <1>3 DEF Calls
<1>5. CursorInv'
  BY <1>1, <1>2, <1>3 DEF CursorInv
<1>6. StartInv'
  BY <1>1, <1>2, <1>3 DEF StartInv, Begun, Calls
<1>7. QED
  BY <1>2, <1>3, <1>4, <1>5, <1>6

LEMMA PrepareImmediateKeeps ==
  ASSUME BatchInv, PrepareImmediate
  PROVE  BatchInv'
<1>1. /\ TypeOK /\ ParallelInv /\ OutcomeInv /\ UpdateInv /\ at = "prepare"
      /\ UNCHANGED <<mode, cancelled, worker, updateVars, channel, starts, late>>
  BY DEF BatchInv, PrepareImmediate
<1>2. PICK settlement \in {"refused", "aborted"} :
         \/ mode = "sequential" /\ SettleSequential(settlement)
         \/ /\ mode = "parallel"
            /\ outcome' = [outcome EXCEPT ![next] = settlement]
            /\ EndCalls({next}) /\ Advance /\ UNCHANGED messages
  BY DEF PrepareImmediate
<1>3. CASE mode = "sequential"
  <2>1. settlement \in Settlements \ {"none", "lost"} /\ settlement # "panicked"
    BY DEF Settlements
  <2>2. QED
    BY <1>1, <1>2, <1>3, <2>1, SettleSequentialKeeps
<1>4. CASE mode = "parallel"
  <2>1. /\ outcome' = [outcome EXCEPT ![next] = settlement] /\ messages' = messages
        /\ ends' = [i \in Calls |-> IF i = next THEN ends[i] + 1 ELSE ends[i]]
        /\ UNCHANGED <<accepting, inFlight, sends>> /\ Advance
    BY <1>1, <1>2, <1>4 DEF EndCalls, updateVars
  <2>2. /\ next \in Calls /\ next' = next + 1 /\ next' \in 1..(N + 1) /\ at' \in {"start", "spawn"}
        /\ CursorInv' /\ StartInv'
    BY <1>1, <1>4, <2>1, AdvanceParallel
  <2>3. Buffered' = Buffered /\ next \in Nat /\ Calls \subseteq Nat
    BY <1>1, <2>2, ChannelSame, ToolBatchAssumption DEF Calls
  <2>4. TypeOK'
    <3>1. ends' \in [Calls -> Nat] /\ outcome' \in [Calls -> Settlements]
      BY <1>1, <2>1, <2>2 DEF TypeOK, Settlements
    <3>2. QED
      BY <1>1, <2>1, <2>2, <3>1 DEF TypeOK, Positions
  <2>5. worker[next] = "none" /\ ends[next] = 0
    BY <1>1, <1>4, <2>2, <2>3 DEF ParallelInv
  <2>6. ParallelInv'
    <3>1. ASSUME NEW i \in Calls
          PROVE  /\ i >= next' => worker[i] = "none"
                 /\ ends'[i] = IF i < next' /\ worker[i] \in {"none", "joined"} THEN 1 ELSE 0
      BY <1>1, <1>4, <2>1, <2>2, <2>3, <2>5 DEF ParallelInv
    <3>2. QED
      BY <1>1, <1>4, <2>1, <2>2, <3>1 DEF ParallelInv
  <2>7. OutcomeInv'
    BY <1>1, <2>1, <2>2, <2>3, <2>5 DEF TypeOK, OutcomeInv
  <2>8. UpdateInv'
    BY <1>1, <1>4, <2>1, <2>2, <2>3, <2>5 DEF TypeOK, OutcomeInv, UpdateInv
  <2>9. QED
    BY <1>1, <1>4, <2>2, <2>4, <2>6, <2>7, <2>8 DEF BatchInv, TruncatedInv, SequentialInv
<1>5. QED
  BY <1>2, <1>3, <1>4

LEMMA PrepareOkKeeps ==
  ASSUME BatchInv, PrepareOk
  PROVE  BatchInv'
<1>1. /\ TypeOK /\ CursorInv /\ StartInv /\ SequentialInv /\ ParallelInv /\ OutcomeInv /\ UpdateInv
      /\ at = "prepare" /\ mode \in {"sequential", "parallel"}
      /\ UNCHANGED <<mode, cancelled, outcome, accepting, inFlight, sends, channel, starts, ends, late, messages>>
  BY DEF BatchInv, PrepareOk, updateVars, eventVars
<1>2. next \in Calls /\ next \in Nat /\ N \in Nat /\ Calls \subseteq Nat
  BY <1>1, CursorCall DEF Calls
<1>3. Buffered' = Buffered
  BY <1>1, ChannelSame
<1>4. CASE mode = "sequential"
  <2>1. worker' = [worker EXCEPT ![next] = "spawned"] /\ at' = "execute" /\ next' = next
    BY <1>4 DEF PrepareOk
  <2>2. TypeOK' /\ CursorInv' /\ StartInv'
    BY <1>1, <1>2, <1>4, <2>1 DEF TypeOK, Positions, WorkerStates, CursorInv, StartInv, Begun
  <2>3. SequentialInv'
    BY <1>1, <1>2, <1>3, <1>4, <2>1 DEF TypeOK, SequentialInv, Answered
  <2>4. outcome[next] = "none"
    BY <1>1, <1>2, <1>4 DEF OutcomeInv
  <2>5. OutcomeInv'
    BY <1>1, <1>2, <2>1, <2>4 DEF TypeOK, OutcomeInv
  <2>6. QED
    BY <1>1, <1>4, <2>2, <2>3, <2>5 DEF BatchInv, TruncatedInv, ParallelInv, UpdateInv
<1>5. CASE mode = "parallel"
  <2>1. worker' = [worker EXCEPT ![next] = "queued"] /\ Advance
    BY <1>5 DEF PrepareOk
  <2>2. /\ next' = next + 1 /\ next' \in 1..(N + 1) /\ at' \in {"start", "spawn"}
        /\ CursorInv' /\ StartInv'
    BY <1>1, <1>5, <2>1, AdvanceParallel
  <2>3. TypeOK'
    BY <1>1, <1>2, <2>1, <2>2 DEF TypeOK, Positions, WorkerStates
  <2>4. worker[next] = "none"
    BY <1>1, <1>2, <1>5 DEF ParallelInv
  <2>5. ParallelInv'
    <3>1. ASSUME NEW i \in Calls
          PROVE  /\ i >= next' => worker'[i] = "none"
                 /\ worker'[i] \in {"none", "queued"}
                 /\ ends[i] = IF i < next' /\ worker'[i] \in {"none", "joined"} THEN 1 ELSE 0
      BY <1>1, <1>2, <1>5, <2>1, <2>2, <2>4 DEF TypeOK, ParallelInv
    <3>2. QED
      BY <1>1, <1>5, <2>2, <3>1 DEF ParallelInv
  <2>6. outcome[next] = "none"
    BY <1>1, <1>2, <1>5 DEF OutcomeInv
  <2>7. OutcomeInv'
    BY <1>1, <1>2, <2>1, <2>2, <2>4, <2>6 DEF TypeOK, OutcomeInv
  <2>8. UpdateInv'
    BY <1>1, <1>2, <1>3, <1>5, <2>1, <2>4 DEF TypeOK, UpdateInv
  <2>9. QED
    BY <1>1, <1>5, <2>2, <2>3, <2>5, <2>7, <2>8 DEF BatchInv, TruncatedInv, SequentialInv
<1>6. QED
  BY <1>1, <1>4, <1>5


-----------------------------------------------------------------------------
(* The sequential coordinator. *)

(* Whatever it publishes while a call runs is the call's own, and the call has not ended. *)
LEMMA SequentialPublishes ==
  ASSUME BatchInv, mode = "sequential", late' \subseteq late \union {i \in Buffered : ends[i] > 0}
  PROVE  late' = {}
<1>1. TypeOK /\ CursorInv /\ SequentialInv
  BY DEF BatchInv
<1>2. late = {} /\ \A i \in Buffered : at = "execute" /\ i = next
  BY <1>1 DEF SequentialInv
<1>3. at = "execute" => ends[next] = 0
  <2>1. at = "execute" => next \in Calls /\ next \in Nat
    BY CursorCall
  <2>2. QED
    BY <1>1, <2>1 DEF SequentialInv
<1>4. QED
  BY <1>2, <1>3

LEMMA SeqUpdateKeeps ==
  ASSUME BatchInv, SeqUpdate
  PROVE  BatchInv'
<1>1. TypeOK /\ CursorInv /\ StartInv /\ SequentialInv /\ OutcomeInv
  BY DEF BatchInv
<1>2. /\ mode = "sequential" /\ channel # <<>> /\ channel' = Tail(channel) /\ Publish(<<Head(channel)>>)
      /\ UNCHANGED <<mode, at, next, cancelled, worker, outcome, accepting, inFlight, sends, starts, ends, messages>>
  BY DEF SeqUpdate, coordVars, updateVars
<1>3. Buffered' \subseteq Buffered /\ channel' \in Seq(Calls) /\ late' = {}
  BY <1>1, <1>2, ChannelRead, PublishesOne, SequentialPublishes
<1>4. TypeOK' /\ CursorInv' /\ StartInv' /\ OutcomeInv'
  BY <1>1, <1>2, <1>3 DEF TypeOK, CursorInv, StartInv, Begun, OutcomeInv
<1>5. SequentialInv'
  BY <1>1, <1>2, <1>3 DEF SequentialInv, Answered
<1>6. QED
  BY <1>2, <1>4, <1>5 DEF BatchInv, TruncatedInv, ParallelInv, UpdateInv

LEMMA SeqJoinKeeps ==
  ASSUME BatchInv, SeqJoin
  PROVE  BatchInv'
<1>1. TypeOK /\ CursorInv /\ StartInv /\ SequentialInv /\ OutcomeInv
  BY DEF BatchInv
<1>2. /\ at = "execute" /\ worker[next] = "joinable" /\ at' = "finalize" /\ channel' = <<>>
      /\ worker' = [worker EXCEPT ![next] = "joined"] /\ Publish(channel)
      /\ UNCHANGED <<mode, next, cancelled, outcome, accepting, inFlight, sends, starts, ends, messages>>
  BY DEF SeqJoin, updateVars
<1>3. mode = "sequential" /\ next \in Calls /\ next \in Nat /\ Calls \subseteq Nat
  BY <1>1, <1>2, CursorCall DEF CursorInv, Calls
<1>4. Buffered' = {} /\ late' = {} /\ channel' \in Seq(Calls)
  BY <1>2, <1>3, ChannelEmptied, PublishesAll, SequentialPublishes, EmptySeq
<1>5. TypeOK' /\ CursorInv' /\ StartInv'
  BY <1>1, <1>2, <1>3, <1>4 DEF TypeOK, Positions, WorkerStates, CursorInv, StartInv, Begun
<1>6. OutcomeInv'
  BY <1>1, <1>2, <1>3 DEF TypeOK, OutcomeInv
<1>7. SequentialInv'
  BY <1>1, <1>2, <1>3, <1>4 DEF TypeOK, SequentialInv, Answered
<1>8. QED
  BY <1>2, <1>3, <1>5, <1>6, <1>7 DEF BatchInv, TruncatedInv, ParallelInv, UpdateInv

LEMMA SeqFinalizeKeeps ==
  ASSUME BatchInv, SeqFinalize
  PROVE  BatchInv'
<1>1. /\ TypeOK /\ CursorInv /\ SequentialInv /\ OutcomeInv /\ at = "finalize"
      /\ UNCHANGED <<mode, cancelled, worker, updateVars, channel, starts, late>>
  BY DEF BatchInv, SeqFinalize
<1>2. mode = "sequential" /\ next \in Calls /\ worker[next] = "joined"
  BY <1>1, CursorCall DEF CursorInv, SequentialInv
<1>3. outcome[next] \in Settlements \ {"none", "lost"} /\ "aborted" \in Settlements \ {"none", "lost"}
  BY <1>1, <1>2 DEF TypeOK, OutcomeInv, Settlements
<1>4. QED
  BY <1>1, <1>2, <1>3, SettleSequentialKeeps DEF SeqFinalize

-----------------------------------------------------------------------------
(* The parallel coordinator. *)

(* A set of natural numbers has a least one. *)
LEMMA LeastNat ==
  ASSUME NEW T, T \subseteq Nat, T # {}
  PROVE  \E x \in T : \A y \in T : x <= y
<1> DEFINE R == OpToRel(<, Nat)
<1>1. IsWellFoundedOn(R, Nat)
  BY NatLessThanWellFounded
<1>2. \A x, y \in Nat : x < y => <<x, y>> \in R
  BY DEF OpToRel
<1> HIDE DEF R
<1>3. PICK x \in T : \A y \in T : ~(<<y, x>> \in R)
  BY <1>1, WFMin
<1>4. \A y \in T : ~(y < x)
  BY <1>2, <1>3
<1>5. QED
  BY <1>4

(* spawn_next finds the first of the queued calls. *)
LEMMA FirstQueuedExists ==
  ASSUME Queued # {}, NEW n \in Nat \ {0}
  PROVE  FirstQueued(n) # {} /\ FirstQueued(n) \subseteq Queued
<1>1. Queued \subseteq Nat
  BY ToolBatchAssumption DEF Queued, Calls
<1>2. PICK i \in Queued : \A j \in Queued : i <= j
  BY <1>1, LeastNat
<1>3. {j \in Queued : j < i} = {}
  <2>1. \A j \in Queued : ~(j < i)
    BY <1>1, <1>2
  <2>2. QED
    BY <2>1
<1>4. Cardinality({j \in Queued : j < i}) = 0
  BY <1>3, FS_EmptySet
<1>5. i \in FirstQueued(n)
  BY <1>4 DEF FirstQueued
<1>6. QED
  BY <1>5 DEF FirstQueued

LEMMA ParSpawnKeeps ==
  ASSUME BatchInv, ParSpawn
  PROVE  BatchInv'
<1> DEFINE first == FirstQueued(MaxParallel)
<1>1. /\ TypeOK /\ CursorInv /\ StartInv /\ ParallelInv /\ OutcomeInv /\ UpdateInv
  BY DEF BatchInv
<1>2. /\ at = "spawn" /\ at' = "collect" /\ worker' = [i \in Calls |-> IF i \in first THEN "spawned" ELSE worker[i]]
      /\ UNCHANGED <<mode, next, cancelled, outcome, accepting, inFlight, sends, channel, starts, ends, late, messages>>
  BY DEF ParSpawn, Spawned, updateVars, eventVars
<1>3. first \subseteq Queued /\ (Queued # {} => first # {}) /\ Queued \subseteq Calls
  BY FirstQueuedExists, ToolBatchAssumption DEF FirstQueued, Queued
<1> HIDE DEF first
<1>4. mode = "parallel" /\ next = N + 1 /\ Calls \subseteq Nat /\ N \in Nat
  BY <1>1, <1>2, ToolBatchAssumption DEF CursorInv, Calls
<1>5. Buffered' = Buffered
  BY <1>2, ChannelSame
<1>6. TypeOK' /\ CursorInv' /\ StartInv'
  BY <1>1, <1>2, <1>4 DEF TypeOK, Positions, WorkerStates, CursorInv, StartInv, Begun, Calls
<1>7. ParallelInv'
  <2>1. Queued' # {} => Live' # {}
    BY <1>2, <1>3 DEF Queued, Live
  <2>2. QED
    BY <1>1, <1>2, <1>3, <1>4, <2>1 DEF ParallelInv, Queued, Calls
<1>8. OutcomeInv'
  BY <1>1, <1>2, <1>3, <1>4 DEF OutcomeInv, Queued, Calls
<1>9. UpdateInv'
  BY <1>1, <1>2, <1>3, <1>4, <1>5 DEF UpdateInv, OutcomeInv, Queued
<1>10. QED
  BY <1>2, <1>4, <1>6, <1>7, <1>8, <1>9 DEF BatchInv, TruncatedInv, SequentialInv

(* A call that has ended and has an update in the channel has panicked. *)
LEMMA ParallelPublishes ==
  ASSUME BatchInv, mode = "parallel", late' \subseteq late \union {i \in Buffered : ends[i] > 0}
  PROVE  late' \subseteq Calls /\ \A i \in late' : outcome[i] = "panicked" /\ ends[i] > 0
<1>1. TypeOK /\ UpdateInv
  BY DEF BatchInv
<1>2. Buffered \subseteq Calls /\ late \subseteq Calls
  BY <1>1, BufferedCalls DEF TypeOK
<1>3. QED
  BY <1>1, <1>2 DEF UpdateInv

LEMMA ParUpdateKeeps ==
  ASSUME BatchInv, ParUpdate
  PROVE  BatchInv'
<1>1. TypeOK /\ CursorInv /\ StartInv /\ ParallelInv /\ OutcomeInv /\ UpdateInv
  BY DEF BatchInv
<1>2. /\ at = "collect" /\ channel # <<>> /\ channel' = Tail(channel) /\ Publish(<<Head(channel)>>)
      /\ UNCHANGED <<mode, at, next, cancelled, worker, outcome, accepting, inFlight, sends, starts, ends, messages>>
  BY DEF ParUpdate, coordVars, updateVars
<1>3. mode = "parallel"
  BY <1>1, <1>2 DEF CursorInv
<1>4. /\ Buffered' \subseteq Buffered /\ channel' \in Seq(Calls)
      /\ late' \subseteq Calls /\ \A i \in late' : outcome[i] = "panicked" /\ ends[i] > 0
  BY <1>1, <1>2, <1>3, ChannelRead, PublishesOne, ParallelPublishes
<1>5. TypeOK' /\ CursorInv' /\ StartInv' /\ OutcomeInv'
  BY <1>1, <1>2, <1>4 DEF TypeOK, CursorInv, StartInv, Begun, OutcomeInv
<1>6. ParallelInv'
  BY <1>1, <1>2 DEF ParallelInv, Live, Queued
<1>7. UpdateInv'
  BY <1>1, <1>2, <1>3, <1>4 DEF UpdateInv
<1>8. QED
  BY <1>2, <1>3, <1>5, <1>6, <1>7 DEF BatchInv, TruncatedInv, SequentialInv

LEMMA ParJoinKeeps ==
  ASSUME BatchInv, NEW i \in Calls, ParJoin(i)
  PROVE  BatchInv'
<1> DEFINE more == IF at = "collect" THEN Refill ELSE {}
<1>1. TypeOK /\ CursorInv /\ StartInv /\ ParallelInv /\ OutcomeInv /\ UpdateInv
  BY DEF BatchInv
<1>2. /\ at \in {"collect", "drain"} /\ worker[i] = "joinable" /\ channel' = <<>> /\ Publish(channel)
      /\ ends' = [j \in Calls |-> IF j = i THEN ends[j] + 1 ELSE ends[j]]
      /\ worker' = [j \in Calls |-> IF j \in more THEN "spawned" ELSE [worker EXCEPT ![i] = "joined"][j]]
      /\ UNCHANGED <<mode, at, next, cancelled, outcome, accepting, inFlight, sends, starts, messages>>
  BY DEF ParJoin, EndCalls, Spawned, coordVars, updateVars
<1>3. /\ more \subseteq Queued /\ Queued \subseteq Calls
      /\ at = "collect" /\ ~cancelled /\ Queued # {} => more # {}
  BY FirstQueuedExists DEF Refill, FirstQueued, Queued
<1> HIDE DEF more
<1>4. mode = "parallel" /\ next = N + 1 /\ Calls \subseteq Nat /\ N \in Nat
  BY <1>1, <1>2, ToolBatchAssumption DEF CursorInv, Calls
<1>5. \A j \in Calls : worker'[j] = IF j \in more THEN "spawned" ELSE IF j = i THEN "joined" ELSE worker[j]
  BY <1>1, <1>2 DEF TypeOK
<1>6. /\ Buffered' = {} /\ channel' \in Seq(Calls)
      /\ late' \subseteq Calls /\ \A j \in late' : outcome[j] = "panicked" /\ ends[j] > 0
  BY <1>2, <1>4, ChannelEmptied, PublishesAll, ParallelPublishes, EmptySeq
<1>7. TypeOK'
  <2>1. ends' \in [Calls -> Nat]
    BY <1>1, <1>2 DEF TypeOK
  <2>2. worker' \in [Calls -> WorkerStates]
    BY <1>1, <1>2, <1>5 DEF TypeOK, WorkerStates
  <2>3. QED
    BY <1>1, <1>2, <1>6, <2>1, <2>2 DEF TypeOK
<1>8. CursorInv' /\ StartInv'
  BY <1>1, <1>2 DEF CursorInv, StartInv, Begun
<1>9. ParallelInv'
  <2>1. at = "collect" /\ ~cancelled /\ Queued' # {} => Live' # {}
    BY <1>3, <1>5 DEF Queued, Live
  <2>2. ASSUME NEW j \in Calls
        PROVE  ends'[j] = IF j < next /\ worker'[j] \in {"none", "joined"} THEN 1 ELSE 0
    <3>1. worker[j] = "queued" => ends[j] = 0
      BY <1>1, <1>4 DEF ParallelInv
    <3>2. ends[i] = 0 /\ i < next /\ i \notin more
      BY <1>1, <1>2, <1>3, <1>4 DEF ParallelInv, Queued, Calls
    <3>3. QED
      BY <1>1, <1>2, <1>3, <1>4, <1>5, <3>1, <3>2 DEF ParallelInv, Queued
  <2>3. QED
    BY <1>1, <1>2, <1>4, <2>1, <2>2 DEF ParallelInv, Calls
<1>10. OutcomeInv'
  BY <1>1, <1>2, <1>3, <1>4, <1>5 DEF OutcomeInv, Queued, Calls
<1>11. UpdateInv'
  <2>1. ASSUME NEW j \in Calls
        PROVE  /\ accepting[j] => worker'[j] = "running" \/ outcome[j] = "panicked"
               /\ inFlight[j] = 1 => worker'[j] \in {"running", "stopping"} \/ outcome[j] = "panicked"
    BY <1>1, <1>2, <1>3, <1>4, <1>5 DEF UpdateInv, OutcomeInv, Queued
  <2>2. \A j \in late' : ends'[j] > 0
    BY <1>1, <1>2, <1>6 DEF TypeOK
  <2>3. QED
    BY <1>2, <1>6, <2>1, <2>2 DEF UpdateInv
<1>12. QED
  BY <1>2, <1>4, <1>7, <1>8, <1>9, <1>10, <1>11 DEF BatchInv, TruncatedInv, SequentialInv

LEMMA ParCancelledKeeps ==
  ASSUME BatchInv, ParCancelled
  PROVE  BatchInv'
<1>1. TypeOK /\ CursorInv /\ StartInv /\ ParallelInv /\ OutcomeInv /\ UpdateInv
  BY DEF BatchInv
<1>2. /\ at = "collect" /\ cancelled /\ at' = "drain"
      /\ UNCHANGED <<mode, next, cancelled, worker, outcome, accepting, inFlight, sends, channel, starts, ends,
                     late, messages>>
  BY DEF ParCancelled, updateVars, eventVars
<1>3. mode = "parallel" /\ Buffered' = Buffered
  BY <1>1, <1>2, ChannelSame DEF CursorInv
<1>4. TypeOK' /\ CursorInv' /\ StartInv' /\ OutcomeInv'
  BY <1>1, <1>2 DEF TypeOK, Positions, CursorInv, StartInv, Begun, OutcomeInv
<1>5. ParallelInv' /\ UpdateInv'
  BY <1>1, <1>2, <1>3 DEF ParallelInv, UpdateInv
<1>6. QED
  BY <1>2, <1>3, <1>4, <1>5 DEF BatchInv, TruncatedInv, SequentialInv

(* Only a cancelled batch has calls left to settle, those that never got a worker. *)
LEMMA ParSettleKeeps ==
  ASSUME BatchInv, ParSettle
  PROVE  BatchInv'
<1>1. TypeOK /\ CursorInv /\ StartInv /\ ParallelInv /\ OutcomeInv /\ UpdateInv
  BY DEF BatchInv
<1>2. /\ at \in {"collect", "drain"} /\ Live = {} /\ channel' = <<>> /\ Publish(channel) /\ at' = "emit"
      /\ ends' = [i \in Calls |-> IF i \in Unresolved THEN ends[i] + 1 ELSE ends[i]]
      /\ outcome' = [i \in Calls |-> IF i \notin Unresolved THEN outcome[i]
                                     ELSE IF cancelled THEN "aborted" ELSE "lost"]
      /\ worker' = [i \in Calls |-> IF i \in Unresolved THEN "joined" ELSE worker[i]]
      /\ UNCHANGED <<mode, next, cancelled, accepting, inFlight, sends, starts, messages>>
  BY DEF ParSettle, EndCalls, updateVars
<1>3. mode = "parallel" /\ next = N + 1 /\ Calls \subseteq Nat /\ N \in Nat
  BY <1>1, <1>2, ToolBatchAssumption DEF CursorInv, Calls
<1>4. /\ Buffered' = {} /\ channel' \in Seq(Calls)
      /\ late' \subseteq Calls /\ \A j \in late' : outcome[j] = "panicked" /\ ends[j] > 0
  BY <1>2, <1>3, ChannelEmptied, PublishesAll, ParallelPublishes, EmptySeq
<1>5. ASSUME NEW i \in Calls
      PROVE  /\ worker[i] \in {"none", "queued", "joined"}
             /\ i \in Unresolved <=> worker[i] = "queued"
  <2>1. worker[i] \in {"none", "queued", "joined"}
    BY <1>1, <1>2 DEF TypeOK, WorkerStates, Live
  <2>2. i < next
    BY <1>3 DEF Calls
  <2>3. QED
    BY <1>1, <2>1, <2>2 DEF Unresolved, OutcomeInv
<1>6. Unresolved \subseteq Calls /\ (Unresolved # {} => cancelled)
  <2>1. Unresolved \subseteq Queued
    BY <1>5 DEF Unresolved, Queued
  <2>2. ~cancelled => Queued = {}
    BY <1>1, <1>2, <1>3 DEF ParallelInv, CursorInv
  <2>3. QED
    BY <2>1, <2>2 DEF Unresolved
<1>7. TypeOK'
  <2>1. ends' \in [Calls -> Nat] /\ worker' \in [Calls -> WorkerStates] /\ outcome' \in [Calls -> Settlements]
    BY <1>1, <1>2 DEF TypeOK, WorkerStates, Settlements
  <2>2. QED
    BY <1>1, <1>2, <1>4, <2>1 DEF TypeOK, Positions
<1>8. CursorInv' /\ StartInv'
  BY <1>1, <1>2, <1>3 DEF CursorInv, StartInv, Begun, Calls
<1>9. ParallelInv'
  BY <1>1, <1>2, <1>3, <1>5 DEF ParallelInv, Calls
<1>10. OutcomeInv'
  BY <1>1, <1>2, <1>3, <1>5, <1>6 DEF OutcomeInv, Calls
<1>11. UpdateInv'
  <2>1. ASSUME NEW j \in Calls
        PROVE  /\ accepting[j] => outcome'[j] = "panicked"
               /\ inFlight[j] = 1 => outcome'[j] = "panicked"
    BY <1>1, <1>2, <1>3, <1>5 DEF UpdateInv, OutcomeInv
  <2>2. \A j \in late' : ends'[j] > 0 /\ outcome'[j] = "panicked"
    BY <1>1, <1>2, <1>4 DEF TypeOK, Unresolved
  <2>3. QED
    BY <1>2, <1>4, <2>1, <2>2 DEF UpdateInv
<1>12. QED
  BY <1>2, <1>3, <1>7, <1>8, <1>9, <1>10, <1>11 DEF BatchInv, TruncatedInv, SequentialInv

LEMMA ParEmitKeeps ==
  ASSUME BatchInv, ParEmit
  PROVE  BatchInv'
<1>1. TypeOK /\ CursorInv /\ StartInv /\ ParallelInv /\ OutcomeInv /\ UpdateInv
  BY DEF BatchInv
<1>2. /\ at = "emit" /\ at' = "done" /\ messages' = [i \in Calls |-> i]
      /\ UNCHANGED <<mode, next, cancelled, worker, outcome, accepting, inFlight, sends, channel, starts, ends, late>>
  BY DEF ParEmit, updateVars
<1>3. mode = "parallel" /\ next = N + 1 /\ Buffered' = Buffered /\ Calls \subseteq Nat /\ N \in Nat
  BY <1>1, <1>2, ChannelSame, ToolBatchAssumption DEF CursorInv, Calls
<1>4. messages' \in Seq(Calls)
  BY <1>2, <1>3 DEF Calls
<1>5. TypeOK' /\ CursorInv' /\ StartInv' /\ OutcomeInv'
  BY <1>1, <1>2, <1>3, <1>4 DEF TypeOK, Positions, CursorInv, StartInv, Begun, OutcomeInv
<1>6. ParallelInv' /\ UpdateInv'
  BY <1>1, <1>2, <1>3 DEF ParallelInv, UpdateInv
<1>7. QED
  BY <1>2, <1>3, <1>5, <1>6 DEF BatchInv, TruncatedInv, SequentialInv


-----------------------------------------------------------------------------
(* Theorems. *)

LEMMA InitInv == Init => BatchInv
<1>1. SUFFICES ASSUME Init PROVE BatchInv
  OBVIOUS
<1>2. Buffered = {} /\ 1 \in Calls /\ 1 \in 1..(N + 1) /\ Calls \subseteq Nat
  BY <1>1, ToolBatchAssumption DEF Init, Buffered, Calls
<1>3. TypeOK
  <2>1. channel \in Seq(Calls) /\ messages \in Seq(Calls)
    BY <1>1, EmptySeq DEF Init
  <2>2. /\ worker \in [Calls -> WorkerStates] /\ outcome \in [Calls -> Settlements]
        /\ accepting \in [Calls -> BOOLEAN] /\ inFlight \in [Calls -> 0..1]
    BY <1>1 DEF Init, WorkerStates, Settlements
  <2>3. sends \in [Calls -> Nat] /\ starts \in [Calls -> Nat] /\ ends \in [Calls -> Nat]
    BY <1>1 DEF Init
  <2>4. QED
    BY <1>1, <1>2, <2>1, <2>2, <2>3 DEF Init, TypeOK, Positions
<1>4. CursorInv /\ StartInv /\ TruncatedInv /\ OutcomeInv /\ UpdateInv
  BY <1>1, <1>2, ToolBatchAssumption DEF Init, CursorInv, StartInv, Begun, TruncatedInv, OutcomeInv, UpdateInv, Calls
<1>5. SequentialInv
  <2>1. messages = [k \in 1..Answered |-> k]
    BY <1>1 DEF Init, Answered
  <2>2. QED
    BY <1>1, <1>2, <2>1 DEF Init, SequentialInv, Calls
<1>6. ParallelInv
  BY <1>1, <1>2 DEF Init, ParallelInv, Calls
<1>7. QED
  BY <1>3, <1>4, <1>5, <1>6 DEF BatchInv

LEMMA NextInv == BatchInv /\ [Next]_vars => BatchInv'
<1>1. SUFFICES ASSUME BatchInv, [Next]_vars PROVE BatchInv'
  OBVIOUS
<1>2. CASE Cancel
  BY <1>1, <1>2, CancelKeeps
<1>3. CASE OwnStep
  BY <1>1, <1>3, FailTruncatedKeeps, StartKeeps, PrepareImmediateKeeps, PrepareOkKeeps, SeqUpdateKeeps,
     SeqJoinKeeps, SeqFinalizeKeeps, ParSpawnKeeps, ParUpdateKeeps, ParCancelledKeeps, ParSettleKeeps,
     ParEmitKeeps, ParJoinKeeps DEF OwnStep
<1>4. ASSUME NEW i \in Calls, WorkerStep(i) PROVE BatchInv'
  BY <1>1, <1>4, AdmitKeeps, SendDeliveredKeeps, ForceAbortKeeps, StoppedKeeps DEF WorkerStep
<1>5. ASSUME NEW i \in Calls, ToolStep(i) PROVE BatchInv'
  BY <1>1, <1>5, SendAcceptedKeeps, ReturnKeeps, AfterHookKeeps, PanicKeeps DEF ToolStep
<1>6. CASE UNCHANGED vars
  <2>1. UNCHANGED <<mode, at, next, cancelled, worker, outcome, accepting, inFlight, sends, channel, starts, ends,
                    late, messages>>
    BY <1>6 DEF vars, coordVars, updateVars, eventVars
  <2>2. Buffered' = Buffered /\ Live' = Live /\ Queued' = Queued
    BY <2>1 DEF Buffered, Live, Queued
  <2>3. TypeOK' /\ CursorInv' /\ StartInv' /\ OutcomeInv'
    BY <1>1, <2>1 DEF BatchInv, TypeOK, CursorInv, StartInv, Begun, OutcomeInv
  <2>4. TruncatedInv' /\ SequentialInv'
    BY <1>1, <2>1, <2>2 DEF BatchInv, TruncatedInv, SequentialInv, Answered
  <2>5. ParallelInv' /\ UpdateInv'
    BY <1>1, <2>1, <2>2 DEF BatchInv, ParallelInv, UpdateInv
  <2>6. QED
    BY <2>3, <2>4, <2>5 DEF BatchInv
<1>7. QED
  BY <1>1, <1>2, <1>3, <1>4, <1>5, <1>6 DEF Next

LEMMA BatchInvariant == Spec => []BatchInv
BY InitInv, NextInv, PTL DEF Spec

(* Every variable holds a value of its type in schedule.rs and tool.rs. *)
THEOREM BatchTypeCorrect == Spec => []TypeOK
BY BatchInvariant, PTL DEF BatchInv

(* However calls panic, are cancelled or are dropped, no call ends twice or without a start,  *)
(* and when the batch returns every call that was started has ended and has its message       *)
(* (execute_tool_calls_sequential, execute_tool_calls_parallel).                              *)
THEOREM StartsAndEndsPairHolds == Spec => []StartsAndEndsPair
<1>1. ASSUME BatchInv PROVE StartsAndEndsPair
  <2>1. TypeOK /\ CursorInv /\ StartInv /\ TruncatedInv /\ SequentialInv /\ ParallelInv /\ OutcomeInv
    BY <1>1 DEF BatchInv
  <2>2. SUFFICES ASSUME NEW i \in Calls
                 PROVE  /\ ends[i] <= starts[i] /\ starts[i] <= 1
                        /\ at = "done" => /\ ends[i] = starts[i] /\ outcome[i] # "lost"
                                          /\ starts[i] = 1 <=> \E k \in DOMAIN messages : messages[k] = i
    BY DEF StartsAndEndsPair
  <2>3. outcome[i] # "lost" /\ i \in Nat /\ next \in Nat /\ N \in Nat /\ i \in 1..N
    BY <2>1, ToolBatchAssumption DEF OutcomeInv, TypeOK, Calls
  <2>4. CASE mode = "truncated"
    BY <2>1, <2>3, <2>4 DEF TruncatedInv, CursorInv
  <2>5. CASE mode = "sequential"
    <3>1. /\ starts[i] = IF i < next \/ (i = next /\ at # "start") THEN 1 ELSE 0
          /\ ends[i] = IF i < next \/ (i = next /\ at = "done") THEN 1 ELSE 0
          /\ messages = [k \in 1..Answered |-> k]
      BY <2>1, <2>5 DEF StartInv, Begun, SequentialInv
    <3>2. at = "done" => (starts[i] = 1 <=> i \in 1..Answered)
      BY <2>3, <3>1 DEF Answered
    <3>3. QED
      BY <2>3, <3>1, <3>2
  <2>6. CASE mode = "parallel"
    <3>1. /\ starts[i] = IF i < next \/ (i = next /\ at # "start") THEN 1 ELSE 0
          /\ ends[i] = IF i < next /\ worker[i] \in {"none", "joined"} THEN 1 ELSE 0
          /\ at = "done" => /\ next = N + 1 /\ messages = [k \in Calls |-> k]
                            /\ worker[i] \in {"none", "joined"}
      BY <2>1, <2>6 DEF StartInv, Begun, ParallelInv, CursorInv
    <3>2. QED
      BY <2>3, <3>1
  <2>7. QED
    BY <2>1, <2>4, <2>5, <2>6 DEF TypeOK
<1>2. QED
  BY <1>1, BatchInvariant, PTL

(* Result messages come in source order after their calls' ends, and only a cancelled         *)
(* sequential batch leaves calls unanswered (emit_source_ordered_results).                    *)
THEOREM ResultsInSourceOrderHolds == Spec => []ResultsInSourceOrder
<1>1. ASSUME BatchInv PROVE ResultsInSourceOrder
  <2>1. TypeOK /\ CursorInv /\ TruncatedInv /\ SequentialInv /\ ParallelInv
    BY <1>1 DEF BatchInv
  <2>2. N \in Nat /\ next \in 1..(N + 1) /\ Calls = 1..N
    BY <2>1, ToolBatchAssumption DEF TypeOK, Calls
  <2>3. CASE mode = "truncated"
    BY <2>1, <2>2, <2>3 DEF TruncatedInv, CursorInv, ResultsInSourceOrder
  <2>4. CASE mode = "sequential"
    <3>1. messages = [k \in 1..Answered |-> k] /\ Answered \in 0..N
      BY <2>1, <2>2, <2>4 DEF SequentialInv, Answered
    <3>2. Len(messages) = Answered
      BY <3>1
    <3>3. \A k \in 1..Answered : k \in Calls /\ (k < next \/ (k = next /\ at = "done"))
      BY <2>2, <3>1 DEF Answered
    <3>4. at = "done" /\ Answered < N => cancelled
      BY <2>1, <2>2, <2>4 DEF SequentialInv, Answered
    <3>5. QED
      BY <2>1, <2>4, <3>1, <3>2, <3>3, <3>4 DEF SequentialInv, ResultsInSourceOrder
  <2>5. CASE mode = "parallel"
    <3>1. CASE at = "done"
      <4>1. messages = [k \in Calls |-> k] /\ Len(messages) = N /\ next = N + 1
        BY <2>1, <2>2, <2>5, <3>1 DEF ParallelInv, CursorInv
      <4>2. \A k \in Calls : k < next
        BY <2>2, <4>1
      <4>3. QED
        BY <2>1, <2>2, <2>5, <3>1, <4>1, <4>2 DEF ParallelInv, ResultsInSourceOrder
    <3>2. CASE at # "done"
      BY <2>1, <2>5, <3>2 DEF ParallelInv, ResultsInSourceOrder
    <3>3. QED
      BY <3>1, <3>2
  <2>6. QED
    BY <2>1, <2>3, <2>4, <2>5 DEF TypeOK
<1>2. QED
  BY <1>1, BatchInvariant, PTL

(* A call with an update published after its end has panicked: stop_accepting closes the      *)
(* handle of every other call before the call ends.                                           *)
THEOREM LateOnlyAfterPanicHolds == Spec => []LateOnlyAfterPanic
<1>1. ASSUME BatchInv PROVE LateOnlyAfterPanic
  BY <1>1 DEF BatchInv, TypeOK, TruncatedInv, SequentialInv, UpdateInv, LateOnlyAfterPanic
<1>2. QED
  BY <1>1, BatchInvariant, PTL

=============================================================================
