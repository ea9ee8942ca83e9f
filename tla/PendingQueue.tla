---------------------------- MODULE PendingQueue ----------------------------
(***************************************************************************)
(* The steering and follow-up queues of crates/pi-agent/src/queue.rs.      *)
(* A queue is a sequence of messages and a drain mode; the mode is read    *)
(* when the queue is drained, not when a message is enqueued.              *)
(***************************************************************************)
EXTENDS Sequences

All == "all"
OneAtATime == "one-at-a-time"
QueueMode == {All, OneAtATime}

(* What drain() removes and returns. *)
Drained(q, mode) ==
  IF mode = All \/ q = <<>> THEN q ELSE <<Head(q)>>

(* What drain() leaves queued. *)
Remaining(q, mode) ==
  IF mode = All \/ q = <<>> THEN <<>> ELSE Tail(q)
=============================================================================
