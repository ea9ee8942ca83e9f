--------------------------- MODULE StreamContract ---------------------------
(***************************************************************************)
(* What stream_assistant_response promises the turn loop: at most one      *)
(* message_start, exactly one final message, "aborted" if the run was      *)
(* cancelled before it, and a cleared partial watch when it returns.       *)
(* AgentRun takes these steps as StreamStart and Finalize.                 *)
(***************************************************************************)

VARIABLES
  phase,       \* "open", "streaming", "final", "returned"
  outcome,     \* the stop reason of the final message, or "none"
  watch,       \* the partial watch holds a message
  cancelled    \* the run's token

vars == <<phase, outcome, watch, cancelled>>

Init == phase = "open" /\ outcome = "none" /\ watch = FALSE /\ cancelled = FALSE

Cancel == cancelled' = TRUE /\ UNCHANGED <<phase, outcome, watch>>

(* The drain publishes a partial as long as the call has not returned. *)
Publish == phase # "returned" /\ watch' = TRUE /\ UNCHANGED <<phase, outcome, cancelled>>

Begin == phase = "open" /\ phase' = "streaming" /\ UNCHANGED <<outcome, watch, cancelled>>

Settle ==
  /\ phase \in {"open", "streaming"}
  /\ phase' = "final"
  /\ outcome' \in (IF cancelled THEN {"aborted"} ELSE {"done", "error", "aborted"})
  /\ UNCHANGED <<watch, cancelled>>

Return ==
  /\ phase = "final"
  /\ phase' = "returned"
  /\ watch' = FALSE
  /\ UNCHANGED <<outcome, cancelled>>

Next == Cancel \/ Publish \/ Begin \/ Settle \/ Return

Spec ==
  /\ Init /\ [][Next]_vars
  /\ WF_vars(Return)
  /\ WF_vars(cancelled /\ Settle)
=============================================================================
