--------------------------- MODULE AgentContract ----------------------------
(***************************************************************************)
(* What the Agent promises its callers: one run at a time, which only ever *)
(* extends the transcript; the transcript is rewritten only between runs.  *)
(***************************************************************************)
EXTENDS Naturals, Sequences

CONSTANTS Callers, NoCaller

VARIABLES
  owner,        \* the caller whose run is active
  transcript    \* the messages of the conversation

vars == <<owner, transcript>>

Init == owner = NoCaller /\ transcript = <<>>

Begin == owner = NoCaller /\ owner' \in Callers /\ UNCHANGED transcript

(* A run appends; what was there stays as it was. *)
Extend ==
  /\ owner # NoCaller /\ UNCHANGED owner
  /\ Len(transcript') >= Len(transcript)
  /\ \A i \in 1..Len(transcript) : transcript'[i] = transcript[i]

(* push, pop, replace, reset. *)
Edit == owner = NoCaller /\ UNCHANGED owner

Finish == owner # NoCaller /\ owner' = NoCaller /\ UNCHANGED transcript

Next == Begin \/ Extend \/ Edit \/ Finish

Spec == Init /\ [][Next]_vars
=============================================================================
