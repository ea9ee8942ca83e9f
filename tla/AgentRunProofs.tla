--------------------------- MODULE AgentRunProofs ---------------------------
(* Theorems about AgentRun for every value of its constants. *)
EXTENDS AgentRun, SequenceTheorems, FunctionTheorems, FiniteSetTheorems, TLAPS

AgentType == [messages: Seq(Entry), streaming: BOOLEAN, message: BOOLEAN, error: BOOLEAN]

-----------------------------------------------------------------------------
(* The operators the model is built from are well typed. *)

(* drain splits a queue into messages released and messages kept. *)
LEMMA DrainType ==
  ASSUME NEW q \in Seq(Msgs), NEW mode
  PROVE  Drained(q, mode) \in Seq(Msgs) /\ Remaining(q, mode) \in Seq(Msgs)
BY DEF Drained, Remaining

(* Transcript entries made of user messages. *)
LEMMA UsersType ==
  ASSUME NEW q \in Seq(Msgs)
  PROVE  Users(q) \in Seq(Entry)
<1>1. \A i \in 1..Len(q) : User(q[i]) \in Entry
  BY DEF User, Entry
<1>2. Users(q) = [i \in 1..Len(q) |-> User(q[i])]
  BY LenProperties DEF Users
<1>3. QED
  BY <1>1, <1>2, IsASeq, LenProperties

(* The other entries. *)
LEMMA EntryTypes ==
  /\ \A m \in Msgs : User(m) \in Entry
  /\ \A stop \in Stops : Assistant(stop) \in Entry
  /\ ToolResults \in Entry /\ Summary \in Entry
BY DEF User, Assistant, ToolResults, Summary, Entry

(* The observer is total. *)
LEMMA ObserveType ==
  \A o, event : Observe(o, event) \in Phases
BY DEF Observe, Phases

(* So is its fold over a batch of messages. *)
LEMMA ObservePairsType ==
  \A o \in Phases : \A entries : ObservePairs(o, entries) \in Phases
BY ObserveType DEF ObservePairs

(* Appending a sequence of entries, as Published, Tracked and Appended do. *)
LEMMA PublishedType ==
  ASSUME NEW a \in AgentType, NEW entries \in Seq(Entry)
  PROVE  Published(a, entries) \in AgentType
<1>1. a.messages \o entries \in Seq(Entry)
  BY ConcatProperties DEF AgentType
<1>2. QED
  BY <1>1 DEF Published, AgentType

(* The test on the last message is a truth value. *)
LEMMA TailIsAssistantType ==
  \A s : TailIsAssistant(s) \in BOOLEAN
BY DEF TailIsAssistant

(* What the sink tracked. *)
LEMMA TrackedType ==
  ASSUME NEW l \in Local, NEW entries \in Seq(Entry)
  PROVE  Tracked(l, entries) \in Local
<1>1. l.tracked \o entries \in Seq(Entry)
  BY ConcatProperties DEF Local
<1>2. (l.terminal \/ TailIsAssistant(entries)) \in BOOLEAN
  BY TailIsAssistantType
<1>3. QED
  BY <1>1, <1>2 DEF Tracked, Local

(* The context and the delta. *)
LEMMA AppendedType ==
  ASSUME NEW l \in Local, NEW entries \in Seq(Entry)
  PROVE  Appended(l, entries) \in Local
<1>1. l.ctx \o entries \in Seq(Entry) /\ l.new \o entries \in Seq(Entry)
  BY ConcatProperties DEF Local
<1>2. QED
  BY <1>1 DEF Appended, Local

(* A context that a hook replaced. *)
LEMMA ReplacedType ==
  ASSUME NEW l \in Local
  PROVE  Replaced(l) \in Local
<1>1. <<Summary>> \in Seq(Entry)
  BY EntryTypes
<1>2. Len(l.tracked) \in Nat
  BY LenProperties DEF Local
<1>3. QED
  BY <1>1, <1>2 DEF Replaced, Local

(* The locals outside a run. *)
LEMMA NoRunType == NoRun \in Local
BY DEF NoRun, Local, Stops

(* The final message takes the place of the partial or goes to the end. *)
LEMMA FinalizedType ==
  ASSUME NEW l \in Local, NEW final \in Entry
  PROVE  Finalized(l, final) \in Seq(Entry)
<1>1. l.ctx \in Seq(Entry)
  BY DEF Local
<1>2. Append(l.ctx, final) \in Seq(Entry)
  BY <1>1, AppendProperties
<1>3. [l.ctx EXCEPT ![Len(l.ctx)] = final] \in Seq(Entry)
  <2>1. CASE Len(l.ctx) = 0
    <3>1. [l.ctx EXCEPT ![Len(l.ctx)] = final] = l.ctx
      BY <1>1, <2>1, LenProperties, EmptySeq
    <3>2. QED
      BY <1>1, <3>1
  <2>2. CASE Len(l.ctx) # 0
    <3>1. Len(l.ctx) \in 1..Len(l.ctx)
      BY <1>1, <2>2, LenProperties
    <3>2. QED
      BY <1>1, <3>1, ExceptSeq
  <2>3. QED
    BY <2>1, <2>2
<1>4. QED
  BY <1>2, <1>3 DEF Finalized

(* The set of a sequence's elements. *)
LEMMA ElementsType ==
  \A q \in Seq(Msgs) : Elements(q) \subseteq Msgs
<1> SUFFICES ASSUME NEW q \in Seq(Msgs), NEW i \in DOMAIN q PROVE q[i] \in Msgs
  BY DEF Elements
<1>1. QED
  BY LenProperties, ElementOfSeq

(* The user messages of a transcript were submitted by callers. *)
LEMMA UserIdsType ==
  \A s : s \in Seq(Entry) => UserIds(s) \subseteq Msgs
<1> SUFFICES ASSUME NEW s \in Seq(Entry), NEW i \in DOMAIN s, s[i].role = "user",
                    s[i].id # NoMsg
             PROVE  s[i].id \in Msgs
  BY DEF UserIds
<1>1. s[i] \in Entry
  BY LenProperties, ElementOfSeq
<1>2. QED
  BY <1>1 DEF Entry

-----------------------------------------------------------------------------
(* Type correctness. *)

(* The initial state is well typed. *)
LEMMA TypeInit == Init => TypeOK
<1> SUFFICES ASSUME Init PROVE TypeOK
  OBVIOUS
<1>1. <<>> \in Seq(Msgs) /\ <<>> \in Seq(Entry)
  BY EmptySeq
<1>2. agent \in AgentType
  BY <1>1 DEF Init, AgentType
<1>3. loc \in [Callers -> Local]
  BY NoRunType DEF Init
<1>4. /\ pc \in [Callers -> PCs] /\ cancelled \in [Callers -> BOOLEAN]
      /\ waiter \in [Waiters -> {"out", "arm", "check", "checked", "sleep"}]
      /\ notified \in [Waiters -> BOOLEAN]
  BY DEF Init, PCs
<1>5. steeringMode \in QueueMode /\ followUpMode \in QueueMode /\ obs \in Phases
  BY DEF Init, QueueMode, Phases
<1>6. QED
  BY <1>1, <1>2, <1>3, <1>4, <1>5 DEF Init, TypeOK, AgentType

(* The callers' operations keep the types. *)
LEMMA TypeCaller ==
  ASSUME TypeOK, Caller
  PROVE  TypeOK'
<1> USE DEF runVars, queueVars, waitVars, histVars
<1>1. ASSUME NEW m \in Msgs, Steer(m) PROVE TypeOK'
  BY <1>1, AppendProperties DEF Steer, TypeOK
<1>2. ASSUME NEW m \in Msgs, FollowUp(m) PROVE TypeOK'
  BY <1>2, AppendProperties DEF FollowUp, TypeOK
<1>3. ASSUME NEW m \in Msgs, PushMessage(m) PROVE TypeOK'
  <2>1. Append(agent.messages, User(m)) \in Seq(Entry)
    BY EntryTypes, AppendProperties DEF TypeOK
  <2>2. QED
    BY <1>3, <2>1 DEF PushMessage, TypeOK
<1>4. ASSUME NEW mode \in QueueModes, SetSteeringMode(mode) \/ SetFollowUpMode(mode)
      PROVE  TypeOK'
  BY <1>4, AgentRunAssumption DEF SetSteeringMode, SetFollowUpMode, TypeOK
<1>5. ASSUME ClearQueues PROVE TypeOK'
  BY <1>5, ElementsType, EmptySeq DEF ClearQueues, TypeOK
<1>6. ASSUME Abort PROVE TypeOK'
  BY <1>6 DEF Abort, TypeOK
<1>7. ASSUME Reset PROVE TypeOK'
  BY <1>7, ElementsType, UserIdsType, EmptySeq DEF Reset, TypeOK
<1>8. ASSUME PopLastIfAssistant PROVE TypeOK'
  <2>1. agent.messages \in Seq(Entry) /\ agent.messages # <<>>
    BY <1>8 DEF PopLastIfAssistant, TailIsAssistant, TypeOK
  <2>2. SubSeq(agent.messages, 1, Len(agent.messages) - 1) \in Seq(Entry)
    BY <2>1, SubSeqProperties, LenProperties, EmptySeq
  <2>3. QED
    BY <1>8, <2>2 DEF PopLastIfAssistant, TypeOK
<1>9. ASSUME ReplaceMessages PROVE TypeOK'
  <2>1. <<Summary>> \in Seq(Entry)
    BY EntryTypes
  <2>2. QED
    BY <1>9, <2>1, UserIdsType DEF ReplaceMessages, TypeOK
<1>10. ASSUME NEW c \in Callers, ContinueRun(c) PROVE TypeOK'
  <2>1. /\ Drained(steering, steeringMode) \in Seq(Msgs)
        /\ Drained(followUp, followUpMode) \in Seq(Msgs)
    BY DrainType DEF TypeOK
  <2>2. [NoRun EXCEPT !.mode = "continue"] \in Local
    BY NoRunType DEF Local
  <2>3. [NoRun EXCEPT !.prompts = Drained(steering, steeringMode), !.skip = TRUE] \in Local
    BY <2>1, NoRunType DEF Local
  <2>4. [NoRun EXCEPT !.prompts = Drained(followUp, followUpMode)] \in Local
    BY <2>1, NoRunType DEF Local
  <2>5. \E l \in Local : loc' = [loc EXCEPT ![c] = l]
    BY <1>10, <2>2, <2>3, <2>4 DEF ContinueRun
  <2>6. loc' \in [Callers -> Local]
    BY <2>5 DEF TypeOK
  <2>7. steering' \in Seq(Msgs) /\ followUp' \in Seq(Msgs)
    BY <1>10, DrainType DEF ContinueRun, TypeOK
  <2>8. agent' \in AgentType
    BY <1>10 DEF ContinueRun, Flagged, TypeOK, AgentType
  <2>9. pc' \in [Callers -> PCs] /\ cancelled' \in [Callers -> BOOLEAN]
    BY <1>10 DEF ContinueRun, Acquire, Goto, TypeOK, PCs
  <2>10. QED
    BY <1>10, <2>6, <2>7, <2>8, <2>9 DEF ContinueRun, Acquire, TypeOK, AgentType
<1>11. ASSUME NEW c \in Callers, NEW m \in Msgs, Prompt(c, m) PROVE TypeOK'
  <2>1. <<m>> \in Seq(Msgs)
    OBVIOUS
  <2>2. [NoRun EXCEPT !.prompts = <<m>>] \in Local
    BY <2>1, NoRunType DEF Local
  <2>3. loc' \in [Callers -> Local]
    BY <1>11, <2>2 DEF Prompt, TypeOK
  <2>4. pc' \in [Callers -> PCs] /\ cancelled' \in [Callers -> BOOLEAN]
    BY <1>11 DEF Prompt, Acquire, Goto, TypeOK, PCs
  <2>5. QED
    BY <1>11, <2>3, <2>4 DEF Prompt, Acquire, TypeOK
<1>12. ASSUME ReplaceLastAssistant PROVE TypeOK'
  <2>1. agent.messages \in Seq(Entry) /\ agent.messages # <<>> /\ Assistant("done") \in Entry
    BY <1>12, EntryTypes DEF ReplaceLastAssistant, TailIsAssistant, TypeOK, Stops
  <2>2. Len(agent.messages) \in 1..Len(agent.messages)
    BY <2>1, LenProperties, EmptySeq
  <2>3. [agent.messages EXCEPT ![Len(agent.messages)] = Assistant("done")] \in Seq(Entry)
    BY <2>1, <2>2, ExceptSeq
  <2>4. QED
    BY <1>12, <2>3 DEF ReplaceLastAssistant, TypeOK
<1>13. QED
  BY <1>1, <1>2, <1>3, <1>4, <1>5, <1>6, <1>7, <1>8, <1>9, <1>10, <1>11, <1>12 DEF Caller

(* What the steps of a run have in common: they move the caller and leave  *)
(* the run flags, the modes, the waiters and most of the history alone.    *)
LEMMA TypeStep ==
  ASSUME TypeOK, NEW c \in Callers, NEW next \in PCs, Goto(c, next),
         agent' \in AgentType, loc' \in [Callers -> Local], obs' \in Phases,
         partial' \in BOOLEAN, steering' \in Seq(Msgs), followUp' \in Seq(Msgs),
         sent' \subseteq Msgs,
         UNCHANGED <<runVars, steeringMode, followUpMode, waitVars, steered, cleared,
                     dropped, runs>>
  PROVE  TypeOK'
<1>1. pc' \in [Callers -> PCs]
  BY DEF Goto, TypeOK
<1>2. QED
  BY <1>1 DEF TypeOK, AgentType, runVars, waitVars

(* The ways a run ends or fails leave the types alone. *)
LEMMA EndType ==
  ASSUME TypeOK, NEW c \in Callers, End(c) \/ HookFails(c)
  PROVE  /\ agent' \in AgentType /\ loc' \in [Callers -> Local] /\ obs' \in Phases
         /\ Goto(c, "ended") \/ Goto(c, "failed")
<1>1. CASE End(c)
  <2>1. agent' \in AgentType
    BY <1>1 DEF End, TypeOK, AgentType
  <2>2. QED
    BY <1>1, <2>1, ObserveType DEF End, TypeOK
<1>2. CASE HookFails(c)
  BY <1>2 DEF HookFails, TypeOK, AgentType
<1>3. QED
  BY <1>1, <1>2

(* A run's messages joining the transcript, the delta and the context. *)
LEMMA JoinType ==
  ASSUME TypeOK, NEW l \in Local, NEW entries \in Seq(Entry)
  PROVE  /\ Published(agent, entries) \in AgentType
         /\ Appended(Tracked(l, entries), entries) \in Local
<1>1. agent \in AgentType
  BY DEF TypeOK, AgentType
<1>2. QED
  BY <1>1, PublishedType, TrackedType, AppendedType

(* One entry. *)
LEMMA FinalType ==
  ASSUME NEW stop \in Stops
  PROVE  Assistant(stop) \in Entry /\ <<Assistant(stop)>> \in Seq(Entry)
BY EntryTypes

(* A steering poll. *)
LEMMA PollType ==
  ASSUME TypeOK, NEW c \in Callers, NEW next \in PCs, PollSteering(c, next)
  PROVE  TypeOK'
<1>1. /\ Drained(steering, steeringMode) \in Seq(Msgs)
      /\ Remaining(steering, steeringMode) \in Seq(Msgs)
      /\ <<>> \in Seq(Msgs)
      /\ loc[c] \in Local
      /\ agent \in AgentType
  BY DrainType DEF TypeOK, AgentType
<1>2. \A q \in Seq(Msgs) : [loc[c] EXCEPT !.pending = q, !.skip = FALSE] \in Local
  BY <1>1 DEF Local
<1>3. loc' = [loc EXCEPT ![c] =
               [loc[c] EXCEPT !.pending = IF SkipsPoll(loc[c]) THEN <<>>
                                          ELSE Drained(steering, steeringMode),
                              !.skip = FALSE]]
  BY DEF PollSteering, TypeOK
<1>4. loc' \in [Callers -> Local]
  <2>1. (IF SkipsPoll(loc[c]) THEN <<>> ELSE Drained(steering, steeringMode)) \in Seq(Msgs)
    BY <1>1
  <2>2. QED
    BY <1>2, <1>3, <2>1 DEF TypeOK
<1>5. steering' \in Seq(Msgs)
  BY <1>1 DEF PollSteering, TypeOK
<1>6. QED
  BY <1>1, <1>4, <1>5, TypeStep DEF PollSteering, TypeOK, histVars

(* A later turn opens with the prepared and the polled messages. *)
LEMMA OpenTurnType ==
  ASSUME TypeOK, NEW c \in Callers, OpenTurn(c)
  PROVE  /\ agent' \in AgentType /\ loc' \in [Callers -> Local] /\ obs' \in Phases
         /\ Goto(c, "request")
<1> DEFINE entries == Users(loc[c].prepared \o loc[c].pending)
<1>1. loc[c] \in Local /\ loc[c].prepared \o loc[c].pending \in Seq(Msgs)
  BY ConcatProperties DEF TypeOK, Local
<1>2. entries \in Seq(Entry)
  BY <1>1, UsersType
<1>3. /\ Published(agent, entries) \in AgentType
      /\ Appended(Tracked(loc[c], entries), entries) \in Local
  BY <1>1, <1>2, JoinType
<1> DEFINE joined == Appended(Tracked(loc[c], entries), entries)
<1>4. [joined EXCEPT !.pending = <<>>, !.prepared = <<>>] \in Local
  <2> HIDE DEF joined
  <2>1. joined \in Local /\ <<>> \in Seq(Msgs)
    BY <1>3, EmptySeq DEF joined
  <2>2. QED
    BY <2>1 DEF Local
<1>5. loc' = [loc EXCEPT ![c] = [joined EXCEPT !.pending = <<>>, !.prepared = <<>>]]
  BY DEF OpenTurn, TypeOK
<1>6. loc' \in [Callers -> Local]
  <2> HIDE DEF joined
  <2>1. QED
    BY <1>4, <1>5 DEF TypeOK
<1>7. QED
  BY <1>3, <1>6, ObserveType, ObservePairsType DEF OpenTurn

(* The steps of prepare_continuation and the polls. *)
LEMMA TypeBetween ==
  ASSUME TypeOK, NEW c \in Callers,
         \/ FirstPoll(c) \/ Prepare(c) \/ Prepared(c) \/ Polled(c)
         \/ SteerPoll(c) \/ Steered(c) \/ FollowUpPoll(c)
  PROVE  TypeOK'
<1>1. /\ agent \in AgentType /\ obs \in Phases /\ partial \in BOOLEAN
      /\ loc \in [Callers -> Local] /\ loc[c] \in Local
      /\ steering \in Seq(Msgs) /\ followUp \in Seq(Msgs) /\ sent \subseteq Msgs
      /\ {"inject", "prepared", "polled", "request", "prepare", "steered", "follow",
          "ended", "failed"} \subseteq PCs
  BY DEF TypeOK, AgentType, PCs
<1>2. CASE FirstPoll(c) \/ SteerPoll(c)
  BY <1>1, <1>2, PollType DEF FirstPoll, SteerPoll
<1>3. CASE Prepare(c)
  <2>1. CASE End(c) /\ UNCHANGED sent
    BY <1>1, <1>3, <2>1, EndType, TypeStep DEF Prepare, queueVars
  <2>2. CASE HookFails(c) /\ UNCHANGED sent
    BY <1>1, <1>3, <2>2, EndType, TypeStep DEF Prepare, queueVars
  <2>3. CASE /\ \E kept \in {TRUE, "replace" \notin HookPowers} :
               \E injected \in {<<>>} \cup
                    (IF "inject" \in HookPowers THEN {<<m>> : m \in Msgs \ sent} ELSE {}) :
                 /\ loc' = [loc EXCEPT ![c] =
                              [(IF kept THEN @ ELSE Replaced(@)) EXCEPT !.prepared = injected]]
                 /\ sent' = sent \cup Elements(injected)
             /\ Goto(c, "prepared")
             /\ UNCHANGED <<agent, obs>>
    <3>1. PICK kept \in {TRUE, "replace" \notin HookPowers},
               injected \in {<<>>} \cup
                    (IF "inject" \in HookPowers THEN {<<m>> : m \in Msgs \ sent} ELSE {}) :
                 /\ loc' = [loc EXCEPT ![c] =
                              [(IF kept THEN @ ELSE Replaced(@)) EXCEPT !.prepared = injected]]
                 /\ sent' = sent \cup Elements(injected)
      BY <2>3
    <3>2. injected \in Seq(Msgs)
      <4>1. <<>> \in Seq(Msgs) /\ \A m \in Msgs : <<m>> \in Seq(Msgs)
        OBVIOUS
      <4>2. injected = <<>> \/ \E m \in Msgs : injected = <<m>>
        OBVIOUS
      <4>3. QED
        BY <4>1, <4>2
    <3>3. sent' \subseteq Msgs
      BY <1>1, <3>1, <3>2, ElementsType
    <3>4. \A l \in Local : [l EXCEPT !.prepared = injected] \in Local
      BY <3>2 DEF Local
    <3>5. (IF kept THEN loc[c] ELSE Replaced(loc[c])) \in Local
      BY <1>1, ReplacedType
    <3>6. loc' \in [Callers -> Local]
      BY <1>1, <3>1, <3>4, <3>5
    <3>7. QED
      BY <1>1, <1>3, <2>3, <3>3, <3>6, TypeStep DEF Prepare, queueVars
  <2>4. QED
    BY <1>3, <2>1, <2>2, <2>3 DEF Prepare
<1>4. CASE Prepared(c) \/ Polled(c)
  <2>1. CASE PollSteering(c, "polled")
    BY <1>1, <2>1, PollType
  <2>2. CASE End(c) /\ UNCHANGED <<runVars, queueVars, partial, waitVars, histVars>>
    BY <1>1, <2>2, EndType, TypeStep DEF queueVars, histVars
  <2>3. CASE OpenTurn(c) /\ UNCHANGED <<runVars, queueVars, partial, waitVars, histVars>>
    BY <1>1, <2>3, OpenTurnType, TypeStep DEF queueVars, histVars
  <2>4. QED
    BY <1>4, <2>1, <2>2, <2>3 DEF Prepared, Polled
<1>5. CASE Steered(c)
  <2>1. CASE End(c)
    BY <1>1, <1>5, <2>1, EndType, TypeStep DEF Steered, queueVars, histVars
  <2>2. CASE /\ loc' = [loc EXCEPT ![c].explicit = @ /\ ~NaturalRequest(loc[c])]
             /\ Goto(c, IF NaturalRequest(loc[c]) THEN "prepare" ELSE "follow")
             /\ UNCHANGED <<agent, obs>>
    <3>1. \A b \in BOOLEAN : [loc[c] EXCEPT !.explicit = b] \in Local
      BY <1>1 DEF Local
    <3>2. (loc[c].explicit /\ ~NaturalRequest(loc[c])) \in BOOLEAN
      OBVIOUS
    <3>3. loc' \in [Callers -> Local]
      BY <1>1, <2>2, <3>1, <3>2
    <3>4. QED
      BY <1>1, <1>5, <2>2, <3>3, TypeStep DEF Steered, queueVars, histVars
  <2>3. QED
    BY <1>5, <2>1, <2>2 DEF Steered
<1>6. CASE FollowUpPoll(c)
  <2> DEFINE polled == Drained(followUp, followUpMode)
  <2>1. polled \in Seq(Msgs) /\ followUp' \in Seq(Msgs)
    BY <1>1, <1>6, DrainType DEF FollowUpPoll
  <2>2. CASE End(c)
    BY <1>1, <1>6, <2>1, <2>2, EndType, TypeStep DEF FollowUpPoll, histVars
  <2>3. CASE /\ loc' = [loc EXCEPT ![c].pending = polled, ![c].explicit = FALSE,
                                   ![c].more = TRUE]
             /\ Goto(c, "prepare")
             /\ UNCHANGED <<agent, obs>>
    <3>1. [loc[c] EXCEPT !.pending = polled, !.explicit = FALSE, !.more = TRUE] \in Local
      BY <1>1, <2>1 DEF Local
    <3>2. loc' = [loc EXCEPT ![c] =
                   [loc[c] EXCEPT !.pending = polled, !.explicit = FALSE, !.more = TRUE]]
      BY <1>1, <2>3
    <3>3. loc' \in [Callers -> Local]
      BY <1>1, <3>1, <3>2
    <3>4. QED
      BY <1>1, <1>6, <2>1, <2>3, <3>3, TypeStep DEF FollowUpPoll, histVars
  <2>4. QED
    BY <1>6, <2>2, <2>3 DEF FollowUpPoll
<1>7. QED
  BY <1>2, <1>3, <1>4, <1>5, <1>6

(* The steps of one turn. *)
LEMMA TypeTurn ==
  ASSUME TypeOK, NEW c \in Callers,
         \/ SetFlags(c) \/ Launch(c) \/ Inject(c) \/ Request(c) \/ Terminal(c)
         \/ \E decision \in {"none", "continue", "end"} : FinishTurn(c, decision)
         \/ Fail(c)
  PROVE  TypeOK'
<1>1. /\ agent \in AgentType /\ obs \in Phases /\ partial \in BOOLEAN
      /\ loc \in [Callers -> Local] /\ loc[c] \in Local
      /\ steering \in Seq(Msgs) /\ followUp \in Seq(Msgs) /\ sent \subseteq Msgs
      /\ {"launch", "poll", "request", "stream", "steer", "ended", "failed"} \subseteq PCs
  BY DEF TypeOK, AgentType, PCs
<1>2. CASE SetFlags(c)
  <2>1. agent' \in AgentType
    BY <1>1, <1>2 DEF SetFlags, Flagged, AgentType
  <2>2. QED
    BY <1>1, <1>2, <2>1, TypeStep DEF SetFlags, queueVars, histVars
<1>3. CASE Launch(c)
  <2> DEFINE base == agent.messages
             prompts == Users(loc[c].prompts)
             opened == [loc[c] EXCEPT !.prompts = <<>>, !.base = base, !.seed = base,
                                      !.ctx = base]
  <2>1. base \in Seq(Entry) /\ <<>> \in Seq(Msgs) /\ loc[c].prompts \in Seq(Msgs)
    BY <1>1 DEF AgentType, Local
  <2>2. opened \in Local
    BY <1>1, <2>1 DEF Local
  <2>3. prompts \in Seq(Entry)
    BY <2>1, UsersType
  <2>4. /\ Published(agent, prompts) \in AgentType
        /\ Appended(Tracked(opened, prompts), prompts) \in Local
    BY <2>2, <2>3, JoinType
  <2> HIDE DEF opened, prompts
  <2>5. CASE /\ Goto(c, "failed") /\ loc' = [loc EXCEPT ![c] = opened]
             /\ UNCHANGED <<agent, obs>>
    <3>1. loc' \in [Callers -> Local]
      BY <1>1, <2>2, <2>5
    <3>2. QED
      BY <1>1, <1>3, <2>5, <3>1, TypeStep DEF Launch, queueVars, histVars
  <2>6. CASE /\ obs' = ObservePairs(Observe(Observe(obs, "agent_start"), "turn_start"), prompts)
             /\ agent' = Published(agent, prompts)
             /\ loc' = [loc EXCEPT ![c] = Appended(Tracked(opened, prompts), prompts)]
             /\ Goto(c, "poll")
    <3>1. loc' \in [Callers -> Local] /\ agent' \in AgentType
      BY <1>1, <2>4, <2>6
    <3>2. obs' \in Phases
      BY <2>6, ObserveType, ObservePairsType
    <3>3. QED
      BY <1>1, <1>3, <2>6, <3>1, <3>2, TypeStep DEF Launch, queueVars, histVars
  <2>7. QED
    BY <1>3, <2>5, <2>6 DEF Launch, opened, prompts
<1>4. CASE Inject(c)
  <2> DEFINE entries == Users(loc[c].pending)
             joined == Appended(Tracked(loc[c], entries), entries)
  <2>1. loc[c].pending \in Seq(Msgs) /\ <<>> \in Seq(Msgs)
    BY <1>1 DEF Local
  <2>2. entries \in Seq(Entry)
    BY <2>1, UsersType
  <2>3. Published(agent, entries) \in AgentType /\ joined \in Local
    BY <1>1, <2>2, JoinType
  <2>4. /\ agent' = Published(agent, entries) /\ obs' = ObservePairs(obs, entries)
        /\ loc' = [loc EXCEPT ![c] = [joined EXCEPT !.pending = <<>>]]
    BY <1>1, <1>4 DEF Inject
  <2> HIDE DEF joined, entries
  <2>5. [joined EXCEPT !.pending = <<>>] \in Local
    BY <2>1, <2>3 DEF Local
  <2>6. loc' \in [Callers -> Local] /\ obs' \in Phases
    BY <1>1, <2>4, <2>5, ObservePairsType
  <2>7. QED
    BY <1>1, <1>4, <2>3, <2>4, <2>6, TypeStep DEF Inject, queueVars, histVars
<1>5. CASE Request(c)
  <2>1. CASE HookFails(c)
    BY <1>1, <1>5, <2>1, EndType, TypeStep DEF Request, queueVars, histVars
  <2>2. CASE /\ \E kept \in {TRUE, "replace" \notin HookPowers} :
                 loc' = [loc EXCEPT ![c] = [(IF kept THEN @ ELSE Replaced(@))
                                             EXCEPT !.added = FALSE, !.promised = FALSE]]
             /\ Goto(c, "stream")
             /\ UNCHANGED <<agent, obs>>
    <3>1. \A l \in Local : [l EXCEPT !.added = FALSE, !.promised = FALSE] \in Local
      BY DEF Local
    <3>2. \A kept \in BOOLEAN : (IF kept THEN loc[c] ELSE Replaced(loc[c])) \in Local
      BY <1>1, ReplacedType
    <3>3. loc' \in [Callers -> Local]
      BY <1>1, <2>2, <3>1, <3>2
    <3>4. QED
      BY <1>1, <1>5, <2>2, <3>3, TypeStep DEF Request, queueVars, histVars
  <2>3. QED
    BY <1>5, <2>1, <2>2 DEF Request
<1>6. CASE Terminal(c)
  <2>1. CASE HookFails(c)
    BY <1>1, <1>6, <2>1, EndType, TypeStep DEF Terminal, queueVars, histVars
  <2>2. CASE /\ obs' = Observe(Observe(obs, "turn_end"), "agent_end")
             /\ agent' = [agent EXCEPT !.message = FALSE, !.error = TRUE]
             /\ Goto(c, "ended")
             /\ UNCHANGED loc
    <3>1. agent' \in AgentType /\ obs' \in Phases
      BY <1>1, <2>2, ObserveType DEF AgentType
    <3>2. QED
      BY <1>1, <1>6, <2>2, <3>1, TypeStep DEF Terminal, queueVars, histVars
  <2>3. QED
    BY <1>6, <2>1, <2>2 DEF Terminal
<1>7. ASSUME NEW decision \in {"none", "continue", "end"}, FinishTurn(c, decision)
      PROVE  TypeOK'
  <2>1. CASE HookFails(c)
    BY <1>1, <1>7, <2>1, EndType, TypeStep DEF FinishTurn, queueVars, histVars
  <2>2. CASE ~HookFails(c)
    <3>1. [loc[c] EXCEPT !.explicit = (decision = "continue"),
                         !.promised = (decision = "continue")] \in Local
      BY <1>1 DEF Local
    <3>2. loc' = [loc EXCEPT ![c] = [loc[c] EXCEPT !.explicit = (decision = "continue"),
                                                  !.promised = (decision = "continue")]]
      BY <1>1, <1>7, <2>2 DEF FinishTurn
    <3>3. loc' \in [Callers -> Local]
      BY <1>1, <3>1, <3>2
    <3>4. obs' \in Phases /\ UNCHANGED agent
      BY <1>7, <2>2, ObserveType DEF FinishTurn
    <3>5. Goto(c, "ended") \/ Goto(c, "steer")
      BY <1>7, <2>2 DEF FinishTurn
    <3>6. QED
      BY <1>1, <1>7, <3>3, <3>4, <3>5, TypeStep DEF FinishTurn, queueVars, histVars
  <2>3. QED
    BY <2>1, <2>2
<1>8. CASE Fail(c)
  <2> DEFINE final == Assistant(IF cancelled[c] THEN "aborted" ELSE "error")
  <2>1. final \in Entry /\ <<final>> \in Seq(Entry)
    BY FinalType DEF Stops
  <2>2. Published(agent, <<final>>) \in AgentType
    BY <1>1, <2>1, PublishedType
  <2> HIDE DEF final
  <2>3. /\ [agent EXCEPT !.message = FALSE, !.error = TRUE] \in AgentType
        /\ [Published(agent, <<final>>) EXCEPT !.error = TRUE] \in AgentType
    BY <1>1, <2>2 DEF AgentType
  <2>4. Append(loc[c].tracked, final) \in Seq(Entry)
    BY <1>1, <2>1, AppendProperties DEF Local
  <2>5. [loc[c] EXCEPT !.tracked = Append(loc[c].tracked, final)] \in Local
    BY <1>1, <2>4 DEF Local
  <2>6. agent' \in AgentType /\ obs' \in Phases
    <3>1. \/ agent' = [agent EXCEPT !.message = FALSE, !.error = TRUE]
          \/ agent' = [Published(agent, <<final>>) EXCEPT !.error = TRUE]
      BY <1>8 DEF Fail, final
    <3>2. \E o \in Phases : obs' = Observe(o, "agent_end")
      BY <1>1, <1>8, ObserveType DEF Fail
    <3>3. QED
      BY <2>3, <3>1, <3>2, ObserveType
  <2>7. \/ UNCHANGED loc
        \/ loc' = [loc EXCEPT ![c] = [loc[c] EXCEPT !.tracked = Append(loc[c].tracked, final)]]
    BY <1>1, <1>8 DEF Fail, final
  <2>8. loc' \in [Callers -> Local]
    BY <1>1, <2>5, <2>7
  <2>9. QED
    BY <1>1, <1>8, <2>6, <2>8, TypeStep DEF Fail, queueVars, histVars
<1>9. QED
  BY <1>2, <1>3, <1>4, <1>5, <1>6, <1>7, <1>8

(* The steps that wait for the provider or for tools. *)
LEMMA TypeOutside ==
  ASSUME TypeOK, NEW c \in Callers, OutsideStep(c)
  PROVE  TypeOK'
<1>1. /\ agent \in AgentType /\ obs \in Phases /\ partial \in BOOLEAN
      /\ loc \in [Callers -> Local] /\ loc[c] \in Local
      /\ steering \in Seq(Msgs) /\ followUp \in Seq(Msgs) /\ sent \subseteq Msgs
      /\ pc \in [Callers -> PCs]
      /\ {"terminal", "tools", "finish", "stream"} \subseteq PCs
  BY DEF TypeOK, AgentType, PCs
<1>2. CASE StreamStart(c)
  <2>1. Assistant("done") \in Entry
    BY FinalType DEF Stops
  <2>2. Append(loc[c].ctx, Assistant("done")) \in Seq(Entry)
    BY <1>1, <2>1, AppendProperties DEF Local
  <2>3. [loc[c] EXCEPT !.added = TRUE, !.ctx = Append(loc[c].ctx, Assistant("done"))] \in Local
    BY <1>1, <2>2 DEF Local
  <2>4. loc' = [loc EXCEPT ![c] = [loc[c] EXCEPT !.added = TRUE,
                                     !.ctx = Append(loc[c].ctx, Assistant("done"))]]
    BY <1>1, <1>2 DEF StreamStart
  <2>5. loc' \in [Callers -> Local]
    BY <1>1, <2>3, <2>4
  <2>6. agent' \in AgentType /\ obs' \in Phases /\ partial' \in BOOLEAN
    BY <1>1, <1>2, ObserveType DEF StreamStart, AgentType
  <2>7. QED
    BY <1>1, <1>2, <2>5, <2>6 DEF StreamStart, TypeOK, AgentType, runVars, queueVars,
       waitVars, histVars
<1>3. ASSUME NEW stop \in Outcomes(c), NEW calls \in BOOLEAN, Finalize(c, stop, calls)
      PROVE  TypeOK'
  <2> DEFINE final == Assistant(stop)
             tracked == Tracked(loc[c], <<final>>)
             done == [tracked EXCEPT !.ctx = Finalized(loc[c], final),
                        !.new = Append(loc[c].new, final), !.added = FALSE, !.stop = stop,
                        !.turns = loc[c].turns + 1, !.more = FALSE]
  <2>1. stop \in Stops
    BY <1>3 DEF Outcomes, Stops
  <2>2. final \in Entry /\ <<final>> \in Seq(Entry)
    BY <2>1, FinalType
  <2>3. tracked \in Local /\ Published(agent, <<final>>) \in AgentType
    BY <1>1, <2>2, TrackedType, PublishedType
  <2>4. Finalized(loc[c], final) \in Seq(Entry)
    BY <1>1, <2>2, FinalizedType
  <2>5. loc' = [loc EXCEPT ![c] = done] /\ agent' = Published(agent, <<final>>)
    BY <1>1, <1>3 DEF Finalize
  <2> HIDE DEF final, tracked
  <2>6. Append(loc[c].new, final) \in Seq(Entry) /\ loc[c].turns + 1 \in Nat
    BY <1>1, <2>2, AppendProperties DEF Local
  <2>7. done \in Local
    BY <2>1, <2>3, <2>4, <2>6 DEF Local
  <2>8. loc' \in [Callers -> Local]
    BY <1>1, <2>5, <2>7
  <2>9. obs' \in Phases /\ partial' \in BOOLEAN
    BY <1>3, ObserveType DEF Finalize
  <2>10. Goto(c, "terminal") \/ Goto(c, "tools") \/ Goto(c, "finish")
    BY <1>3 DEF Finalize
  <2>11. QED
    BY <1>1, <1>3, <2>3, <2>5, <2>8, <2>9, <2>10, TypeStep DEF Finalize, queueVars, histVars
<1>4. ASSUME NEW terminate \in BOOLEAN, Tools(c, terminate) PROVE TypeOK'
  <2> DEFINE entries == <<ToolResults>>
             joined == Appended(Tracked(loc[c], entries), entries)
  <2>1. entries \in Seq(Entry)
    BY EntryTypes
  <2>2. Published(agent, entries) \in AgentType /\ joined \in Local
    BY <1>1, <2>1, JoinType
  <2>3. /\ loc' = [loc EXCEPT ![c] = [joined EXCEPT !.more = ~terminate]]
        /\ agent' = Published(agent, entries) /\ obs' = ObservePairs(obs, entries)
    BY <1>1, <1>4 DEF Tools
  <2> HIDE DEF joined, entries
  <2>4. [joined EXCEPT !.more = ~terminate] \in Local
    BY <2>2 DEF Local
  <2>5. loc' \in [Callers -> Local] /\ obs' \in Phases
    BY <1>1, <2>3, <2>4, ObservePairsType
  <2>6. QED
    BY <1>1, <1>4, <2>2, <2>3, <2>5, TypeStep DEF Tools, queueVars, histVars
<1>5. QED
  BY <1>2, <1>3, <1>4 DEF OutsideStep

(* The end of finish_run, and wait_for_idle. *)
LEMMA TypeSettle ==
  ASSUME TypeOK,
         \/ \E c \in Callers : Release(c) \/ NotifyWaiters(c)
         \/ \E w \in Waiters : WaitArm(w) \/ WaitCheck(w) \/ WaitSleep(w) \/ WaitWake(w)
  PROVE  TypeOK'
<1> USE DEF runVars, queueVars, waitVars, histVars
<1>1. ASSUME NEW c \in Callers, Release(c) PROVE TypeOK'
  <2>1. agent' \in AgentType
    BY <1>1 DEF Release, Settled, TypeOK, AgentType
  <2>2. loc' \in [Callers -> Local] /\ pc' \in [Callers -> PCs]
    BY <1>1, NoRunType DEF Release, Goto, PCs, TypeOK
  <2>3. loc[c].pending \in Seq(Msgs) /\ loc[c].prepared \in Seq(Msgs)
    BY DEF TypeOK, Local
  <2>4. dropped' \subseteq Msgs
    BY <1>1, <2>3, ElementsType DEF Release, TypeOK
  <2>5. QED
    BY <1>1, <2>1, <2>2, <2>4 DEF Release, TypeOK, AgentType
<1>2. ASSUME NEW c \in Callers, NotifyWaiters(c) PROVE TypeOK'
  BY <1>2 DEF NotifyWaiters, Registered, Goto, PCs, TypeOK
<1>3. ASSUME NEW w \in Waiters, WaitArm(w) \/ WaitCheck(w) \/ WaitSleep(w) \/ WaitWake(w) PROVE TypeOK'
  BY <1>3 DEF WaitArm, WaitCheck, WaitSleep, WaitWake, TypeOK
<1>4. QED
  BY <1>1, <1>2, <1>3

(* Every variable keeps its type. *)
THEOREM TypeCorrect == Spec => []TypeOK
<1>1. TypeOK /\ [Next]_vars => TypeOK'
  <2> SUFFICES ASSUME TypeOK, [Next]_vars PROVE TypeOK'
    OBVIOUS
  <2>1. CASE UNCHANGED vars
    BY <2>1 DEF vars, runVars, queueVars, waitVars, histVars, TypeOK
  <2>2. CASE Caller
    BY <2>2, TypeCaller
  <2>3. ASSUME NEW c \in Callers, LoopStep(c) PROVE TypeOK'
    BY <2>3, TypeTurn, TypeBetween, TypeSettle DEF LoopStep
  <2>4. ASSUME NEW c \in Callers, OutsideStep(c) PROVE TypeOK'
    BY <2>4, TypeOutside
  <2>5. CASE \E w \in Waiters : WaitArm(w) \/ WaitCheck(w) \/ WaitSleep(w) \/ WaitWake(w)
    BY <2>5, TypeSettle
  <2>6. QED
    BY <2>1, <2>2, <2>3, <2>4, <2>5 DEF Next
<1>2. QED
  BY <1>1, TypeInit, PTL DEF Spec

-----------------------------------------------------------------------------
(* The safety theorems, on top of type correctness. *)

(* A run moves between two positions that own the token. *)
Moves(c) ==
  /\ pc[c] \in Owning
  /\ \E next \in Owning : Goto(c, next)
  /\ UNCHANGED runVars

(* Every step of the loop up to finish_run is such a move. *)
LEMMA LoopMoves ==
  ASSUME NEW c \in Callers, LoopStep(c) \/ OutsideStep(c), ~Release(c), ~NotifyWaiters(c),
         TypeOK
  PROVE  Moves(c) /\ UNCHANGED waitVars
<1> USE DEF Moves, Owning, PCs
<1>1. CASE SetFlags(c)
  BY <1>1 DEF SetFlags
<1>2. CASE Launch(c)
  BY <1>2 DEF Launch
<1>3. CASE FirstPoll(c) \/ SteerPoll(c)
  BY <1>3 DEF FirstPoll, SteerPoll, PollSteering
<1>4. CASE Inject(c)
  BY <1>4 DEF Inject
<1>5. CASE Prepare(c)
  BY <1>5 DEF Prepare, End, HookFails
<1>6. CASE Prepared(c) \/ Polled(c)
  BY <1>6 DEF Prepared, Polled, End, OpenTurn, PollSteering
<1>7. CASE Request(c) \/ Terminal(c)
  BY <1>7 DEF Request, Terminal, HookFails
<1>8. ASSUME NEW decision, FinishTurn(c, decision) PROVE Moves(c) /\ UNCHANGED waitVars
  BY <1>8 DEF FinishTurn, HookFails
<1>9. CASE Steered(c) \/ FollowUpPoll(c)
  BY <1>9 DEF Steered, FollowUpPoll, End
<1>10. CASE Fail(c)
  BY <1>10 DEF Fail
<1>11. CASE StreamStart(c)
  <2>1. Goto(c, "stream")
    BY <1>11 DEF StreamStart, Goto, TypeOK
  <2>2. QED
    BY <1>11, <2>1 DEF StreamStart
<1>12. ASSUME NEW stop, NEW calls, Finalize(c, stop, calls) PROVE Moves(c) /\ UNCHANGED waitVars
  BY <1>12 DEF Finalize
<1>13. ASSUME NEW terminate, Tools(c, terminate) PROVE Moves(c) /\ UNCHANGED waitVars
  BY <1>13 DEF Tools
<1>14. QED
  BY <1>1, <1>2, <1>3, <1>4, <1>5, <1>6, <1>7, <1>8, <1>9, <1>10, <1>11, <1>12, <1>13
     DEF LoopStep, OutsideStep

(* The operations that start no run leave the run state alone; ContinueRun *)
(* and Prompt acquire it.                                                  *)
LEMMA CallerMoves ==
  ASSUME Caller, TypeOK
  PROVE  /\ UNCHANGED waitVars
         /\ \/ UNCHANGED <<active, isStreaming, pc>>
            \/ Reset
            \/ \E c \in Callers, next \in {"flags", "launch"} : Acquire(c) /\ Goto(c, next)
<1> USE DEF runVars
<1>1. ASSUME NEW m \in Msgs, Steer(m) \/ FollowUp(m) \/ PushMessage(m)
      PROVE  UNCHANGED <<active, isStreaming, pc>> /\ UNCHANGED waitVars
  BY <1>1 DEF Steer, FollowUp, PushMessage
<1>2. ASSUME NEW mode \in QueueModes, SetSteeringMode(mode) \/ SetFollowUpMode(mode)
      PROVE  UNCHANGED <<active, isStreaming, pc>> /\ UNCHANGED waitVars
  BY <1>2 DEF SetSteeringMode, SetFollowUpMode
<1>3. CASE \/ ClearQueues \/ Abort
           \/ PopLastIfAssistant \/ ReplaceLastAssistant \/ ReplaceMessages
  BY <1>3 DEF ClearQueues, Abort, PopLastIfAssistant, ReplaceLastAssistant, ReplaceMessages
<1>4. CASE Reset
  BY <1>4 DEF Reset
<1>5. ASSUME NEW c \in Callers, ContinueRun(c)
      PROVE  Acquire(c) /\ Goto(c, "launch") /\ UNCHANGED waitVars
  BY <1>5 DEF ContinueRun
<1>6. ASSUME NEW c \in Callers, NEW m \in Msgs, Prompt(c, m)
      PROVE  Acquire(c) /\ Goto(c, "flags") /\ UNCHANGED waitVars
  BY <1>6 DEF Prompt
<1>7. QED
  BY <1>1, <1>2, <1>3, <1>4, <1>5, <1>6 DEF Caller

(* SingleRun is preserved by every step of a well-typed state. *)
LEMMA SingleRunStep ==
  ASSUME TypeOK, SingleRun, [Next]_vars
  PROVE  SingleRun'
<1> USE AgentRunAssumption
<1>1. CASE UNCHANGED <<active, isStreaming, pc>>
  BY <1>1 DEF SingleRun
<1>2. CASE Reset
  BY <1>2 DEF Reset, NoActiveRun, SingleRun
<1>3. ASSUME NEW c \in Callers, NEW next \in {"flags", "launch"}, Acquire(c), Goto(c, next)
      PROVE  SingleRun'
  BY <1>3 DEF Acquire, NoActiveRun, Goto, SingleRun, TypeOK, Owning, PCs
<1>4. ASSUME NEW c \in Callers, Moves(c) PROVE SingleRun'
  BY <1>4 DEF Moves, Goto, SingleRun, TypeOK, runVars
<1>5. ASSUME NEW c \in Callers, Release(c) PROVE SingleRun'
  BY <1>5 DEF Release, Goto, SingleRun, TypeOK, Owning, PCs
<1>6. ASSUME NEW c \in Callers, NotifyWaiters(c) PROVE SingleRun'
  BY <1>6 DEF NotifyWaiters, Goto, SingleRun, TypeOK, Owning, PCs, runVars
<1>7. ASSUME NEW w \in Waiters, WaitArm(w) \/ WaitCheck(w) \/ WaitSleep(w) \/ WaitWake(w)
      PROVE  UNCHANGED <<active, isStreaming, pc>>
  BY <1>7 DEF WaitArm, WaitCheck, WaitSleep, WaitWake, runVars
<1>8. CASE UNCHANGED vars
  BY <1>1, <1>8 DEF vars, runVars
<1>9. CASE Caller
  BY <1>1, <1>2, <1>3, <1>9, CallerMoves
<1>10. ASSUME NEW c \in Callers, LoopStep(c) \/ OutsideStep(c) PROVE SingleRun'
  BY <1>4, <1>5, <1>6, <1>10, LoopMoves
<1>11. QED
  BY <1>1, <1>7, <1>8, <1>9, <1>10 DEF Next

(* start_run, begin_continue, reset and finish_run never let two runs      *)
(* overlap, and the streaming flag is raised exactly while one is active,  *)
(* for any number of callers.                                              *)
THEOREM SingleRunHolds == Spec => []SingleRun
<1>1. Init => SingleRun
  BY AgentRunAssumption DEF Init, SingleRun, Owning, PCs
<1>2. QED
  BY <1>1, SingleRunStep, TypeCorrect, PTL DEF Spec

-----------------------------------------------------------------------------
(* NoLostWakeup is preserved: the waiter checks under the run lock after   *)
(* its future exists, and finish_run notifies after releasing the run.     *)
LEMMA NoLostWakeupStep ==
  ASSUME TypeOK, SingleRun, NoLostWakeup, [Next]_vars
  PROVE  NoLostWakeup'
<1> USE AgentRunAssumption
<1>1. CASE UNCHANGED <<active, pc, waitVars>>
  BY <1>1 DEF NoLostWakeup, waitVars
<1>2. CASE Reset
  BY <1>2 DEF Reset, NoActiveRun, NoLostWakeup, waitVars
<1>3. ASSUME NEW c \in Callers, NEW next, Acquire(c), Goto(c, next)
      PROVE  NoLostWakeup'
  BY <1>3 DEF Acquire, NoLostWakeup
<1>4. ASSUME NEW c \in Callers, Moves(c), UNCHANGED waitVars PROVE NoLostWakeup'
  BY <1>4 DEF Moves, SingleRun, NoLostWakeup, TypeOK, runVars
<1>5. ASSUME NEW c \in Callers, Release(c) PROVE NoLostWakeup'
  BY <1>5 DEF Release, Goto, NoLostWakeup, TypeOK
<1>6. ASSUME NEW c \in Callers, NotifyWaiters(c) PROVE NoLostWakeup'
  BY <1>6 DEF NotifyWaiters, Registered, NoLostWakeup
<1>7. ASSUME NEW w \in Waiters, WaitArm(w) \/ WaitCheck(w) \/ WaitSleep(w) \/ WaitWake(w)
      PROVE  NoLostWakeup'
  BY <1>7 DEF WaitArm, WaitCheck, WaitSleep, WaitWake, SingleRun, NoLostWakeup, TypeOK, runVars
<1>8. CASE UNCHANGED vars
  BY <1>1, <1>8 DEF vars, runVars
<1>9. CASE Caller
  BY <1>1, <1>2, <1>3, <1>9, CallerMoves
<1>10. ASSUME NEW c \in Callers, LoopStep(c) \/ OutsideStep(c) PROVE NoLostWakeup'
  BY <1>4, <1>5, <1>6, <1>10, LoopMoves
<1>11. QED
  BY <1>7, <1>8, <1>9, <1>10 DEF Next

(* wait_for_idle never sleeps through the end of the last run, for any     *)
(* number of callers and waiters.                                          *)
THEOREM NoLostWakeupHolds == Spec => []NoLostWakeup
<1>1. Init => NoLostWakeup
  BY DEF Init, NoLostWakeup
<1>2. QED
  BY <1>1, NoLostWakeupStep, TypeCorrect, SingleRunHolds, PTL DEF Spec

-----------------------------------------------------------------------------
(* The event protocol.  EventProtocol speaks of the subscriber alone; the  *)
(* strengthening ties what it has seen to the position of the run, and a   *)
(* run that has closed a turn to the assistant end it has published.       *)

InTurn == {"poll", "inject", "request", "terminal", "tools", "finish"}
BetweenTurns == {"prepare", "prepared", "polled", "steer", "steered", "follow"}

PhaseAt(c) ==
  /\ pc[c] \in {"flags", "launch", "ended"} => obs \in {"idle", "cut"}
  /\ pc[c] \in InTurn => obs = "turn"
  /\ pc[c] = "stream" => obs = IF loc[c].added THEN "message" ELSE "turn"
  /\ pc[c] \in BetweenTurns => obs = "agent"
  /\ pc[c] \in BetweenTurns \cup {"terminal", "tools", "finish"} => loc[c].terminal
  /\ pc[c] = "failed" => /\ "fail" \in HookPowers
                         /\ obs = "turn" \/ (obs = "agent" /\ loc[c].terminal)
  /\ pc[c] = "flags" => loc[c].mode = "prompt"
  /\ (pc[c] = "launch" /\ loc[c].mode = "continue") =>
       agent.messages # <<>> /\ ~TailIsAssistant(agent.messages)

RunPhases == \A c \in Callers : PhaseAt(c)

ProtocolInv == EventProtocol /\ RunPhases

(* What a step of the active run has to establish. *)
LEMMA PhaseStep ==
  ASSUME TypeOK, SingleRun, ProtocolInv, NEW c \in Callers, Moves(c), PhaseAt(c)',
         obs' # "broken", obs' = "cut" => "fail" \in HookPowers
  PROVE  ProtocolInv'
<1>1. active = c /\ active' = c /\ c # NoCaller
  BY AgentRunAssumption DEF Moves, SingleRun, runVars
<1>2. EventProtocol'
  BY <1>1 DEF EventProtocol
<1>3. ASSUME NEW d \in Callers, d # c PROVE PhaseAt(d)'
  <2>1. pc'[d] = pc[d] /\ pc[d] \notin Owning
    BY <1>1, <1>3 DEF Moves, Goto, SingleRun, TypeOK
  <2>2. pc'[d] \notin {"flags", "launch", "ended", "stream", "failed", "terminal", "tools",
                       "finish"} \cup InTurn \cup BetweenTurns
    BY <2>1 DEF Owning, PCs, InTurn, BetweenTurns, TypeOK
  <2>3. QED
    BY <2>2 DEF PhaseAt
<1>4. QED
  BY <1>2, <1>3 DEF ProtocolInv, RunPhases

(* The pairs of a batch of messages leave an open turn open. *)
LEMMA PairsInTurn ==
  \A entries : ObservePairs("turn", entries) = "turn"
BY DEF ObservePairs, Observe

(* Steps of a run between its turns. *)
LEMMA PhaseBetween ==
  ASSUME TypeOK, SingleRun, ProtocolInv, NEW c \in Callers,
         \/ Prepare(c) \/ Prepared(c) \/ Polled(c)
         \/ SteerPoll(c) \/ Steered(c) \/ FollowUpPoll(c)
  PROVE  ProtocolInv'
<1>1. /\ pc[c] \in BetweenTurns /\ obs = "agent" /\ loc[c].terminal
  BY DEF Prepare, Prepared, Polled, SteerPoll, Steered, FollowUpPoll, ProtocolInv,
     RunPhases, PhaseAt, BetweenTurns
<1>2. Moves(c)
  <2>1. ~Release(c) /\ ~NotifyWaiters(c)
    BY <1>1 DEF Release, NotifyWaiters, BetweenTurns
  <2>2. QED
    BY <2>1, LoopMoves DEF LoopStep
<1>3. CASE End(c)
  <2>1. obs' = "idle" /\ pc'[c] = "ended"
    BY <1>1, <1>3 DEF End, Observe, Goto, TypeOK
  <2>2. QED
    BY <1>2, <2>1, PhaseStep DEF PhaseAt, InTurn, BetweenTurns
<1>4. CASE HookFails(c)
  <2>1. /\ obs' = "agent" /\ pc'[c] = "failed" /\ loc'[c].terminal
        /\ "fail" \in HookPowers
    BY <1>1, <1>4 DEF HookFails, Goto, TypeOK
  <2>2. QED
    BY <1>2, <2>1, PhaseStep DEF PhaseAt, InTurn, BetweenTurns
<1>5. CASE OpenTurn(c)
  <2>1. obs' = "turn" /\ pc'[c] = "request"
    <3>1. Observe(obs, "turn_start") = "turn"
      BY <1>1 DEF Observe
    <3>2. QED
      BY <1>5, <3>1, PairsInTurn DEF OpenTurn, Goto, TypeOK
  <2>2. QED
    BY <1>2, <2>1, PhaseStep DEF PhaseAt, InTurn, BetweenTurns
<1>6. ASSUME pc'[c] \in BetweenTurns, loc'[c].terminal, UNCHANGED obs PROVE ProtocolInv'
  BY <1>1, <1>2, <1>6, PhaseStep DEF PhaseAt, InTurn, BetweenTurns
<1>7. ASSUME NEW next \in BetweenTurns, PollSteering(c, next) PROVE ProtocolInv'
  <2>1. pc'[c] = next /\ UNCHANGED obs
    BY <1>7 DEF PollSteering, Goto, TypeOK
  <2>2. loc'[c].terminal
    BY <1>1, <1>7 DEF PollSteering, TypeOK, Local
  <2>3. QED
    BY <1>6, <2>1, <2>2
<1>8. CASE Prepare(c)
  <2>1. CASE ~End(c) /\ ~HookFails(c)
    <3>1. pc'[c] = "prepared" /\ UNCHANGED obs
      BY <1>8, <2>1 DEF Prepare, Goto, TypeOK
    <3>2. \E l \in {loc[c], Replaced(loc[c])} : \E injected :
            loc' = [loc EXCEPT ![c] = [l EXCEPT !.prepared = injected]]
      BY <1>8, <2>1 DEF Prepare
    <3>3. loc[c] \in Local /\ Replaced(loc[c]) \in Local
      BY ReplacedType DEF TypeOK
    <3>4. loc'[c].terminal
      <4>1. Replaced(loc[c]).terminal
        BY <1>1, <3>3 DEF Replaced, Local
      <4>2. \A l \in Local : \A q : [l EXCEPT !.prepared = q].terminal = l.terminal
        BY DEF Local
      <4>3. \E l \in {loc[c], Replaced(loc[c])} : \E q : loc'[c] = [l EXCEPT !.prepared = q]
        BY <3>2, ZenonT(60) DEF TypeOK
      <4>4. QED
        BY <1>1, <3>3, <4>1, <4>2, <4>3
    <3>5. QED
      BY <1>6, <3>1, <3>4 DEF BetweenTurns
  <2>2. QED
    BY <1>3, <1>4, <2>1
<1>9. CASE Prepared(c) \/ Polled(c)
  BY <1>3, <1>5, <1>7, <1>9 DEF Prepared, Polled, BetweenTurns
<1>10. CASE SteerPoll(c)
  BY <1>7, <1>10 DEF SteerPoll, BetweenTurns
<1>11. CASE Steered(c) \/ FollowUpPoll(c)
  <2>1. CASE ~End(c)
    <3>1. pc'[c] \in BetweenTurns /\ UNCHANGED obs
      BY <1>11, <2>1 DEF Steered, FollowUpPoll, Goto, TypeOK, BetweenTurns
    <3>2. loc'[c].terminal
      <4>1. loc \in [Callers -> Local] /\ loc[c] \in Local
        BY DEF TypeOK
      <4>2. CASE Steered(c)
        <5>1. \E b : loc' = [loc EXCEPT ![c] = [loc[c] EXCEPT !.explicit = b]]
          BY <2>1, <4>1, <4>2 DEF Steered
        <5>2. \A b : [loc[c] EXCEPT !.explicit = b].terminal = loc[c].terminal
          BY <4>1 DEF Local
        <5>3. QED
          BY <1>1, <4>1, <5>1, <5>2
      <4>3. CASE FollowUpPoll(c)
        <5>1. \E q : loc' = [loc EXCEPT ![c] = [loc[c] EXCEPT !.pending = q, !.explicit = FALSE,
                                                              !.more = TRUE]]
          BY <2>1, <4>1, <4>3 DEF FollowUpPoll
        <5>2. \A q : [loc[c] EXCEPT !.pending = q, !.explicit = FALSE, !.more = TRUE].terminal
                       = loc[c].terminal
          BY <4>1 DEF Local
        <5>3. QED
          BY <1>1, <4>1, <5>1, <5>2
      <4>4. QED
        BY <1>11, <4>2, <4>3
    <3>3. QED
      BY <1>6, <3>1, <3>2
  <2>2. QED
    BY <1>3, <2>1
<1>12. QED
  BY <1>8, <1>9, <1>10, <1>11

(* The opening of a run. *)
LEMMA PhaseOpen ==
  ASSUME TypeOK, SingleRun, ProtocolInv, NEW c \in Callers, SetFlags(c) \/ Launch(c)
  PROVE  ProtocolInv'
<1>1. PhaseAt(c) /\ obs # "broken" /\ (obs = "cut" => "fail" \in HookPowers)
  BY DEF ProtocolInv, RunPhases, EventProtocol
<1>2. Moves(c)
  <2>1. ~Release(c) /\ ~NotifyWaiters(c)
    BY DEF SetFlags, Launch, Release, NotifyWaiters
  <2>2. QED
    BY <2>1, LoopMoves DEF LoopStep
<1>3. CASE SetFlags(c)
  <2>1. /\ pc[c] = "flags" /\ pc'[c] = "launch" /\ UNCHANGED <<obs, loc>>
    BY <1>3 DEF SetFlags, Goto, TypeOK
  <2>2. PhaseAt(c)'
    BY <1>1, <2>1 DEF PhaseAt, InTurn, BetweenTurns
  <2>3. QED
    BY <1>1, <1>2, <2>1, <2>2, PhaseStep
<1>4. CASE Launch(c)
  <2>1. ~(loc[c].mode = "continue"
            /\ (agent.messages = <<>> \/ TailIsAssistant(agent.messages)))
    BY <1>1, <1>4 DEF PhaseAt, Launch
  <2>2. obs \in {"idle", "cut"}
    BY <1>1, <1>4 DEF PhaseAt, Launch
  <2>3. Observe(Observe(obs, "agent_start"), "turn_start") = "turn"
    BY <2>2 DEF Observe
  <2>4. obs' = "turn" /\ pc'[c] = "poll"
    BY <1>4, <2>1, <2>3, PairsInTurn DEF Launch, Goto, TypeOK
  <2>5. PhaseAt(c)'
    BY <2>4 DEF PhaseAt, InTurn, BetweenTurns
  <2>6. QED
    BY <1>2, <2>4, <2>5, PhaseStep
<1>5. QED
  BY <1>3, <1>4

(* The steps of an open turn. *)
LEMMA PhaseTurn ==
  ASSUME TypeOK, SingleRun, ProtocolInv, NEW c \in Callers,
         \/ FirstPoll(c) \/ Inject(c) \/ Request(c) \/ Terminal(c)
         \/ \E decision \in {"none", "continue", "end"} : FinishTurn(c, decision)
         \/ \E terminate \in BOOLEAN : Tools(c, terminate)
  PROVE  ProtocolInv'
<1>1. /\ pc[c] \in InTurn /\ obs = "turn"
      /\ pc[c] \in {"terminal", "tools", "finish"} => loc[c].terminal
      /\ loc \in [Callers -> Local] /\ loc[c] \in Local
  BY DEF FirstPoll, Inject, Request, Terminal, FinishTurn, Tools, ProtocolInv, RunPhases,
     PhaseAt, InTurn, TypeOK
<1>2. Moves(c)
  <2>1. ~Release(c) /\ ~NotifyWaiters(c)
    BY <1>1 DEF Release, NotifyWaiters, InTurn
  <2>2. QED
    BY <2>1, LoopMoves DEF LoopStep, OutsideStep
<1>3. CASE HookFails(c)
  <2>1. obs' = "turn" /\ pc'[c] = "failed" /\ "fail" \in HookPowers
    BY <1>1, <1>3 DEF HookFails, Goto, TypeOK
  <2>2. PhaseAt(c)'
    BY <2>1 DEF PhaseAt, InTurn, BetweenTurns
  <2>3. QED
    BY <1>2, <2>1, <2>2, PhaseStep
<1>4. ASSUME pc'[c] \in {"inject", "request"}, obs' = "turn" PROVE ProtocolInv'
  BY <1>2, <1>4, PhaseStep DEF PhaseAt, InTurn, BetweenTurns
<1>5. CASE FirstPoll(c)
  BY <1>1, <1>4, <1>5 DEF FirstPoll, PollSteering, Goto, TypeOK
<1>6. CASE Inject(c)
  BY <1>1, <1>4, <1>6, PairsInTurn DEF Inject, Goto, TypeOK
<1>7. CASE Request(c)
  <2>1. CASE ~HookFails(c)
    <3>1. pc'[c] = "stream" /\ obs' = "turn"
      BY <1>1, <1>7, <2>1 DEF Request, Goto, TypeOK
    <3>2. \E l \in Local :
            loc' = [loc EXCEPT ![c] = [l EXCEPT !.added = FALSE, !.promised = FALSE]]
      <4>1. \A kept \in BOOLEAN : (IF kept THEN loc[c] ELSE Replaced(loc[c])) \in Local
        BY <1>1, ReplacedType
      <4>2. QED
        BY <1>1, <1>7, <2>1, <4>1 DEF Request
    <3>3. \A l \in Local : ~[l EXCEPT !.added = FALSE, !.promised = FALSE].added
      BY DEF Local
    <3>4. ~loc'[c].added
      BY <1>1, <3>2, <3>3
    <3>5. PhaseAt(c)'
      BY <3>1, <3>4 DEF PhaseAt, InTurn, BetweenTurns
    <3>6. QED
      BY <1>2, <3>1, <3>5, PhaseStep
  <2>2. QED
    BY <1>3, <2>1
<1>8. ASSUME pc'[c] = "ended", obs' = "idle" PROVE ProtocolInv'
  BY <1>2, <1>8, PhaseStep DEF PhaseAt, InTurn, BetweenTurns
<1>9. Observe("turn", "turn_end") = "agent" /\ Observe("agent", "agent_end") = "idle"
  BY DEF Observe
<1>10. CASE Terminal(c)
  BY <1>1, <1>3, <1>8, <1>9, <1>10 DEF Terminal, Goto, TypeOK
<1>11. ASSUME NEW decision \in {"none", "continue", "end"}, FinishTurn(c, decision)
       PROVE  ProtocolInv'
  <2>1. CASE ~HookFails(c) /\ (decision = "end" \/ cancelled[c])
    BY <1>1, <1>8, <1>9, <1>11, <2>1 DEF FinishTurn, Goto, TypeOK
  <2>2. CASE ~HookFails(c) /\ ~(decision = "end" \/ cancelled[c])
    <3>1. pc[c] = "finish" /\ pc'[c] = "steer" /\ obs' = "agent"
      BY <1>1, <1>9, <1>11, <2>2 DEF FinishTurn, Goto, TypeOK
    <3>2. \E b : loc' = [loc EXCEPT ![c] = [loc[c] EXCEPT !.explicit = b, !.promised = b]]
      BY <1>1, <1>11, <2>2 DEF FinishTurn
    <3>3. \A b : [loc[c] EXCEPT !.explicit = b, !.promised = b].terminal = loc[c].terminal
      BY <1>1 DEF Local
    <3>4. loc'[c].terminal
      BY <1>1, <3>1, <3>2, <3>3
    <3>5. PhaseAt(c)'
      BY <3>1, <3>4 DEF PhaseAt, InTurn, BetweenTurns
    <3>6. QED
      BY <1>2, <3>1, <3>5, PhaseStep
  <2>3. QED
    BY <1>3, <2>1, <2>2
<1>12. ASSUME NEW terminate \in BOOLEAN, Tools(c, terminate) PROVE ProtocolInv'
  <2>1. pc[c] = "tools" /\ pc'[c] = "finish" /\ obs' = "turn"
    BY <1>1, <1>12, PairsInTurn DEF Tools, Goto, TypeOK
  <2> DEFINE entries == <<ToolResults>>
             tracked == Tracked(loc[c], entries)
             joined == Appended(tracked, entries)
  <2>2. entries \in Seq(Entry)
    BY EntryTypes
  <2>3. tracked \in Local /\ joined \in Local
    BY <1>1, <2>2, TrackedType, AppendedType
  <2>4. loc' = [loc EXCEPT ![c] = [joined EXCEPT !.more = ~terminate]]
    BY <1>1, <1>12 DEF Tools
  <2>5. tracked.terminal
    BY <1>1, <2>1 DEF Tracked, Local
  <2> HIDE DEF tracked, entries
  <2>6. joined.terminal
    BY <2>3, <2>5 DEF Appended, Local
  <2> HIDE DEF joined
  <2>7. loc'[c].terminal
    BY <1>1, <2>3, <2>4, <2>6 DEF Local
  <2>8. PhaseAt(c)'
    BY <2>1, <2>7 DEF PhaseAt, InTurn, BetweenTurns
  <2>9. QED
    BY <1>2, <2>1, <2>8, PhaseStep
<1>13. QED
  BY <1>5, <1>6, <1>7, <1>10, <1>11, <1>12

(* The stream, and the Err branch of finish_run. *)
LEMMA PhaseStream ==
  ASSUME TypeOK, SingleRun, ProtocolInv, NEW c \in Callers,
         \/ StreamStart(c) \/ Fail(c)
         \/ \E stop \in Outcomes(c), calls \in BOOLEAN : Finalize(c, stop, calls)
  PROVE  ProtocolInv'
<1>1. PhaseAt(c) /\ loc \in [Callers -> Local] /\ loc[c] \in Local
  BY DEF ProtocolInv, RunPhases, TypeOK
<1>2. Moves(c)
  <2>1. ~Release(c) /\ ~NotifyWaiters(c)
    BY DEF StreamStart, Fail, Finalize, Release, NotifyWaiters
  <2>2. QED
    BY <2>1, LoopMoves DEF LoopStep, OutsideStep
<1>3. CASE StreamStart(c)
  <2>1. obs' = "message" /\ pc[c] = "stream" /\ pc'[c] = "stream"
    BY <1>1, <1>3 DEF StreamStart, PhaseAt, Observe
  <2>2. loc' = [loc EXCEPT ![c] = [loc[c] EXCEPT !.added = TRUE,
                                     !.ctx = Append(loc[c].ctx, Assistant("done"))]]
    BY <1>1, <1>3 DEF StreamStart
  <2>3. \A s : [loc[c] EXCEPT !.added = TRUE, !.ctx = s].added
    BY <1>1 DEF Local
  <2>4. loc'[c].added
    BY <1>1, <2>2, <2>3
  <2>5. PhaseAt(c)'
    BY <2>1, <2>4 DEF PhaseAt, InTurn, BetweenTurns
  <2>6. QED
    BY <1>2, <2>1, <2>5, PhaseStep
<1>4. ASSUME NEW stop \in Outcomes(c), NEW calls \in BOOLEAN, Finalize(c, stop, calls)
      PROVE  ProtocolInv'
  <2> DEFINE final == Assistant(stop)
             tracked == Tracked(loc[c], <<final>>)
             done == [tracked EXCEPT !.ctx = Finalized(loc[c], final),
                        !.new = Append(loc[c].new, final), !.added = FALSE, !.stop = stop,
                        !.turns = loc[c].turns + 1, !.more = FALSE]
  <2>1. pc'[c] \in {"terminal", "tools", "finish"}
    BY <1>4 DEF Finalize, Goto, TypeOK
  <2>2. obs' = "turn"
    <3>1. obs = IF loc[c].added THEN "message" ELSE "turn"
      BY <1>1, <1>4 DEF Finalize, PhaseAt
    <3>2. QED
      BY <1>4, <3>1 DEF Finalize, Observe
  <2>3. <<final>> \in Seq(Entry)
    BY <1>4, FinalType DEF Outcomes, Stops
  <2>4. tracked \in Local
    BY <1>1, <2>3, TrackedType
  <2>5. tracked.terminal
    <3>1. TailIsAssistant(<<final>>)
      BY DEF TailIsAssistant, Assistant
    <3>2. QED
      BY <1>1, <3>1 DEF Tracked, Local
  <2>6. loc' = [loc EXCEPT ![c] = done]
    BY <1>1, <1>4 DEF Finalize
  <2> HIDE DEF final, tracked
  <2>7. done.terminal
    BY <2>4, <2>5 DEF Local
  <2>8. loc'[c].terminal
    BY <1>1, <2>6, <2>7
  <2>9. PhaseAt(c)'
    BY <2>1, <2>2, <2>8 DEF PhaseAt, InTurn, BetweenTurns
  <2>10. QED
    BY <1>2, <2>2, <2>9, PhaseStep
<1>5. CASE Fail(c)
  <2>1. pc'[c] = "ended"
    BY <1>5 DEF Fail, Goto, TypeOK
  <2>2. /\ "fail" \in HookPowers
        /\ obs = "turn" \/ (obs = "agent" /\ loc[c].terminal)
    BY <1>1, <1>5 DEF Fail, PhaseAt
  <2>3. obs' \in {"idle", "cut"}
    <3>1. CASE loc[c].terminal
      <4>1. obs' = Observe(obs, "agent_end")
        BY <1>5, <3>1 DEF Fail
      <4>2. QED
        BY <2>2, <4>1 DEF Observe
    <3>2. CASE ~loc[c].terminal
      <4>1. \E final : obs' = Observe(Observe(ObservePairs(obs, <<final>>), "turn_end"),
                                      "agent_end")
        BY <1>5, <3>2 DEF Fail
      <4>2. obs = "turn"
        BY <2>2, <3>2
      <4>3. QED
        BY <4>1, <4>2, PairsInTurn DEF Observe
    <3>3. QED
      BY <3>1, <3>2
  <2>4. PhaseAt(c)'
    BY <2>1, <2>3 DEF PhaseAt, InTurn, BetweenTurns
  <2>5. QED
    BY <1>2, <2>2, <2>3, <2>4, PhaseStep
<1>6. QED
  BY <1>3, <1>4, <1>5

(* The callers' operations: those that touch the transcript of an idle      *)
(* agent, and those that open a run.                                        *)
LEMMA PhaseCaller ==
  ASSUME TypeOK, SingleRun, ProtocolInv, Caller
  PROVE  ProtocolInv'
<1> USE AgentRunAssumption DEF runVars
<1>1. ASSUME UNCHANGED <<active, pc, loc, obs>>, active = NoCaller \/ UNCHANGED agent.messages
      PROVE  ProtocolInv'
  <2>1. EventProtocol'
    BY <1>1 DEF ProtocolInv, EventProtocol
  <2>2. ASSUME NEW c \in Callers PROVE PhaseAt(c)'
    <3>1. CASE active = NoCaller
      <4>1. pc'[c] \notin Owning /\ pc'[c] \in PCs
        BY <1>1, <3>1 DEF SingleRun, TypeOK
      <4>2. QED
        BY <4>1 DEF PhaseAt, Owning, PCs, InTurn, BetweenTurns
    <3>2. CASE UNCHANGED agent.messages
      BY <1>1, <3>2 DEF ProtocolInv, RunPhases, PhaseAt
    <3>3. QED
      BY <1>1, <3>1, <3>2
  <2>3. QED
    BY <2>1, <2>2 DEF ProtocolInv, RunPhases
<1>2. ASSUME NEW m \in Msgs, Steer(m) \/ FollowUp(m) \/ PushMessage(m) PROVE ProtocolInv'
  BY <1>1, <1>2 DEF Steer, FollowUp, PushMessage
<1>3. ASSUME NEW mode \in QueueModes, SetSteeringMode(mode) \/ SetFollowUpMode(mode)
      PROVE  ProtocolInv'
  BY <1>1, <1>3 DEF SetSteeringMode, SetFollowUpMode
<1>4. CASE \/ ClearQueues \/ Abort \/ Reset
           \/ PopLastIfAssistant \/ ReplaceLastAssistant \/ ReplaceMessages
  BY <1>1, <1>4 DEF ClearQueues, Abort, Reset, NoActiveRun, PopLastIfAssistant,
     ReplaceLastAssistant, ReplaceMessages
<1>5. ASSUME NEW c \in Callers, Acquire(c), Goto(c, "flags") \/ Goto(c, "launch"),
             UNCHANGED obs, PhaseAt(c)'
      PROVE  ProtocolInv'
  <2>1. active = NoCaller /\ active' = c /\ obs \in {"idle", "cut"}
    BY <1>5 DEF Acquire, NoActiveRun, ProtocolInv, EventProtocol
  <2>2. EventProtocol'
    BY <1>5, <2>1 DEF ProtocolInv, EventProtocol
  <2>3. ASSUME NEW d \in Callers, d # c PROVE PhaseAt(d)'
    <3>1. pc'[d] = pc[d] /\ pc[d] \notin Owning /\ pc[d] \in PCs
      BY <1>5, <2>1, <2>3 DEF Goto, SingleRun, TypeOK
    <3>2. QED
      BY <3>1 DEF PhaseAt, Owning, PCs, InTurn, BetweenTurns
  <2>4. QED
    BY <1>5, <2>2, <2>3 DEF ProtocolInv, RunPhases
<1>6. ASSUME NEW c \in Callers, ContinueRun(c) PROVE ProtocolInv'
  <2>1. pc'[c] = "launch" /\ UNCHANGED obs /\ Acquire(c) /\ Goto(c, "launch")
    BY <1>6 DEF ContinueRun, Goto, TypeOK
  <2>2. obs \in {"idle", "cut"}
    BY <2>1 DEF Acquire, NoActiveRun, ProtocolInv, EventProtocol
  <2>3. agent'.messages = agent.messages /\ agent.messages # <<>>
    BY <1>6 DEF ContinueRun, Flagged, TypeOK
  <2>4. loc'[c].mode = "continue" => ~TailIsAssistant(agent.messages)
    <3>1. \A q : /\ [NoRun EXCEPT !.prompts = q].mode = "prompt"
                 /\ [NoRun EXCEPT !.prompts = q, !.skip = TRUE].mode = "prompt"
      BY DEF NoRun
    <3>2. TailIsAssistant(agent.messages) =>
            \/ loc'[c] = [NoRun EXCEPT !.prompts = Drained(steering, steeringMode),
                                       !.skip = TRUE]
            \/ loc'[c] = [NoRun EXCEPT !.prompts = Drained(followUp, followUpMode)]
      <4>1. loc \in [Callers -> Local]
        BY DEF TypeOK
      <4>2. QED
        BY <1>6, <4>1 DEF ContinueRun
    <3>3. QED
      BY <3>1, <3>2
  <2>5. PhaseAt(c)'
    BY <2>1, <2>2, <2>3, <2>4 DEF PhaseAt, InTurn, BetweenTurns, TailIsAssistant
  <2>6. QED
    BY <1>5, <2>1, <2>5
<1>7. ASSUME NEW c \in Callers, NEW m \in Msgs, Prompt(c, m) PROVE ProtocolInv'
  <2>1. pc'[c] = "flags" /\ UNCHANGED obs /\ Acquire(c) /\ Goto(c, "flags")
    BY <1>7 DEF Prompt, Goto, TypeOK
  <2>2. obs \in {"idle", "cut"}
    BY <2>1 DEF Acquire, NoActiveRun, ProtocolInv, EventProtocol
  <2>3. loc'[c].mode = "prompt"
    <3>1. [NoRun EXCEPT !.prompts = <<m>>].mode = "prompt"
      BY DEF NoRun
    <3>2. QED
      BY <1>7, <3>1 DEF Prompt, TypeOK
  <2>4. PhaseAt(c)'
    BY <2>1, <2>2, <2>3 DEF PhaseAt, InTurn, BetweenTurns
  <2>5. QED
    BY <1>5, <2>1, <2>4
<1>8. QED
  BY <1>2, <1>3, <1>4, <1>6, <1>7 DEF Caller

(* Every step preserves the invariant. *)
LEMMA ProtocolStep ==
  ASSUME TypeOK, SingleRun, ProtocolInv, [Next]_vars
  PROVE  ProtocolInv'
<1> USE AgentRunAssumption
<1>1. CASE UNCHANGED <<active, pc, loc, obs, agent>>
  BY <1>1 DEF ProtocolInv, EventProtocol, RunPhases, PhaseAt
<1>2. ASSUME NEW c \in Callers, Release(c) PROVE ProtocolInv'
  <2>1. pc[c] = "ended" /\ obs \in {"idle", "cut"} /\ UNCHANGED obs
    BY <1>2 DEF Release, ProtocolInv, RunPhases, PhaseAt
  <2>2. EventProtocol'
    BY <2>1 DEF ProtocolInv, EventProtocol
  <2>3. ASSUME NEW d \in Callers PROVE PhaseAt(d)'
    <3>1. pc'[d] \notin Owning /\ pc'[d] \in PCs
      BY <1>2, <2>1 DEF Release, Goto, SingleRun, TypeOK, Owning, PCs
    <3>2. QED
      BY <3>1 DEF PhaseAt, Owning, PCs, InTurn, BetweenTurns
  <2>4. QED
    BY <2>2, <2>3 DEF ProtocolInv, RunPhases
<1>3. ASSUME NEW c \in Callers, NotifyWaiters(c) PROVE ProtocolInv'
  <2>1. UNCHANGED <<active, loc, obs, agent>>
    BY <1>3 DEF NotifyWaiters, runVars
  <2>2. ASSUME NEW d \in Callers PROVE PhaseAt(d)'
    <3>1. pc'[d] = pc[d] \/ pc'[d] = "idle"
      BY <1>3 DEF NotifyWaiters, Goto, TypeOK
    <3>2. QED
      BY <2>1, <3>1 DEF ProtocolInv, RunPhases, PhaseAt, InTurn, BetweenTurns
  <2>3. QED
    BY <2>1, <2>2 DEF ProtocolInv, RunPhases, EventProtocol
<1>4. ASSUME NEW w \in Waiters, WaitArm(w) \/ WaitCheck(w) \/ WaitSleep(w) \/ WaitWake(w)
      PROVE  UNCHANGED <<active, pc, loc, obs, agent>>
  BY <1>4 DEF WaitArm, WaitCheck, WaitSleep, WaitWake, runVars
<1>5. CASE UNCHANGED vars
  BY <1>1, <1>5 DEF vars, runVars
<1>6. CASE Caller
  BY <1>6, PhaseCaller
<1>7. ASSUME NEW c \in Callers, LoopStep(c) \/ OutsideStep(c) PROVE ProtocolInv'
  BY <1>2, <1>3, <1>7, PhaseOpen, PhaseTurn, PhaseBetween, PhaseStream
     DEF LoopStep, OutsideStep
<1>8. QED
  BY <1>1, <1>4, <1>5, <1>6, <1>7 DEF Next

(* A subscriber sees well nested agent, turn and message brackets of every *)
(* run, whatever the hooks, the provider, the tools and the other callers  *)
(* do, and only a hook error closes a run inside a turn.                   *)
THEOREM EventProtocolHolds == Spec => []EventProtocol
<1>1. Init => ProtocolInv
  BY DEF Init, ProtocolInv, EventProtocol, RunPhases, PhaseAt, InTurn, BetweenTurns
<1>2. ProtocolInv => EventProtocol
  BY DEF ProtocolInv
<1>3. QED
  BY <1>1, <1>2, ProtocolStep, TypeCorrect, SingleRunHolds, PTL DEF Spec

-----------------------------------------------------------------------------
(* The transcript theorems: the messages_after contract of run_agent_loop and the *)
(* refinement of AgentContract.                                                   *)

(* A step of c's run appends the same entries to the transcript, to what   *)
(* the sink tracked and to the loop's delta; the snapshot stays.           *)
JoinsWith(c, entries) ==
  /\ agent'.messages = agent.messages \o entries
  /\ loc'[c].base = loc[c].base
  /\ loc'[c].tracked = loc[c].tracked \o entries
  /\ loc'[c].new = loc[c].new \o entries

Joins(c) == \E entries \in Seq(Entry) : JoinsWith(c, entries)

(* The three parts of the run's locals that grow together. *)
SameRecord(l, k) == l.base = k.base /\ l.tracked = k.tracked /\ l.new = k.new

(* A step that touches neither joins nothing. *)
LEMMA QuietJoins ==
  ASSUME TypeOK, NEW c \in Callers, agent'.messages = agent.messages,
         SameRecord(loc'[c], loc[c])
  PROVE  Joins(c)
<1>1. /\ <<>> \in Seq(Entry) /\ agent.messages \in Seq(Entry)
      /\ loc[c].tracked \in Seq(Entry) /\ loc[c].new \in Seq(Entry)
  BY EmptySeq DEF TypeOK, Local
<1>2. /\ agent.messages \o <<>> = agent.messages
      /\ loc[c].tracked \o <<>> = loc[c].tracked
      /\ loc[c].new \o <<>> = loc[c].new
  BY <1>1, ConcatEmptySeq
<1>3. QED
  BY <1>1, <1>2 DEF Joins, JoinsWith, SameRecord

(* Published, Tracked and Appended grow the three together. *)
LEMMA JoinFields ==
  ASSUME TypeOK, NEW l \in Local, NEW entries \in Seq(Entry)
  PROVE  LET joined == Appended(Tracked(l, entries), entries) IN
         /\ Published(agent, entries).messages = agent.messages \o entries
         /\ joined.base = l.base
         /\ joined.tracked = l.tracked \o entries
         /\ joined.new = l.new \o entries
<1> DEFINE tracked == Tracked(l, entries)
<1>1. Published(agent, entries).messages = agent.messages \o entries
  BY DEF Published, TypeOK
<1>2. tracked \in Local
  BY TrackedType
<1>3. tracked.base = l.base /\ tracked.tracked = l.tracked \o entries /\ tracked.new = l.new
  BY DEF Tracked, Local
<1> HIDE DEF tracked
<1>4. /\ Appended(tracked, entries).base = tracked.base
      /\ Appended(tracked, entries).tracked = tracked.tracked
      /\ Appended(tracked, entries).new = tracked.new \o entries
  BY <1>2 DEF Appended, Local
<1>5. QED
  BY <1>1, <1>3, <1>4 DEF tracked

(* Steps between turns and in a turn, other than the first and the last. *)
LEMMA QuietSteps ==
  ASSUME TypeOK, NEW c \in Callers,
         \/ FirstPoll(c) \/ Prepare(c) \/ SteerPoll(c) \/ Steered(c) \/ FollowUpPoll(c)
         \/ Request(c) \/ Terminal(c) \/ StreamStart(c)
         \/ \E decision \in {"none", "continue", "end"} : FinishTurn(c, decision)
         \/ \E next : PollSteering(c, next)
         \/ End(c) \/ HookFails(c)
  PROVE  Joins(c)
<1>1. /\ loc \in [Callers -> Local] /\ loc[c] \in Local /\ agent \in AgentType
      /\ Replaced(loc[c]) \in Local
  BY ReplacedType DEF TypeOK, AgentType
<1>2. SameRecord(loc[c], loc[c]) /\ SameRecord(Replaced(loc[c]), loc[c])
  BY <1>1 DEF SameRecord, Replaced, Local
<1>3. CASE End(c) \/ HookFails(c)
  <2>1. agent'.messages = agent.messages /\ loc' = loc
    BY <1>1, <1>3 DEF End, HookFails, AgentType
  <2>2. QED
    BY <1>2, <2>1, QuietJoins
<1>4. ASSUME NEW next, PollSteering(c, next) PROVE Joins(c)
  <2>1. \E q : loc' = [loc EXCEPT ![c] = [loc[c] EXCEPT !.pending = q, !.skip = FALSE]]
    BY <1>1, <1>4 DEF PollSteering
  <2>2. \A q : SameRecord([loc[c] EXCEPT !.pending = q, !.skip = FALSE], loc[c])
    BY <1>1 DEF SameRecord, Local
  <2>3. SameRecord(loc'[c], loc[c]) /\ UNCHANGED agent
    BY <1>1, <1>4, <2>1, <2>2 DEF PollSteering
  <2>4. QED
    BY <2>3, QuietJoins
<1>5. CASE FirstPoll(c) \/ SteerPoll(c)
  BY <1>4, <1>5 DEF FirstPoll, SteerPoll
<1>6. CASE Prepare(c)
  <2>1. CASE ~End(c) /\ ~HookFails(c)
    <3>1. \E l \in {loc[c], Replaced(loc[c])} : \E injected :
            loc' = [loc EXCEPT ![c] = [l EXCEPT !.prepared = injected]]
      BY <1>6, <2>1 DEF Prepare
    <3>2. \A l \in Local : \A q : SameRecord([l EXCEPT !.prepared = q], l)
      BY DEF SameRecord, Local
    <3>3. \E l \in {loc[c], Replaced(loc[c])} : SameRecord(loc'[c], l)
      BY <1>1, <3>1, <3>2
    <3>4. SameRecord(loc'[c], loc[c]) /\ UNCHANGED agent
      BY <1>2, <1>6, <2>1, <3>3 DEF SameRecord, Prepare
    <3>5. QED
      BY <3>4, QuietJoins
  <2>2. QED
    BY <1>3, <2>1
<1>7. CASE Steered(c)
  <2>1. CASE ~End(c)
    <3>1. \E b : loc' = [loc EXCEPT ![c] = [loc[c] EXCEPT !.explicit = b]]
      BY <1>1, <1>7, <2>1 DEF Steered
    <3>2. \A b : SameRecord([loc[c] EXCEPT !.explicit = b], loc[c])
      BY <1>1 DEF SameRecord, Local
    <3>3. SameRecord(loc'[c], loc[c]) /\ UNCHANGED agent
      BY <1>1, <1>7, <2>1, <3>1, <3>2 DEF Steered
    <3>4. QED
      BY <3>3, QuietJoins
  <2>2. QED
    BY <1>3, <2>1
<1>8. CASE FollowUpPoll(c)
  <2>1. CASE ~End(c)
    <3>1. \E q : loc' = [loc EXCEPT ![c] = [loc[c] EXCEPT !.pending = q, !.explicit = FALSE,
                                                          !.more = TRUE]]
      BY <1>1, <1>8, <2>1 DEF FollowUpPoll
    <3>2. \A q : SameRecord([loc[c] EXCEPT !.pending = q, !.explicit = FALSE, !.more = TRUE],
                            loc[c])
      BY <1>1 DEF SameRecord, Local
    <3>3. SameRecord(loc'[c], loc[c]) /\ UNCHANGED agent
      BY <1>1, <1>8, <2>1, <3>1, <3>2, ZenonT(60) DEF FollowUpPoll
    <3>4. QED
      BY <3>3, QuietJoins
  <2>2. QED
    BY <1>3, <2>1
<1>9. CASE Request(c)
  <2>1. CASE ~HookFails(c)
    <3>1. \E l \in {loc[c], Replaced(loc[c])} :
            loc' = [loc EXCEPT ![c] = [l EXCEPT !.added = FALSE, !.promised = FALSE]]
      BY <1>1, <1>9, <2>1 DEF Request
    <3>2. \A l \in Local : SameRecord([l EXCEPT !.added = FALSE, !.promised = FALSE], l)
      BY DEF SameRecord, Local
    <3>3. \E l \in {loc[c], Replaced(loc[c])} : SameRecord(loc'[c], l)
      BY <1>1, <3>1, <3>2
    <3>4. SameRecord(loc'[c], loc[c]) /\ UNCHANGED agent
      BY <1>2, <1>9, <2>1, <3>3 DEF SameRecord, Request
    <3>5. QED
      BY <3>4, QuietJoins
  <2>2. QED
    BY <1>3, <2>1
<1>10. CASE Terminal(c)
  <2>1. agent'.messages = agent.messages /\ loc' = loc
    BY <1>1, <1>10 DEF Terminal, HookFails, AgentType
  <2>2. QED
    BY <1>2, <2>1, QuietJoins
<1>11. CASE StreamStart(c)
  <2>1. \E s : loc' = [loc EXCEPT ![c] = [loc[c] EXCEPT !.added = TRUE, !.ctx = s]]
    BY <1>1, <1>11 DEF StreamStart
  <2>2. \A s : SameRecord([loc[c] EXCEPT !.added = TRUE, !.ctx = s], loc[c])
    BY <1>1 DEF SameRecord, Local
  <2>3. SameRecord(loc'[c], loc[c])
    BY <1>1, <2>1, <2>2
  <2>4. agent'.messages = agent.messages
    BY <1>1, <1>11 DEF StreamStart, AgentType
  <2>5. QED
    BY <2>3, <2>4, QuietJoins
<1>12. ASSUME NEW decision \in {"none", "continue", "end"}, FinishTurn(c, decision)
       PROVE  Joins(c)
  <2>1. CASE ~HookFails(c)
    <3>1. loc' = [loc EXCEPT ![c] = [loc[c] EXCEPT !.explicit = (decision = "continue"),
                                                  !.promised = (decision = "continue")]]
      BY <1>1, <1>12, <2>1 DEF FinishTurn
    <3>2. \A b : SameRecord([loc[c] EXCEPT !.explicit = b, !.promised = b], loc[c])
      BY <1>1 DEF SameRecord, Local
    <3>3. SameRecord(loc'[c], loc[c])
      BY <1>1, <3>1, <3>2
    <3>4. UNCHANGED agent
      BY <1>12, <2>1 DEF FinishTurn
    <3>5. QED
      BY <3>3, <3>4, QuietJoins
  <2>2. QED
    BY <1>3, <2>1
<1>13. QED
  BY <1>3, <1>4, <1>5, <1>6, <1>7, <1>8, <1>9, <1>10, <1>11, <1>12

(* Steps that publish messages. *)
LEMMA JoinSteps ==
  ASSUME TypeOK, NEW c \in Callers,
         \/ Inject(c) \/ OpenTurn(c)
         \/ \E stop \in Outcomes(c), calls \in BOOLEAN : Finalize(c, stop, calls)
         \/ \E terminate \in BOOLEAN : Tools(c, terminate)
  PROVE  Joins(c)
<1>1. /\ loc \in [Callers -> Local] /\ loc[c] \in Local
      /\ loc[c].pending \in Seq(Msgs) /\ loc[c].prepared \in Seq(Msgs)
  BY DEF TypeOK, Local
<1>2. ASSUME NEW entries \in Seq(Entry), agent' = Published(agent, entries),
             SameRecord(loc'[c], Appended(Tracked(loc[c], entries), entries))
      PROVE  Joins(c)
  BY <1>1, <1>2, JoinFields DEF Joins, JoinsWith, SameRecord
<1>3. CASE Inject(c)
  <2> DEFINE entries == Users(loc[c].pending)
             joined == Appended(Tracked(loc[c], entries), entries)
  <2>1. entries \in Seq(Entry)
    BY <1>1, UsersType
  <2>2. joined \in Local
    BY <1>1, <2>1, JoinType
  <2>3. loc'[c] = [joined EXCEPT !.pending = <<>>] /\ agent' = Published(agent, entries)
    BY <1>1, <1>3 DEF Inject
  <2> HIDE DEF joined, entries
  <2>4. SameRecord(loc'[c], joined)
    BY <2>2, <2>3 DEF SameRecord, Local
  <2>5. QED
    BY <1>2, <2>1, <2>3, <2>4 DEF joined
<1>4. CASE OpenTurn(c)
  <2> DEFINE entries == Users(loc[c].prepared \o loc[c].pending)
             joined == Appended(Tracked(loc[c], entries), entries)
  <2>1. entries \in Seq(Entry)
    BY <1>1, UsersType, ConcatProperties
  <2>2. joined \in Local
    BY <1>1, <2>1, JoinType
  <2>3. /\ loc'[c] = [joined EXCEPT !.pending = <<>>, !.prepared = <<>>]
        /\ agent' = Published(agent, entries)
    BY <1>1, <1>4 DEF OpenTurn
  <2> HIDE DEF joined, entries
  <2>4. SameRecord(loc'[c], joined)
    BY <2>2, <2>3 DEF SameRecord, Local
  <2>5. QED
    BY <1>2, <2>1, <2>3, <2>4 DEF joined
<1>5. ASSUME NEW terminate \in BOOLEAN, Tools(c, terminate) PROVE Joins(c)
  <2> DEFINE entries == <<ToolResults>>
             joined == Appended(Tracked(loc[c], entries), entries)
  <2>1. entries \in Seq(Entry)
    BY EntryTypes
  <2>2. joined \in Local
    BY <1>1, <2>1, JoinType
  <2>3. loc'[c] = [joined EXCEPT !.more = ~terminate] /\ agent' = Published(agent, entries)
    BY <1>1, <1>5 DEF Tools
  <2> HIDE DEF joined, entries
  <2>4. SameRecord(loc'[c], joined)
    BY <2>2, <2>3 DEF SameRecord, Local
  <2>5. QED
    BY <1>2, <2>1, <2>3, <2>4 DEF joined
<1>6. ASSUME NEW stop \in Outcomes(c), NEW calls \in BOOLEAN, Finalize(c, stop, calls)
      PROVE  Joins(c)
  <2> DEFINE final == Assistant(stop)
             tracked == Tracked(loc[c], <<final>>)
             done == [tracked EXCEPT !.ctx = Finalized(loc[c], final),
                        !.new = Append(loc[c].new, final), !.added = FALSE, !.stop = stop,
                        !.turns = loc[c].turns + 1, !.more = FALSE]
  <2>1. final \in Entry /\ <<final>> \in Seq(Entry)
    BY <1>6, FinalType DEF Outcomes, Stops
  <2>2. tracked \in Local
    BY <1>1, <2>1, TrackedType
  <2>3. tracked.base = loc[c].base /\ tracked.tracked = loc[c].tracked \o <<final>>
    BY <1>1 DEF Tracked, Local
  <2>4. loc'[c] = done /\ agent' = Published(agent, <<final>>)
    BY <1>1, <1>6 DEF Finalize
  <2>5. Append(loc[c].new, final) = loc[c].new \o <<final>>
    BY <1>1, <2>1, AppendIsConcat DEF Local
  <2>6. agent'.messages = agent.messages \o <<final>>
    BY <2>4 DEF Published, TypeOK
  <2> HIDE DEF final, tracked
  <2>7. /\ done.base = tracked.base /\ done.tracked = tracked.tracked
        /\ done.new = Append(loc[c].new, final)
    BY <2>2 DEF Local
  <2>8. JoinsWith(c, <<final>>)
    BY <2>3, <2>4, <2>5, <2>6, <2>7 DEF JoinsWith
  <2>9. QED
    BY <2>1, <2>8 DEF Joins
<1>7. QED
  BY <1>3, <1>4, <1>5, <1>6

(* The first step of a run takes the snapshot the run then extends. *)
LEMMA LaunchJoins ==
  ASSUME TypeOK, NEW c \in Callers, Launch(c)
  PROVE  \E entries \in Seq(Entry) :
           /\ agent'.messages = agent.messages \o entries
           /\ loc'[c].base = agent.messages
           /\ loc'[c].tracked = loc[c].tracked \o entries
           /\ loc'[c].new = loc[c].new \o entries
<1> DEFINE base == agent.messages
           prompts == Users(loc[c].prompts)
           opened == [loc[c] EXCEPT !.prompts = <<>>, !.base = base, !.seed = base, !.ctx = base]
<1>1. /\ loc \in [Callers -> Local] /\ loc[c] \in Local /\ base \in Seq(Entry)
      /\ loc[c].prompts \in Seq(Msgs) /\ <<>> \in Seq(Msgs) /\ <<>> \in Seq(Entry)
      /\ loc[c].tracked \in Seq(Entry) /\ loc[c].new \in Seq(Entry)
  BY EmptySeq DEF TypeOK, Local
<1>2. opened \in Local
  BY <1>1 DEF Local
<1>3. prompts \in Seq(Entry)
  BY <1>1, UsersType
<1>4. opened.base = base /\ opened.tracked = loc[c].tracked /\ opened.new = loc[c].new
  BY <1>1 DEF Local
<1>5. \/ loc'[c] = opened /\ UNCHANGED agent
      \/ /\ loc'[c] = Appended(Tracked(opened, prompts), prompts)
         /\ agent' = Published(agent, prompts)
  BY <1>1 DEF Launch
<1> HIDE DEF opened, prompts
<1>6. CASE loc'[c] = opened /\ UNCHANGED agent
  <2>1. /\ base \o <<>> = base /\ loc[c].tracked \o <<>> = loc[c].tracked
        /\ loc[c].new \o <<>> = loc[c].new
    BY <1>1, ConcatEmptySeq
  <2>2. QED
    BY <1>1, <1>4, <1>6, <2>1
<1>7. CASE /\ loc'[c] = Appended(Tracked(opened, prompts), prompts)
           /\ agent' = Published(agent, prompts)
  BY <1>2, <1>3, <1>4, <1>7, JoinFields
<1>8. QED
  BY <1>5, <1>6, <1>7

(* The Err branch appends at most the synthesized assistant message. *)
LEMMA FailJoins ==
  ASSUME TypeOK, NEW c \in Callers, Fail(c)
  PROVE  \E entries \in Seq(Entry) :
           /\ agent'.messages = agent.messages \o entries
           /\ loc'[c].base = loc[c].base
           /\ loc'[c].tracked = loc[c].tracked \o entries
<1> DEFINE final == Assistant(IF cancelled[c] THEN "aborted" ELSE "error")
<1>1. /\ loc \in [Callers -> Local] /\ loc[c] \in Local
      /\ agent.messages \in Seq(Entry) /\ loc[c].tracked \in Seq(Entry)
  BY DEF TypeOK, Local
<1>2. final \in Entry /\ <<final>> \in Seq(Entry) /\ <<>> \in Seq(Entry)
  BY FinalType, EmptySeq DEF Stops
<1>3. CASE loc[c].terminal
  <2>1. agent'.messages = agent.messages /\ UNCHANGED loc
    BY <1>3 DEF Fail, TypeOK
  <2>2. agent.messages \o <<>> = agent.messages /\ loc[c].tracked \o <<>> = loc[c].tracked
    BY <1>1, ConcatEmptySeq
  <2>3. QED
    BY <1>2, <2>1, <2>2
<1>4. CASE ~loc[c].terminal
  <2> DEFINE published == Published(agent, <<final>>)
  <2>1. published \in AgentType /\ published.messages = agent.messages \o <<final>>
    BY <1>2, PublishedType DEF Published, TypeOK, AgentType
  <2>2. /\ agent' = [published EXCEPT !.error = TRUE]
        /\ loc' = [loc EXCEPT ![c] = [loc[c] EXCEPT !.tracked = Append(loc[c].tracked, final)]]
    BY <1>1, <1>4 DEF Fail
  <2>3. Append(loc[c].tracked, final) = loc[c].tracked \o <<final>>
    BY <1>1, <1>2, AppendIsConcat
  <2> HIDE DEF published, final
  <2>4. agent'.messages = agent.messages \o <<final>>
    BY <2>1, <2>2 DEF AgentType
  <2>5. /\ loc'[c].base = loc[c].base
        /\ loc'[c].tracked = loc[c].tracked \o <<final>>
    BY <1>1, <2>2, <2>3 DEF Local
  <2>6. QED
    BY <1>2, <2>4, <2>5
<1>5. QED
  BY <1>3, <1>4

(* Concatenation of transcripts associates. *)
LEMMA EntriesAssociate ==
  ASSUME NEW s \in Seq(Entry), NEW t \in Seq(Entry), NEW u \in Seq(Entry)
  PROVE  (s \o t) \o u = s \o (t \o u)
BY ConcatAssociative

(* The positions at which run_loop works on the transcript. *)
Looping == Launched \ {"failed", "ended"}

(* Every step of the loop proper joins, from a launched position to one. *)
LEMMA LoopJoins ==
  ASSUME TypeOK, NEW c \in Callers, LoopStep(c) \/ OutsideStep(c),
         ~SetFlags(c), ~Launch(c), ~Fail(c), ~Release(c), ~NotifyWaiters(c)
  PROVE  Joins(c) /\ pc[c] \in Looping
<1>1. pc[c] \in Looping
  BY DEF LoopStep, OutsideStep, FirstPoll, Inject, Prepare, Prepared, Polled, Request,
     Terminal, FinishTurn, SteerPoll, Steered, FollowUpPoll, StreamStart, Finalize, Tools,
     Looping, Launched, Owning, PCs
<1>2. CASE Prepared(c) \/ Polled(c)
  <2>1. End(c) \/ OpenTurn(c) \/ \E next : PollSteering(c, next)
    BY <1>2 DEF Prepared, Polled
  <2>2. QED
    BY <1>1, <2>1, QuietSteps, JoinSteps
<1>3. CASE ~Prepared(c) /\ ~Polled(c)
  BY <1>1, <1>3, QuietSteps, JoinSteps DEF LoopStep, OutsideStep
<1>4. QED
  BY <1>2, <1>3

(* TranscriptContract, with the state of a run that has not launched yet. *)
TranscriptInv ==
  /\ TranscriptContract
  /\ \A c \in Callers : pc[c] \in {"flags", "launch"} =>
       loc[c].tracked = <<>> /\ loc[c].new = <<>>

(* A step of the active run answers for the active run only. *)
LEMMA TranscriptMove ==
  ASSUME TypeOK, SingleRun, NEW c \in Callers, Moves(c),
         pc'[c] \in Launched =>
           /\ agent'.messages = loc'[c].base \o loc'[c].tracked
           /\ pc'[c] # "ended" => loc'[c].new = loc'[c].tracked,
         pc'[c] \in {"flags", "launch"} => loc'[c].tracked = <<>> /\ loc'[c].new = <<>>
  PROVE  TranscriptInv'
<1>1. ASSUME NEW d \in Callers, d # c PROVE pc'[d] \notin Owning
  BY <1>1 DEF Moves, Goto, SingleRun, TypeOK
<1>2. {"flags", "launch"} \subseteq Owning /\ Launched \subseteq Owning
  BY DEF Launched, Owning, PCs
<1>3. QED
  BY <1>1, <1>2 DEF TranscriptInv, TranscriptContract

(* Every step preserves it. *)
LEMMA TranscriptStep ==
  ASSUME TypeOK, TypeOK', SingleRun, SingleRun', TranscriptInv, [Next]_vars
  PROVE  TranscriptInv'
<1> USE AgentRunAssumption
<1>1. CASE UNCHANGED <<pc, loc>> /\ (agent'.messages = agent.messages \/ active = NoCaller)
  <2>1. CASE active = NoCaller
    <3>1. \A c \in Callers : pc'[c] \notin Owning
      BY <1>1, <2>1 DEF SingleRun
    <3>2. QED
      BY <3>1 DEF TranscriptInv, TranscriptContract, Launched, Owning, PCs
  <2>2. CASE agent'.messages = agent.messages
    BY <1>1, <2>2 DEF TranscriptInv, TranscriptContract
  <2>3. QED
    BY <1>1, <2>1, <2>2
<1>2. ASSUME NEW c \in Callers, Acquire(c), pc'[c] \in {"flags", "launch"},
             loc'[c].tracked = <<>>, loc'[c].new = <<>>
      PROVE  TranscriptInv'
  <2>1. \A d \in Callers : d # c => pc'[d] \notin Owning
    BY <1>2 DEF Acquire, SingleRun
  <2>2. pc'[c] \notin Launched
    BY <1>2 DEF Launched
  <2>3. QED
    BY <1>2, <2>1, <2>2 DEF TranscriptInv, TranscriptContract, Launched, Owning, PCs
<1>3. CASE Caller
  <2>1. ASSUME NEW m \in Msgs, Steer(m) \/ FollowUp(m) \/ PushMessage(m) PROVE TranscriptInv'
    BY <1>1, <2>1 DEF Steer, FollowUp, PushMessage
  <2>2. ASSUME NEW mode \in QueueModes, SetSteeringMode(mode) \/ SetFollowUpMode(mode)
        PROVE  TranscriptInv'
    BY <1>1, <2>2 DEF SetSteeringMode, SetFollowUpMode
  <2>3. CASE \/ ClearQueues \/ Abort \/ Reset
             \/ PopLastIfAssistant \/ ReplaceLastAssistant \/ ReplaceMessages
    BY <1>1, <2>3 DEF ClearQueues, Abort, Reset, NoActiveRun, PopLastIfAssistant,
       ReplaceLastAssistant, ReplaceMessages
  <2>4. /\ [NoRun EXCEPT !.mode = "continue"].tracked = <<>>
        /\ [NoRun EXCEPT !.mode = "continue"].new = <<>>
        /\ \A q : /\ [NoRun EXCEPT !.prompts = q].tracked = <<>>
                  /\ [NoRun EXCEPT !.prompts = q].new = <<>>
                  /\ [NoRun EXCEPT !.prompts = q, !.skip = TRUE].tracked = <<>>
                  /\ [NoRun EXCEPT !.prompts = q, !.skip = TRUE].new = <<>>
    BY DEF NoRun
  <2>5. ASSUME NEW c \in Callers, ContinueRun(c) PROVE TranscriptInv'
    <3>1. loc \in [Callers -> Local] /\ pc \in [Callers -> PCs]
      BY DEF TypeOK
    <3>2. \/ loc'[c] = [NoRun EXCEPT !.mode = "continue"]
          \/ loc'[c] = [NoRun EXCEPT !.prompts = Drained(steering, steeringMode),
                                     !.skip = TRUE]
          \/ loc'[c] = [NoRun EXCEPT !.prompts = Drained(followUp, followUpMode)]
      BY <2>5, <3>1 DEF ContinueRun
    <3>3. Acquire(c) /\ pc'[c] = "launch"
      BY <2>5, <3>1 DEF ContinueRun, Goto
    <3>4. QED
      BY <1>2, <2>4, <3>2, <3>3
  <2>6. ASSUME NEW c \in Callers, NEW m \in Msgs, Prompt(c, m) PROVE TranscriptInv'
    <3>1. Acquire(c) /\ pc'[c] = "flags" /\ loc'[c] = [NoRun EXCEPT !.prompts = <<m>>]
      BY <2>6 DEF Prompt, Goto, TypeOK
    <3>2. QED
      BY <1>2, <2>4, <3>1
  <2>7. QED
    BY <1>3, <2>1, <2>2, <2>3, <2>5, <2>6 DEF Caller
<1>4. ASSUME NEW c \in Callers, LoopStep(c) \/ OutsideStep(c) PROVE TranscriptInv'
  <2>1. /\ loc[c].base \in Seq(Entry) /\ loc[c].tracked \in Seq(Entry)
        /\ loc[c].new \in Seq(Entry) /\ agent.messages \in Seq(Entry)
        /\ loc \in [Callers -> Local]
    BY DEF TypeOK, Local
  <2>2. CASE SetFlags(c)
    <3>1. /\ Moves(c) /\ UNCHANGED loc /\ pc[c] = "flags" /\ pc'[c] = "launch"
      BY <2>2 DEF SetFlags, Moves, Goto, TypeOK, Owning, PCs
    <3>2. loc'[c].tracked = <<>> /\ loc'[c].new = <<>> /\ pc'[c] \notin Launched
      BY <3>1 DEF TranscriptInv, Launched
    <3>3. QED
      BY <3>1, <3>2, TranscriptMove
  <2>3. CASE Launch(c)
    <3>1. loc[c].tracked = <<>> /\ loc[c].new = <<>>
      BY <2>3 DEF Launch, TranscriptInv
    <3>2. PICK entries \in Seq(Entry) :
            /\ agent'.messages = agent.messages \o entries
            /\ loc'[c].base = agent.messages
            /\ loc'[c].tracked = <<>> \o entries
            /\ loc'[c].new = <<>> \o entries
      BY <2>3, <3>1, LaunchJoins
    <3>3. <<>> \o entries = entries
      BY ConcatEmptySeq
    <3>4. Moves(c) /\ pc'[c] \notin {"flags", "launch"}
      <4>1. Moves(c)
        BY <2>3, <1>4, LoopMoves DEF Launch, Release, NotifyWaiters
      <4>2. pc'[c] \in {"failed", "poll"}
        BY <2>3 DEF Launch, Goto, TypeOK
      <4>3. QED
        BY <4>1, <4>2
    <3>5. QED
      BY <3>2, <3>3, <3>4, TranscriptMove
  <2>4. CASE Fail(c)
    <3>1. PICK entries \in Seq(Entry) :
            /\ agent'.messages = agent.messages \o entries
            /\ loc'[c].base = loc[c].base
            /\ loc'[c].tracked = loc[c].tracked \o entries
      BY <2>4, FailJoins
    <3>2. agent.messages = loc[c].base \o loc[c].tracked
      BY <2>4 DEF Fail, TranscriptInv, TranscriptContract, Launched, Owning, PCs
    <3>3. (loc[c].base \o loc[c].tracked) \o entries
            = loc[c].base \o (loc[c].tracked \o entries)
      <4> DEFINE base == loc[c].base
                 tracked == loc[c].tracked
      <4>1. base \in Seq(Entry) /\ tracked \in Seq(Entry)
        BY <2>1
      <4> HIDE DEF base, tracked
      <4>2. (base \o tracked) \o entries = base \o (tracked \o entries)
        BY <4>1, EntriesAssociate
      <4>3. QED
        BY <4>2 DEF base, tracked
    <3>4. Moves(c) /\ pc'[c] = "ended"
      <4>1. Moves(c)
        BY <2>4, <1>4, LoopMoves DEF Fail, Release, NotifyWaiters
      <4>2. QED
        BY <2>4, <4>1 DEF Fail, Goto, TypeOK
    <3>5. QED
      BY <3>1, <3>2, <3>3, <3>4, TranscriptMove
  <2>5. CASE Release(c)
    <3>1. \A d \in Callers : pc'[d] \notin Owning
      BY <2>5 DEF Release, SingleRun
    <3>2. QED
      BY <3>1 DEF TranscriptInv, TranscriptContract, Launched, Owning, PCs
  <2>6. CASE NotifyWaiters(c)
    <3>1. UNCHANGED <<agent, loc>> /\ \A d \in Callers : pc'[d] \in {pc[d], "idle"}
      BY <2>6 DEF NotifyWaiters, Goto, TypeOK
    <3>2. QED
      BY <3>1 DEF TranscriptInv, TranscriptContract, Launched, Owning, PCs
  <2>7. CASE ~SetFlags(c) /\ ~Launch(c) /\ ~Fail(c) /\ ~Release(c) /\ ~NotifyWaiters(c)
    <3>1. Joins(c) /\ pc[c] \in Looping /\ Moves(c)
      BY <1>4, <2>7, LoopJoins, LoopMoves
    <3>2. PICK entries \in Seq(Entry) : JoinsWith(c, entries)
      BY <3>1 DEF Joins
    <3>3. agent.messages = loc[c].base \o loc[c].tracked /\ loc[c].new = loc[c].tracked
      BY <3>1 DEF Looping, TranscriptInv, TranscriptContract
    <3>4. (loc[c].base \o loc[c].tracked) \o entries
            = loc[c].base \o (loc[c].tracked \o entries)
      <4> DEFINE base == loc[c].base
                 tracked == loc[c].tracked
      <4>1. base \in Seq(Entry) /\ tracked \in Seq(Entry)
        BY <2>1
      <4> HIDE DEF base, tracked
      <4>2. (base \o tracked) \o entries = base \o (tracked \o entries)
        BY <4>1, EntriesAssociate
      <4>3. QED
        BY <4>2 DEF base, tracked
    <3>5. pc'[c] \notin {"flags", "launch"}
      BY <1>4, <2>7, ZenonT(60) DEF LoopStep, OutsideStep, FirstPoll, Inject, Prepare, Prepared, Polled,
         Request, Terminal, FinishTurn, SteerPoll, Steered, FollowUpPoll, StreamStart,
         Finalize, Tools, PollSteering, OpenTurn, End, HookFails, Goto, TypeOK
    <3>6. QED
      BY <3>1, <3>2, <3>3, <3>4, <3>5, TranscriptMove DEF JoinsWith
  <2>8. QED
    BY <2>2, <2>3, <2>4, <2>5, <2>6, <2>7
<1>5. ASSUME NEW w \in Waiters, WaitArm(w) \/ WaitCheck(w) \/ WaitSleep(w) \/ WaitWake(w)
      PROVE  TranscriptInv'
  BY <1>1, <1>5 DEF WaitArm, WaitCheck, WaitSleep, WaitWake
<1>6. CASE UNCHANGED vars
  BY <1>1, <1>6 DEF vars
<1>7. QED
  BY <1>3, <1>4, <1>5, <1>6 DEF Next

(* "messages_after = messages_before ++ returned_messages": the transcript *)
(* is the snapshot and the run's own messages at every point of every run, *)
(* whatever the hooks, the provider and the other callers do.              *)
THEOREM TranscriptContractHolds == Spec => []TranscriptContract
<1>1. Init => TranscriptInv
  BY DEF Init, TranscriptInv, TranscriptContract, Launched, Owning, PCs
<1>2. TranscriptInv => TranscriptContract
  BY DEF TranscriptInv
<1>3. QED
  BY <1>1, <1>2, TranscriptStep, TypeCorrect, SingleRunHolds, PTL DEF Spec

-----------------------------------------------------------------------------
(* The refinement of AgentContract. *)

(* A transcript that was appended to keeps what it had. *)
LEMMA AppendExtends ==
  ASSUME TypeOK, active # NoCaller, UNCHANGED active, NEW entries \in Seq(Entry),
         agent'.messages = agent.messages \o entries
  PROVE  Contract!Extend
<1>1. agent.messages \in Seq(Entry)
  BY DEF TypeOK
<1>2. /\ Len(agent.messages \o entries) = Len(agent.messages) + Len(entries)
      /\ Len(agent.messages) \in Nat /\ Len(entries) \in Nat
      /\ \A i \in 1..Len(agent.messages) : (agent.messages \o entries)[i] = agent.messages[i]
  BY <1>1, ConcatProperties, LenProperties
<1>3. QED
  BY <1>2 DEF Contract!Extend

(* Every step of the agent is a step of its contract or a stutter. *)
LEMMA ContractStep ==
  ASSUME TypeOK, SingleRun, SingleRun', [Next]_vars
  PROVE  [Contract!Next]_(Contract!vars)
<1> USE AgentRunAssumption
<1>1. CASE UNCHANGED <<active, agent>>
  BY <1>1 DEF Contract!vars
<1>2. ASSUME active = NoCaller, UNCHANGED active PROVE Contract!Next
  BY <1>2 DEF Contract!Next, Contract!Edit
<1>3. ASSUME NEW c \in Callers, Acquire(c), agent'.messages = agent.messages
      PROVE  Contract!Next
  BY <1>3 DEF Acquire, NoActiveRun, Contract!Next, Contract!Begin
<1>4. ASSUME active # NoCaller, UNCHANGED active, NEW entries \in Seq(Entry),
             agent'.messages = agent.messages \o entries
      PROVE  Contract!Next
  BY <1>4, AppendExtends DEF Contract!Next
<1>5. CASE Caller
  <2>1. ASSUME NEW m \in Msgs, Steer(m) \/ FollowUp(m) \/ PushMessage(m)
        PROVE  [Contract!Next]_(Contract!vars)
    BY <1>1, <1>2, <2>1 DEF Steer, FollowUp, PushMessage, runVars
  <2>2. ASSUME NEW mode \in QueueModes, SetSteeringMode(mode) \/ SetFollowUpMode(mode)
        PROVE  [Contract!Next]_(Contract!vars)
    BY <1>1, <2>2 DEF SetSteeringMode, SetFollowUpMode, runVars
  <2>3. CASE ClearQueues \/ Abort
    BY <1>1, <2>3 DEF ClearQueues, Abort, runVars
  <2>4. CASE Reset \/ PopLastIfAssistant \/ ReplaceLastAssistant \/ ReplaceMessages
    BY <1>2, <2>4 DEF Reset, NoActiveRun, PopLastIfAssistant, ReplaceLastAssistant,
       ReplaceMessages, runVars
  <2>5. ASSUME NEW c \in Callers, ContinueRun(c) PROVE Contract!Next
    BY <1>3, <2>5 DEF ContinueRun, Flagged, TypeOK
  <2>6. ASSUME NEW c \in Callers, NEW m \in Msgs, Prompt(c, m) PROVE Contract!Next
    BY <1>3, <2>6 DEF Prompt
  <2>7. QED
    BY <1>5, <2>1, <2>2, <2>3, <2>4, <2>5, <2>6 DEF Caller
<1>6. ASSUME NEW c \in Callers, LoopStep(c) \/ OutsideStep(c)
      PROVE  [Contract!Next]_(Contract!vars)
  <2>1. CASE Release(c)
    <3>1. active = c /\ active' = NoCaller
      BY <2>1 DEF Release, SingleRun, Owning, PCs
    <3>2. agent'.messages = agent.messages
      BY <2>1 DEF Release, Settled, TypeOK
    <3>3. QED
      BY <3>1, <3>2 DEF Contract!Next, Contract!Finish
  <2>2. CASE NotifyWaiters(c)
    BY <1>1, <2>2 DEF NotifyWaiters, runVars
  <2>3. CASE ~Release(c) /\ ~NotifyWaiters(c)
    <3>1. Moves(c)
      BY <1>6, <2>3, LoopMoves
    <3>2. active = c /\ UNCHANGED active
      BY <3>1 DEF Moves, SingleRun, runVars
    <3>3. CASE SetFlags(c)
      <4>1. agent'.messages = agent.messages
        BY <3>3 DEF SetFlags, Flagged, TypeOK
      <4>2. QED
        BY <3>2, <4>1 DEF Contract!vars
    <3>4. CASE ~SetFlags(c)
      <4>1. \E entries \in Seq(Entry) : agent'.messages = agent.messages \o entries
        BY <1>6, <2>3, <3>4, LaunchJoins, FailJoins, LoopJoins DEF Joins, JoinsWith
      <4>2. QED
        BY <1>4, <3>2, <4>1
    <3>5. QED
      BY <3>3, <3>4
  <2>4. QED
    BY <2>1, <2>2, <2>3
<1>7. ASSUME NEW w \in Waiters, WaitArm(w) \/ WaitCheck(w) \/ WaitSleep(w) \/ WaitWake(w)
      PROVE  UNCHANGED <<active, agent>>
  BY <1>7 DEF WaitArm, WaitCheck, WaitSleep, WaitWake, runVars
<1>8. CASE UNCHANGED vars
  BY <1>1, <1>8 DEF vars, runVars
<1>9. QED
  BY <1>1, <1>5, <1>6, <1>7, <1>8 DEF Next

(* The agent implements AgentContract: between the acquisition of a run and *)
(* its release nothing but the run's own appends reaches the transcript.    *)
THEOREM AgentImplementsContract == Spec => ImplementsContract
<1>1. Init => Contract!Init
  BY DEF Init, Contract!Init
<1>2. QED
  BY <1>1, ContractStep, TypeCorrect, SingleRunHolds, PTL DEF Spec, ImplementsContract,
     Contract!Spec

-----------------------------------------------------------------------------
(* The Continue decision.  A promise is only ever outstanding between      *)
(* finish_turn and the next request; until the follow-up poll the loop     *)
(* still remembers it in `explicit`, and afterwards every way out of the   *)
(* loop is a cancellation or an error.                                     *)

Owed == {"steer", "steered", "follow", "prepare", "prepared", "polled", "request", "failed",
         "ended"}

PromiseAt(c) ==
  (pc[c] \in Owning /\ loc[c].promised) =>
    /\ pc[c] \in Owed
    /\ pc[c] \in {"steer", "steered", "follow"} => loc[c].explicit
    /\ pc[c] = "ended" => cancelled[c] \/ agent.error

PromiseInv == \A c \in Callers : PromiseAt(c)

(* A step of the active run answers for the active run only. *)
LEMMA PromiseMove ==
  ASSUME TypeOK, SingleRun, NEW c \in Callers, Moves(c), PromiseAt(c)'
  PROVE  PromiseInv'
<1>1. ASSUME NEW d \in Callers, d # c PROVE pc'[d] \notin Owning
  BY <1>1 DEF Moves, Goto, SingleRun, TypeOK
<1>2. QED
  BY <1>1 DEF PromiseInv, PromiseAt

(* Joining messages and replacing the context leave the promise alone. *)
LEMMA PromiseKept ==
  ASSUME NEW l \in Local, NEW entries \in Seq(Entry)
  PROVE  /\ Tracked(l, entries).promised = l.promised
         /\ Appended(Tracked(l, entries), entries).promised = l.promised
         /\ Replaced(l).promised = l.promised
<1>1. Tracked(l, entries) \in Local /\ Tracked(l, entries).promised = l.promised
  <2>1. \A a, b : [l EXCEPT !.tracked = a, !.terminal = b].promised = l.promised
    BY DEF Local
  <2>2. QED
    BY <2>1, TrackedType DEF Tracked
<1>2. \A k \in Local : Appended(k, entries).promised = k.promised
  BY DEF Appended, Local
<1>3. QED
  BY <1>1, <1>2 DEF Replaced, Local

(* The ways a run ends or fails from a state that owes a request. *)
LEMMA PromiseLeaves ==
  ASSUME TypeOK, SingleRun, PromiseInv, NEW c \in Callers, Moves(c),
         HookFails(c) \/ (End(c) /\ (cancelled[c] \/ ~loc[c].promised))
  PROVE  PromiseInv'
<1>1. UNCHANGED loc /\ pc'[c] \in {"ended", "failed"}
  BY DEF End, HookFails, Goto, TypeOK
<1>2. pc'[c] = "ended" => cancelled[c] \/ ~loc[c].promised
  BY DEF HookFails, End, Goto, TypeOK
<1>3. UNCHANGED cancelled
  BY DEF Moves, runVars
<1>4. QED
  BY <1>1, <1>2, <1>3, PromiseMove DEF PromiseAt, Owed

(* A steering poll touches neither the promise nor the decision. *)
LEMMA PollKeeps ==
  ASSUME TypeOK, NEW c \in Callers, NEW next, PollSteering(c, next)
  PROVE  /\ loc'[c].promised = loc[c].promised /\ loc'[c].explicit = loc[c].explicit
         /\ pc'[c] = next
<1>1. loc \in [Callers -> Local] /\ loc[c] \in Local /\ pc \in [Callers -> PCs]
  BY DEF TypeOK
<1>2. \E q : loc' = [loc EXCEPT ![c] = [loc[c] EXCEPT !.pending = q, !.skip = FALSE]]
  BY <1>1 DEF PollSteering
<1>3. \A q : /\ [loc[c] EXCEPT !.pending = q, !.skip = FALSE].promised = loc[c].promised
             /\ [loc[c] EXCEPT !.pending = q, !.skip = FALSE].explicit = loc[c].explicit
  BY <1>1 DEF Local
<1>4. QED
  BY <1>1, <1>2, <1>3 DEF PollSteering, Goto

(* Steps of a run between its turns. *)
LEMMA PromiseBetween ==
  ASSUME TypeOK, SingleRun, PromiseInv, NEW c \in Callers, Moves(c),
         \/ Prepare(c) \/ Prepared(c) \/ Polled(c)
         \/ SteerPoll(c) \/ Steered(c) \/ FollowUpPoll(c)
  PROVE  PromiseInv'
<1>1. /\ loc \in [Callers -> Local] /\ loc[c] \in Local /\ Replaced(loc[c]) \in Local
      /\ loc[c].pending \in Seq(Msgs) /\ loc[c].prepared \in Seq(Msgs)
      /\ loc[c].promised \in BOOLEAN /\ loc[c].explicit \in BOOLEAN
      /\ PromiseAt(c) /\ pc[c] \in Owning
  BY ReplacedType DEF TypeOK, Local, PromiseInv, Moves
<1>2. ASSUME loc'[c].promised = loc[c].promised,
             pc'[c] \in Owed \ {"steer", "steered", "follow", "ended"}
      PROVE  PromiseInv'
  BY <1>2, PromiseMove DEF PromiseAt
<1>3. CASE OpenTurn(c)
  <2> DEFINE entries == Users(loc[c].prepared \o loc[c].pending)
             joined == Appended(Tracked(loc[c], entries), entries)
  <2>1. entries \in Seq(Entry)
    BY <1>1, UsersType, ConcatProperties
  <2>2. joined \in Local /\ joined.promised = loc[c].promised
    BY <1>1, <2>1, JoinType, PromiseKept
  <2>3. loc'[c] = [joined EXCEPT !.pending = <<>>, !.prepared = <<>>] /\ pc'[c] = "request"
    BY <1>1, <1>3 DEF OpenTurn, Goto, TypeOK
  <2> HIDE DEF joined
  <2>4. loc'[c].promised = loc[c].promised
    BY <2>2, <2>3 DEF Local
  <2>5. QED
    BY <1>2, <2>3, <2>4 DEF Owed
<1>4. CASE Prepare(c)
  <2>1. CASE End(c) \/ HookFails(c)
    BY <1>4, <2>1, PromiseLeaves DEF Prepare, End, HookFails, Goto, TypeOK
  <2>2. CASE ~End(c) /\ ~HookFails(c)
    <3>1. \E l \in {loc[c], Replaced(loc[c])} : \E injected :
            loc' = [loc EXCEPT ![c] = [l EXCEPT !.prepared = injected]]
      BY <1>4, <2>2 DEF Prepare
    <3>2. \A l \in Local : \A q : [l EXCEPT !.prepared = q].promised = l.promised
      BY DEF Local
    <3>3. <<>> \in Seq(Entry) /\ Replaced(loc[c]).promised = loc[c].promised
      BY <1>1, PromiseKept, EmptySeq
    <3>4. loc'[c].promised = loc[c].promised
      BY <1>1, <3>1, <3>2, <3>3
    <3>5. pc'[c] = "prepared"
      BY <1>4, <2>2 DEF Prepare, Goto, TypeOK
    <3>6. QED
      BY <1>2, <3>4, <3>5 DEF Owed
  <2>3. QED
    BY <2>1, <2>2
<1>5. CASE Prepared(c)
  <2>1. CASE PollSteering(c, "polled")
    BY <1>2, <2>1, PollKeeps DEF Owed
  <2>2. CASE cancelled[c] /\ End(c)
    BY <2>2, PromiseLeaves
  <2>3. QED
    BY <1>3, <1>5, <2>1, <2>2 DEF Prepared
<1>6. CASE Polled(c)
  BY <1>3, <1>6, PromiseLeaves DEF Polled
<1>7. CASE SteerPoll(c)
  <2>1. /\ loc'[c].promised = loc[c].promised /\ loc'[c].explicit = loc[c].explicit
        /\ pc'[c] = "steered" /\ pc[c] = "steer"
    BY <1>7, PollKeeps DEF SteerPoll
  <2>2. QED
    BY <1>1, <2>1, PromiseMove DEF PromiseAt, Owed
<1>8. CASE Steered(c)
  <2>1. CASE cancelled[c]
    BY <1>8, <2>1, PromiseLeaves DEF Steered
  <2>2. CASE ~cancelled[c]
    <3>1. /\ pc[c] = "steered"
          /\ loc' = [loc EXCEPT ![c] =
                       [loc[c] EXCEPT !.explicit = loc[c].explicit /\ ~NaturalRequest(loc[c])]]
          /\ pc'[c] = IF NaturalRequest(loc[c]) THEN "prepare" ELSE "follow"
      BY <1>1, <1>8, <2>2 DEF Steered, Goto, TypeOK
    <3>2. \A b : /\ [loc[c] EXCEPT !.explicit = b].promised = loc[c].promised
                 /\ [loc[c] EXCEPT !.explicit = b].explicit = b
      BY <1>1 DEF Local
    <3>3. /\ loc'[c].promised = loc[c].promised
          /\ loc'[c].explicit = (loc[c].explicit /\ ~NaturalRequest(loc[c]))
      BY <1>1, <3>1, <3>2
    <3>4. CASE NaturalRequest(loc[c])
      BY <1>2, <3>1, <3>3, <3>4 DEF Owed
    <3>5. CASE ~NaturalRequest(loc[c])
      <4>1. pc'[c] = "follow" /\ (loc'[c].promised => loc'[c].explicit)
        BY <1>1, <3>1, <3>3, <3>5 DEF PromiseAt
      <4>2. QED
        BY <4>1, PromiseMove DEF PromiseAt, Owed
    <3>6. QED
      BY <3>4, <3>5
  <2>3. QED
    BY <2>1, <2>2
<1>9. CASE FollowUpPoll(c)
  <2>1. CASE ~OwesRequest(loc[c]) /\ End(c)
    <3>1. ~loc[c].promised
      BY <1>1, <1>9, <2>1 DEF FollowUpPoll, OwesRequest, PromiseAt
    <3>2. QED
      BY <2>1, <3>1, PromiseLeaves
  <2>2. CASE ~(~OwesRequest(loc[c]) /\ End(c))
    <3>1. /\ \E q : loc' = [loc EXCEPT ![c] = [loc[c] EXCEPT !.pending = q, !.explicit = FALSE,
                                                             !.more = TRUE]]
          /\ Goto(c, "prepare")
      BY <1>1, <1>9, <2>2 DEF FollowUpPoll
    <3>2. \A q : [loc[c] EXCEPT !.pending = q, !.explicit = FALSE, !.more = TRUE].promised
                   = loc[c].promised
      BY <1>1 DEF Local
    <3>3. loc'[c].promised = loc[c].promised /\ pc'[c] = "prepare"
      BY <1>1, <3>1, <3>2 DEF Goto, TypeOK
    <3>4. QED
      BY <1>2, <3>3 DEF Owed
  <2>3. QED
    BY <2>1, <2>2
<1>10. QED
  BY <1>4, <1>5, <1>6, <1>7, <1>8, <1>9

(* The other steps of a run. *)
LEMMA PromiseTurn ==
  ASSUME TypeOK, SingleRun, PromiseInv, NEW c \in Callers, Moves(c),
         \/ SetFlags(c) \/ Launch(c) \/ FirstPoll(c) \/ Inject(c) \/ Request(c) \/ Terminal(c)
         \/ \E decision \in {"none", "continue", "end"} : FinishTurn(c, decision)
         \/ Fail(c) \/ OutsideStep(c)
  PROVE  PromiseInv'
<1>1. /\ loc \in [Callers -> Local] /\ loc[c] \in Local /\ Replaced(loc[c]) \in Local
      /\ loc[c].pending \in Seq(Msgs) /\ loc[c].prompts \in Seq(Msgs)
      /\ PromiseAt(c) /\ pc[c] \in Owning
  BY ReplacedType DEF TypeOK, Local, PromiseInv, Moves
<1>2. ASSUME pc[c] \notin Owed, loc'[c].promised = loc[c].promised PROVE PromiseInv'
  <2>1. ~loc[c].promised
    BY <1>1, <1>2 DEF PromiseAt
  <2>2. QED
    BY <1>2, <2>1, PromiseMove DEF PromiseAt
<1>3. CASE SetFlags(c) \/ Terminal(c)
  BY <1>2, <1>3 DEF SetFlags, Terminal, HookFails, Owed
<1>4. CASE FirstPoll(c)
  BY <1>2, <1>4, PollKeeps DEF FirstPoll, Owed
<1>5. CASE Launch(c)
  <2> DEFINE base == agent.messages
             prompts == Users(loc[c].prompts)
             opened == [loc[c] EXCEPT !.prompts = <<>>, !.base = base, !.seed = base,
                                      !.ctx = base]
  <2>1. opened \in Local /\ opened.promised = loc[c].promised
    BY <1>1, EmptySeq DEF Local, TypeOK
  <2>2. prompts \in Seq(Entry)
    BY <1>1, UsersType
  <2>3. pc[c] = "launch"
    BY <1>5 DEF Launch
  <2>4. loc'[c] = opened \/ loc'[c] = Appended(Tracked(opened, prompts), prompts)
    BY <1>1, <1>5 DEF Launch
  <2> HIDE DEF opened, prompts
  <2>5. loc'[c].promised = loc[c].promised
    BY <2>1, <2>2, <2>4, PromiseKept
  <2>6. QED
    BY <1>2, <2>3, <2>5 DEF Owed
<1>6. CASE Inject(c)
  <2> DEFINE entries == Users(loc[c].pending)
             joined == Appended(Tracked(loc[c], entries), entries)
  <2>1. entries \in Seq(Entry)
    BY <1>1, UsersType
  <2>2. joined \in Local /\ joined.promised = loc[c].promised
    BY <1>1, <2>1, JoinType, PromiseKept
  <2>3. loc'[c] = [joined EXCEPT !.pending = <<>>] /\ pc[c] = "inject"
    BY <1>1, <1>6 DEF Inject
  <2> HIDE DEF joined
  <2>4. loc'[c].promised = loc[c].promised
    BY <2>2, <2>3 DEF Local
  <2>5. QED
    BY <1>2, <2>3, <2>4 DEF Owed
<1>7. CASE Request(c)
  <2>1. CASE HookFails(c)
    BY <2>1, PromiseLeaves
  <2>2. CASE ~HookFails(c)
    <3>1. \E l \in {loc[c], Replaced(loc[c])} :
            loc' = [loc EXCEPT ![c] = [l EXCEPT !.added = FALSE, !.promised = FALSE]]
      BY <1>1, <1>7, <2>2 DEF Request
    <3>2. \A l \in Local : [l EXCEPT !.added = FALSE, !.promised = FALSE].promised = FALSE
      BY DEF Local
    <3>3. ~loc'[c].promised
      BY <1>1, <3>1, <3>2
    <3>4. QED
      BY <3>3, PromiseMove DEF PromiseAt
  <2>3. QED
    BY <2>1, <2>2
<1>8. ASSUME NEW decision \in {"none", "continue", "end"}, FinishTurn(c, decision)
      PROVE  PromiseInv'
  <2>1. CASE HookFails(c)
    BY <2>1, PromiseLeaves
  <2>2. CASE ~HookFails(c)
    <3>1. /\ loc' = [loc EXCEPT ![c] = [loc[c] EXCEPT !.explicit = (decision = "continue"),
                                                     !.promised = (decision = "continue")]]
          /\ pc'[c] = IF decision = "end" \/ cancelled[c] THEN "ended" ELSE "steer"
      BY <1>1, <1>8, <2>2 DEF FinishTurn, Goto, TypeOK
    <3>2. \A b : /\ [loc[c] EXCEPT !.explicit = b, !.promised = b].promised = b
                 /\ [loc[c] EXCEPT !.explicit = b, !.promised = b].explicit = b
      BY <1>1 DEF Local
    <3>3. /\ loc'[c].promised = (decision = "continue")
          /\ loc'[c].explicit = (decision = "continue")
      BY <1>1, <3>1, <3>2
    <3>4. UNCHANGED cancelled
      BY DEF Moves, runVars
    <3>5. QED
      BY <3>1, <3>3, <3>4, PromiseMove DEF PromiseAt, Owed
  <2>3. QED
    BY <2>1, <2>2
<1>9. CASE Fail(c)
  <2>1. pc'[c] = "ended"
    BY <1>9 DEF Fail, Goto, TypeOK
  <2>2. agent'.error
    <3>1. \A a \in AgentType : \A entries :
            /\ [a EXCEPT !.message = FALSE, !.error = TRUE].error
            /\ [Published(a, entries) EXCEPT !.error = TRUE].error
      BY DEF AgentType, Published
    <3>2. agent \in AgentType
      BY DEF TypeOK, AgentType
    <3>3. \/ agent' = [agent EXCEPT !.message = FALSE, !.error = TRUE]
          \/ \E entries : agent' = [Published(agent, entries) EXCEPT !.error = TRUE]
      BY <1>9 DEF Fail
    <3>4. QED
      BY <3>1, <3>2, <3>3
  <2>3. QED
    BY <2>1, <2>2, PromiseMove DEF PromiseAt, Owed
<1>10. CASE StreamStart(c)
  <2>1. \E s : loc' = [loc EXCEPT ![c] = [loc[c] EXCEPT !.added = TRUE, !.ctx = s]]
    BY <1>1, <1>10 DEF StreamStart
  <2>2. \A s : [loc[c] EXCEPT !.added = TRUE, !.ctx = s].promised = loc[c].promised
    BY <1>1 DEF Local
  <2>3. QED
    BY <1>1, <1>2, <1>10, <2>1, <2>2 DEF StreamStart, Owed
<1>11. ASSUME NEW stop \in Outcomes(c), NEW calls \in BOOLEAN, Finalize(c, stop, calls)
       PROVE  PromiseInv'
  <2> DEFINE final == Assistant(stop)
             tracked == Tracked(loc[c], <<final>>)
  <2>1. <<final>> \in Seq(Entry)
    BY <1>11, FinalType DEF Outcomes, Stops
  <2>2. tracked \in Local /\ tracked.promised = loc[c].promised
    BY <1>1, <2>1, TrackedType, PromiseKept
  <2>3. loc'[c] = [tracked EXCEPT !.ctx = Finalized(loc[c], final),
                     !.new = Append(loc[c].new, final), !.added = FALSE, !.stop = stop,
                     !.turns = loc[c].turns + 1, !.more = FALSE]
    BY <1>1, <1>11 DEF Finalize
  <2> HIDE DEF final, tracked
  <2>4. loc'[c].promised = loc[c].promised
    BY <2>2, <2>3 DEF Local
  <2>5. QED
    BY <1>2, <1>11, <2>4 DEF Finalize, Owed
<1>12. ASSUME NEW terminate \in BOOLEAN, Tools(c, terminate) PROVE PromiseInv'
  <2> DEFINE entries == <<ToolResults>>
             joined == Appended(Tracked(loc[c], entries), entries)
  <2>1. entries \in Seq(Entry)
    BY EntryTypes
  <2>2. joined \in Local /\ joined.promised = loc[c].promised
    BY <1>1, <2>1, JoinType, PromiseKept
  <2>3. loc'[c] = [joined EXCEPT !.more = ~terminate] /\ pc[c] = "tools"
    BY <1>1, <1>12 DEF Tools
  <2> HIDE DEF joined
  <2>4. loc'[c].promised = loc[c].promised
    BY <2>2, <2>3 DEF Local
  <2>5. QED
    BY <1>2, <2>3, <2>4 DEF Owed
<1>13. QED
  BY <1>3, <1>4, <1>5, <1>6, <1>7, <1>8, <1>9, <1>10, <1>11, <1>12 DEF OutsideStep

(* Every step preserves the invariant. *)
LEMMA PromiseStep ==
  ASSUME TypeOK, SingleRun, SingleRun', PromiseInv, [Next]_vars
  PROVE  PromiseInv'
<1> USE AgentRunAssumption
<1>1. ASSUME UNCHANGED <<pc, loc>>, agent'.error = agent.error \/ active = NoCaller,
             \A c \in Callers : cancelled[c] => cancelled'[c]
      PROVE  PromiseInv'
  BY <1>1 DEF PromiseInv, PromiseAt, SingleRun
<1>2. ASSUME NEW c \in Callers, Acquire(c), pc'[c] \in {"flags", "launch"},
             ~loc'[c].promised
      PROVE  PromiseInv'
  <2>1. \A d \in Callers : d # c => pc'[d] \notin Owning
    BY <1>2 DEF Acquire, SingleRun
  <2>2. QED
    BY <1>2, <2>1 DEF PromiseInv, PromiseAt
<1>3. CASE Caller
  <2>1. ASSUME NEW m \in Msgs, Steer(m) \/ FollowUp(m) \/ PushMessage(m) PROVE PromiseInv'
    BY <1>1, <2>1 DEF Steer, FollowUp, PushMessage, runVars
  <2>2. ASSUME NEW mode \in QueueModes, SetSteeringMode(mode) \/ SetFollowUpMode(mode)
        PROVE  PromiseInv'
    BY <1>1, <2>2 DEF SetSteeringMode, SetFollowUpMode, runVars
  <2>3. CASE \/ ClearQueues \/ Reset
             \/ PopLastIfAssistant \/ ReplaceLastAssistant \/ ReplaceMessages
    BY <1>1, <2>3 DEF ClearQueues, Reset, NoActiveRun, PopLastIfAssistant,
       ReplaceLastAssistant, ReplaceMessages, runVars
  <2>4. CASE Abort
    BY <1>1, <2>4 DEF Abort, TypeOK
  <2>5. /\ ~[NoRun EXCEPT !.mode = "continue"].promised
        /\ \A q : /\ ~[NoRun EXCEPT !.prompts = q].promised
                  /\ ~[NoRun EXCEPT !.prompts = q, !.skip = TRUE].promised
    BY DEF NoRun
  <2>6. ASSUME NEW c \in Callers, ContinueRun(c) PROVE PromiseInv'
    <3>1. loc \in [Callers -> Local] /\ pc \in [Callers -> PCs]
      BY DEF TypeOK
    <3>2. \/ loc'[c] = [NoRun EXCEPT !.mode = "continue"]
          \/ loc'[c] = [NoRun EXCEPT !.prompts = Drained(steering, steeringMode),
                                     !.skip = TRUE]
          \/ loc'[c] = [NoRun EXCEPT !.prompts = Drained(followUp, followUpMode)]
      BY <2>6, <3>1 DEF ContinueRun
    <3>3. Acquire(c) /\ pc'[c] = "launch"
      BY <2>6, <3>1 DEF ContinueRun, Goto
    <3>4. QED
      BY <1>2, <2>5, <3>2, <3>3
  <2>7. ASSUME NEW c \in Callers, NEW m \in Msgs, Prompt(c, m) PROVE PromiseInv'
    <3>1. Acquire(c) /\ pc'[c] = "flags" /\ loc'[c] = [NoRun EXCEPT !.prompts = <<m>>]
      BY <2>7 DEF Prompt, Goto, TypeOK
    <3>2. QED
      BY <1>2, <2>5, <3>1
  <2>8. QED
    BY <1>3, <2>1, <2>2, <2>3, <2>4, <2>6, <2>7 DEF Caller
<1>4. ASSUME NEW c \in Callers, LoopStep(c) \/ OutsideStep(c) PROVE PromiseInv'
  <2>1. CASE Release(c)
    BY <2>1 DEF Release, SingleRun, PromiseInv, PromiseAt
  <2>2. CASE NotifyWaiters(c)
    <3>1. UNCHANGED <<agent, loc, cancelled>> /\ \A d \in Callers : pc'[d] \in {pc[d], "idle"}
      BY <2>2 DEF NotifyWaiters, Goto, TypeOK, runVars
    <3>2. QED
      BY <3>1 DEF PromiseInv, PromiseAt, Owning
  <2>3. CASE ~Release(c) /\ ~NotifyWaiters(c)
    <3>1. Moves(c)
      BY <1>4, <2>3, LoopMoves
    <3>2. QED
      BY <1>4, <2>3, <3>1, PromiseBetween, PromiseTurn DEF LoopStep
  <2>4. QED
    BY <2>1, <2>2, <2>3
<1>5. ASSUME NEW w \in Waiters, WaitArm(w) \/ WaitCheck(w) \/ WaitSleep(w) \/ WaitWake(w)
      PROVE  PromiseInv'
  BY <1>1, <1>5 DEF WaitArm, WaitCheck, WaitSleep, WaitWake, runVars
<1>6. CASE UNCHANGED vars
  BY <1>1, <1>6 DEF vars, runVars
<1>7. QED
  BY <1>3, <1>4, <1>5, <1>6 DEF Next

(* AgentTurnDecision::Continue is kept: whatever the queues hold, the hooks *)
(* inject and the other callers do, a run that neither failed nor was       *)
(* cancelled makes the further provider request before it ends.             *)
THEOREM ContinueHonouredHolds == Spec => []ContinueHonoured
<1>1. Init => PromiseInv
  BY DEF Init, PromiseInv, PromiseAt, Owning
<1>2. PromiseInv => ContinueHonoured
  BY DEF PromiseInv, PromiseAt, ContinueHonoured, Owning, PCs
<1>3. QED
  BY <1>1, <1>2, PromiseStep, TypeCorrect, SingleRunHolds, PTL DEF Spec

-----------------------------------------------------------------------------
(* The request context.  The invariant adds that the length recorded when  *)
(* the context was installed never exceeds the delta, and that a partial   *)
(* is in place only while the provider streams.                            *)

(* The context without the partial, and the context. *)
Settling(l) == l.seed \o SubSeq(l.tracked, l.since + 1, Len(l.tracked))
ContextOf(l) ==
  /\ l.since <= Len(l.tracked)
  /\ l.ctx = Settling(l) \o (IF l.added THEN <<Assistant("done")>> ELSE <<>>)

(* The locals the context is made of. *)
SameContext(l, k) ==
  /\ l.ctx = k.ctx /\ l.seed = k.seed /\ l.since = k.since
  /\ l.tracked = k.tracked /\ l.added = k.added

(* The part of the delta after a position, when the delta grows. *)
LEMMA SuffixGrows ==
  ASSUME NEW t \in Seq(Entry), NEW e \in Seq(Entry), NEW n \in Nat, n <= Len(t)
  PROVE  /\ SubSeq(t, n + 1, Len(t)) \in Seq(Entry)
         /\ SubSeq(t \o e, n + 1, Len(t \o e)) = SubSeq(t, n + 1, Len(t)) \o e
<1> DEFINE whole == t \o e
           old == SubSeq(t, n + 1, Len(t))
           grown == SubSeq(whole, n + 1, Len(whole))
<1>1. /\ whole \in Seq(Entry) /\ Len(whole) = Len(t) + Len(e)
      /\ Len(t) \in Nat /\ Len(e) \in Nat
      /\ \A i \in 1..Len(t) + Len(e) :
           whole[i] = IF i <= Len(t) THEN t[i] ELSE e[i - Len(t)]
  BY ConcatProperties, LenProperties
<1>2. (\A i \in 1..Len(t) : t[i] \in Entry) /\ (\A i \in 1..Len(whole) : whole[i] \in Entry)
  BY <1>1, ElementOfSeq
<1> HIDE DEF whole
<1>3. /\ old \in Seq(Entry) /\ Len(old) = Len(t) - n
      /\ \A i \in 1..Len(t) - n : old[i] = t[n + i]
  <2>1. \A i \in n + 1..Len(t) : t[i] \in Entry
    BY <1>1, <1>2
  <2>2. /\ old \in Seq(Entry)
        /\ Len(old) = IF n + 1 <= Len(t) THEN Len(t) - (n + 1) + 1 ELSE 0
        /\ \A i \in 1..Len(t) - (n + 1) + 1 : old[i] = t[(n + 1) + i - 1]
    BY <1>1, <2>1, SubSeqProperties
  <2> HIDE DEF old
  <2>3. Len(old) = Len(t) - n
    BY <1>1, <2>2
  <2>4. ASSUME NEW i \in 1..Len(t) - n PROVE old[i] = t[n + i]
    <3>1. i \in 1..Len(t) - (n + 1) + 1 /\ (n + 1) + i - 1 = n + i
      BY <1>1
    <3>2. old[i] = t[(n + 1) + i - 1]
      BY <2>2, <3>1
    <3>3. QED
      BY <3>1, <3>2
  <2>5. QED
    BY <2>2, <2>3, <2>4
<1> HIDE DEF old
<1>4. /\ grown \in Seq(Entry) /\ Len(grown) = Len(whole) - n
      /\ \A i \in 1..Len(whole) - n : grown[i] = whole[n + i]
  <2>1. \A i \in n + 1..Len(whole) : whole[i] \in Entry
    BY <1>1, <1>2
  <2>2. Len(whole) \in Nat /\ n <= Len(whole)
    BY <1>1
  <2>3. /\ grown \in Seq(Entry)
        /\ Len(grown) = IF n + 1 <= Len(whole) THEN Len(whole) - (n + 1) + 1 ELSE 0
        /\ \A i \in 1..Len(whole) - (n + 1) + 1 : grown[i] = whole[(n + 1) + i - 1]
    BY <2>1, <2>2, SubSeqProperties
  <2> HIDE DEF grown
  <2>4. Len(grown) = Len(whole) - n
    BY <2>2, <2>3
  <2>5. ASSUME NEW i \in 1..Len(whole) - n PROVE grown[i] = whole[n + i]
    <3>1. i \in 1..Len(whole) - (n + 1) + 1 /\ (n + 1) + i - 1 = n + i
      BY <2>2, <2>5
    <3>2. QED
      BY <2>3, <3>1
  <2>6. QED
    BY <2>3, <2>4, <2>5
<1> HIDE DEF old, grown
<1>5. /\ old \o e \in Seq(Entry) /\ Len(old \o e) = Len(old) + Len(e)
      /\ \A i \in 1..Len(old) + Len(e) :
           (old \o e)[i] = IF i <= Len(old) THEN old[i] ELSE e[i - Len(old)]
  BY <1>3, ConcatProperties
<1>6. Len(grown) = Len(old \o e)
  BY <1>1, <1>3, <1>4, <1>5
<1>7. ASSUME NEW i \in 1..Len(grown) PROVE grown[i] = (old \o e)[i]
  <2>1. grown[i] = whole[n + i] /\ i \in 1..Len(old) + Len(e) /\ n + i \in 1..Len(t) + Len(e)
    BY <1>1, <1>3, <1>4, <1>7
  <2>2. CASE i <= Len(t) - n
    BY <1>1, <1>3, <1>5, <2>1, <2>2
  <2>3. CASE ~(i <= Len(t) - n)
    <3>1. (n + i) - Len(t) = i - Len(old) /\ ~(n + i <= Len(t)) /\ ~(i <= Len(old))
      BY <1>1, <1>3, <2>1, <2>3
    <3>2. QED
      BY <1>1, <1>5, <2>1, <3>1
  <2>4. QED
    BY <2>2, <2>3
<1>8. grown = old \o e
  BY <1>4, <1>5, <1>6, <1>7, SeqEqual, Zenon
<1>9. QED
  BY <1>3, <1>8 DEF old, grown, whole

(* Replacing the last element of a sequence. *)
LEMMA LastReplaced ==
  ASSUME NEW s \in Seq(Entry), NEW old \in Entry, NEW final \in Entry
  PROVE  [(s \o <<old>>) EXCEPT ![Len(s \o <<old>>)] = final] = s \o <<final>>
<1> DEFINE before == s \o <<old>>
           after == s \o <<final>>
<1>1. /\ <<old>> \in Seq(Entry) /\ <<final>> \in Seq(Entry)
      /\ Len(<<old>>) = 1 /\ Len(<<final>>) = 1 /\ <<final>>[1] = final
      /\ Len(s) \in Nat
  BY LenProperties
<1>2. /\ before \in Seq(Entry) /\ Len(before) = Len(s) + 1
      /\ \A i \in 1..Len(s) + 1 :
           before[i] = IF i <= Len(s) THEN s[i] ELSE <<old>>[i - Len(s)]
  BY <1>1, ConcatProperties
<1>3. /\ after \in Seq(Entry) /\ Len(after) = Len(s) + 1
      /\ \A i \in 1..Len(s) + 1 :
           after[i] = IF i <= Len(s) THEN s[i] ELSE <<final>>[i - Len(s)]
  BY <1>1, ConcatProperties
<1> HIDE DEF before, after
<1> DEFINE changed == [before EXCEPT ![Len(before)] = final]
<1>4. Len(before) \in 1..Len(before)
  BY <1>1, <1>2
<1>5. /\ changed \in Seq(Entry) /\ Len(changed) = Len(before)
      /\ \A i \in 1..Len(before) : changed[i] = IF i = Len(before) THEN final ELSE before[i]
  BY <1>2, <1>4, ExceptSeq
<1> HIDE DEF changed
<1>6. ASSUME NEW i \in 1..Len(changed) PROVE changed[i] = after[i]
  <2>1. i \in 1..Len(s) + 1 /\ changed[i] = (IF i = Len(s) + 1 THEN final ELSE before[i])
    BY <1>2, <1>5, <1>6
  <2>2. CASE i = Len(s) + 1
    <3>1. i - Len(s) = 1 /\ ~(i <= Len(s))
      BY <1>1, <2>2
    <3>2. QED
      BY <1>1, <1>3, <2>1, <2>2, <3>1
  <2>3. CASE i # Len(s) + 1
    <3>1. i <= Len(s)
      BY <1>1, <2>1, <2>3
    <3>2. QED
      BY <1>2, <1>3, <2>1, <2>3, <3>1
  <2>4. QED
    BY <2>2, <2>3
<1>7. Len(changed) = Len(after)
  BY <1>2, <1>3, <1>5
<1>8. changed = after
  BY <1>3, <1>5, <1>6, <1>7, SeqEqual, Zenon
<1>9. QED
  BY <1>8 DEF changed, before, after

(* Messages published in a turn reach the end of the context. *)
LEMMA SettlingGrows ==
  ASSUME NEW l \in Local, NEW k \in Local, NEW entries \in Seq(Entry), l.since <= Len(l.tracked),
         k.seed = l.seed, k.since = l.since, k.tracked = l.tracked \o entries
  PROVE  /\ Settling(l) \in Seq(Entry)
         /\ Settling(k) = Settling(l) \o entries
         /\ k.since <= Len(k.tracked)
<1> DEFINE suffix == SubSeq(l.tracked, l.since + 1, Len(l.tracked))
<1>1. l.tracked \in Seq(Entry) /\ l.seed \in Seq(Entry) /\ l.since \in Nat
  BY DEF Local
<1>2. /\ suffix \in Seq(Entry)
      /\ SubSeq(k.tracked, l.since + 1, Len(k.tracked)) = suffix \o entries
  <2>1. /\ SubSeq(l.tracked, l.since + 1, Len(l.tracked)) \in Seq(Entry)
        /\ SubSeq(l.tracked \o entries, l.since + 1, Len(l.tracked \o entries))
             = SubSeq(l.tracked, l.since + 1, Len(l.tracked)) \o entries
    BY <1>1, SuffixGrows, Zenon
  <2>2. QED
    BY <2>1, Zenon
<1>3. /\ Len(k.tracked) = Len(l.tracked) + Len(entries)
      /\ Len(l.tracked) \in Nat /\ Len(entries) \in Nat
  BY <1>1, ConcatProperties, LenProperties
<1> HIDE DEF suffix
<1>4. l.seed \o (suffix \o entries) = (l.seed \o suffix) \o entries /\ l.seed \o suffix \in Seq(Entry)
  <2>1. l.seed \o suffix \in Seq(Entry)
    BY <1>1, <1>2, ConcatProperties
  <2>2. (l.seed \o suffix) \o entries = l.seed \o (suffix \o entries)
    BY <1>1, <1>2, EntriesAssociate, ZenonT(60)
  <2>3. QED
    BY <2>1, <2>2
<1>5. Settling(l) = l.seed \o suffix /\ Settling(k) = l.seed \o (suffix \o entries)
  BY <1>2 DEF Settling, suffix
<1>6. k.since <= Len(k.tracked)
  BY <1>1, <1>3
<1>7. QED
  BY <1>4, <1>5, <1>6

(* Tracked and Appended grow the delta and the context together. *)
LEMMA ContextJoins ==
  ASSUME NEW l \in Local, NEW entries \in Seq(Entry), ContextOf(l), ~l.added
  PROVE  LET joined == Appended(Tracked(l, entries), entries) IN
         joined \in Local /\ ContextOf(joined) /\ ~joined.added
<1> DEFINE tracked == Tracked(l, entries)
           joined == Appended(tracked, entries)
<1>1. tracked \in Local /\ joined \in Local
  BY TrackedType, AppendedType
<1>2. /\ tracked.ctx = l.ctx /\ tracked.seed = l.seed /\ tracked.since = l.since
      /\ tracked.tracked = l.tracked \o entries /\ tracked.added = l.added
  BY DEF Tracked, Local
<1> HIDE DEF tracked
<1>3. /\ joined.ctx = tracked.ctx \o entries /\ joined.seed = tracked.seed
      /\ joined.since = tracked.since /\ joined.tracked = tracked.tracked
      /\ joined.added = tracked.added
  BY <1>1 DEF Appended, Local
<1> HIDE DEF joined
<1>4. /\ joined.ctx = l.ctx \o entries /\ joined.seed = l.seed /\ joined.since = l.since
      /\ joined.tracked = l.tracked \o entries /\ joined.added = l.added
  BY <1>2, <1>3
<1>5. /\ Settling(l) \in Seq(Entry) /\ Settling(joined) = Settling(l) \o entries
      /\ joined.since <= Len(joined.tracked)
  BY <1>1, <1>4, SettlingGrows DEF ContextOf
<1>6. l.ctx = Settling(l)
  BY <1>5, ConcatEmptySeq DEF ContextOf
<1>7. Settling(joined) \in Seq(Entry) /\ Settling(joined) \o <<>> = Settling(joined)
  <2>1. Settling(joined) \in Seq(Entry)
    BY <1>5, ConcatProperties
  <2>2. QED
    BY <2>1, ConcatEmptySeq
<1>8. ~joined.added /\ ContextOf(joined)
  BY <1>4, <1>5, <1>6, <1>7 DEF ContextOf
<1>9. QED
  BY <1>1, <1>8 DEF joined, tracked

(* A hook installs a context of its own. *)
LEMMA ContextReplaced ==
  ASSUME NEW l \in Local, ~l.added
  PROVE  Replaced(l) \in Local /\ ContextOf(Replaced(l)) /\ ~Replaced(l).added
<1> DEFINE k == Replaced(l)
<1>1. k \in Local /\ l.tracked \in Seq(Entry) /\ Len(l.tracked) \in Nat
  BY ReplacedType, LenProperties DEF Local
<1>2. /\ k.ctx = <<Summary>> /\ k.seed = <<Summary>> /\ k.since = Len(l.tracked)
      /\ k.tracked = l.tracked /\ k.added = l.added
  BY DEF Replaced, Local
<1> HIDE DEF k
<1>3. SubSeq(k.tracked, k.since + 1, Len(k.tracked)) = <<>>
  BY <1>1, <1>2, SubSeqEmpty
<1>4. <<Summary>> \in Seq(Entry) /\ <<Summary>> \o <<>> = <<Summary>>
  <2>1. <<Summary>> \in Seq(Entry)
    BY EntryTypes
  <2>2. QED
    BY <2>1, ConcatEmptySeq
<1>5. ContextOf(k) /\ ~k.added
  <2>1. Settling(k) = <<Summary>>
    BY <1>2, <1>3, <1>4 DEF Settling
  <2>2. ~k.added /\ k.since <= Len(k.tracked)
    BY <1>1, <1>2
  <2>3. QED
    BY <1>2, <1>4, <2>1, <2>2 DEF ContextOf
<1>6. QED
  BY <1>1, <1>5 DEF k

(* The final message takes the place of the partial or joins the end. *)
LEMMA ContextFinal ==
  ASSUME NEW l \in Local, NEW k \in Local, NEW final \in Entry, ContextOf(l),
         k.seed = l.seed, k.since = l.since, k.tracked = l.tracked \o <<final>>,
         ~k.added, k.ctx = Finalized(l, final)
  PROVE  ContextOf(k)
<1>1. <<final>> \in Seq(Entry) /\ Assistant("done") \in Entry
  BY EntryTypes DEF Stops
<1>2. /\ Settling(l) \in Seq(Entry) /\ Settling(k) = Settling(l) \o <<final>>
      /\ k.since <= Len(k.tracked)
  BY <1>1, SettlingGrows DEF ContextOf
<1>3. Settling(k) \o <<>> = Settling(k)
  <2>1. Settling(k) \in Seq(Entry)
    BY <1>1, <1>2, ConcatProperties
  <2>2. QED
    BY <2>1, ConcatEmptySeq
<1>4. CASE l.added
  <2>1. l.ctx = Settling(l) \o <<Assistant("done")>>
    BY <1>4 DEF ContextOf
  <2>2. k.ctx = Settling(l) \o <<final>>
    <3>1. [(Settling(l) \o <<Assistant("done")>>)
             EXCEPT ![Len(Settling(l) \o <<Assistant("done")>>)] = final]
           = Settling(l) \o <<final>>
      BY <1>1, <1>2, LastReplaced, Zenon
    <3>2. k.ctx = [l.ctx EXCEPT ![Len(l.ctx)] = final]
      BY <1>4 DEF Finalized
    <3>3. QED
      BY <2>1, <3>1, <3>2, Zenon
  <2>3. QED
    BY <1>2, <1>3, <2>2 DEF ContextOf
<1>5. CASE ~l.added
  <2>1. l.ctx = Settling(l)
    BY <1>2, <1>5, ConcatEmptySeq DEF ContextOf
  <2>2. k.ctx = Settling(l) \o <<final>>
    BY <1>2, <1>5, <2>1, AppendIsConcat DEF Finalized
  <2>3. QED
    BY <1>2, <1>3, <2>2 DEF ContextOf
<1>6. QED
  BY <1>4, <1>5

(* The provider's partial. *)
LEMMA ContextPartial ==
  ASSUME NEW l \in Local, ContextOf(l), ~l.added
  PROVE  ContextOf([l EXCEPT !.added = TRUE, !.ctx = Append(l.ctx, Assistant("done"))])
<1> DEFINE k == [l EXCEPT !.added = TRUE, !.ctx = Append(l.ctx, Assistant("done"))]
<1>1. /\ k.ctx = Append(l.ctx, Assistant("done")) /\ k.added
      /\ k.seed = l.seed /\ k.since = l.since /\ k.tracked = l.tracked
  BY DEF Local
<1> HIDE DEF k
<1>2. /\ <<>> \in Seq(Entry) /\ Assistant("done") \in Entry /\ l.ctx \in Seq(Entry)
      /\ l.tracked \in Seq(Entry)
  BY EntryTypes, EmptySeq DEF Stops, Local
<1>3. l.tracked = l.tracked \o <<>>
  BY <1>2, ConcatEmptySeq
<1>4. Settling(l) \in Seq(Entry)
  BY <1>2, <1>3, SettlingGrows DEF ContextOf
<1>5. l.ctx = Settling(l)
  BY <1>4, ConcatEmptySeq DEF ContextOf
<1>6. k.ctx = Settling(l) \o <<Assistant("done")>>
  BY <1>1, <1>2, <1>5, AppendIsConcat
<1>7. Settling(k) = Settling(l)
  BY <1>1 DEF Settling
<1>8. ContextOf(k)
  BY <1>1, <1>6, <1>7 DEF ContextOf
<1>9. QED
  BY <1>8 DEF k

ContextAt(c) ==
  /\ pc[c] \in {"flags", "launch"} =>
       loc[c].since = 0 /\ loc[c].tracked = <<>> /\ ~loc[c].added
  /\ pc[c] \in Looping => ContextOf(loc[c]) /\ (pc[c] # "stream" => ~loc[c].added)

ContextInv == \A c \in Callers : ContextAt(c)

(* A step of the active run answers for the active run only. *)
LEMMA ContextMove ==
  ASSUME TypeOK, SingleRun, NEW c \in Callers, Moves(c), ContextAt(c)'
  PROVE  ContextInv'
<1>1. ASSUME NEW d \in Callers, d # c PROVE pc'[d] \notin Owning
  BY <1>1 DEF Moves, Goto, SingleRun, TypeOK
<1>2. {"flags", "launch"} \subseteq Owning /\ Looping \subseteq Owning
  BY DEF Looping, Launched, Owning, PCs
<1>3. QED
  BY <1>1, <1>2 DEF ContextInv, ContextAt

(* The run leaves the loop: its context is not used again. *)
LEMMA ContextLeaves ==
  ASSUME TypeOK, SingleRun, NEW c \in Callers, Moves(c), pc'[c] \in {"failed", "ended"}
  PROVE  ContextInv'
BY ContextMove DEF ContextAt, Looping

(* The run stays in the loop with the context of locals known to be right. *)
LEMMA ContextStays ==
  ASSUME TypeOK, SingleRun, NEW c \in Callers, Moves(c), pc'[c] \in Looping,
         NEW l, ContextOf(l), ~l.added, SameContext(loc'[c], l)
  PROVE  ContextInv'
<1>1. ContextOf(loc'[c]) /\ ~loc'[c].added
  BY DEF SameContext, ContextOf, Settling
<1>2. pc'[c] \notin {"flags", "launch"}
  BY DEF Looping, Launched
<1>3. ContextAt(c)'
  BY <1>1, <1>2 DEF ContextAt
<1>4. QED
  BY <1>3, ContextMove

(* The two ways out of the loop. *)
LEMMA ContextEnds ==
  ASSUME TypeOK, SingleRun, NEW c \in Callers, Moves(c), End(c) \/ HookFails(c)
  PROVE  ContextInv'
<1>1. pc'[c] \in {"failed", "ended"}
  BY DEF End, HookFails, Goto, TypeOK
<1>2. QED
  BY <1>1, ContextLeaves

(* A steering poll leaves the context alone. *)
LEMMA ContextPoll ==
  ASSUME TypeOK, SingleRun, NEW c \in Callers, Moves(c), ContextOf(loc[c]), ~loc[c].added,
         NEW next \in Looping, PollSteering(c, next)
  PROVE  ContextInv'
<1>1. loc \in [Callers -> Local] /\ loc[c] \in Local /\ pc \in [Callers -> PCs]
  BY DEF TypeOK
<1>2. \E q : loc' = [loc EXCEPT ![c] = [loc[c] EXCEPT !.pending = q, !.skip = FALSE]]
  BY <1>1 DEF PollSteering
<1>3. \A q : SameContext([loc[c] EXCEPT !.pending = q, !.skip = FALSE], loc[c])
  BY <1>1 DEF SameContext, Local
<1>4. SameContext(loc'[c], loc[c])
  BY <1>1, <1>2, <1>3
<1>5. pc'[c] = next
  BY <1>1 DEF PollSteering, Goto
<1>6. QED
  BY <1>4, <1>5, ContextStays

(* Steps of a run between its turns. *)
LEMMA ContextBetween ==
  ASSUME TypeOK, SingleRun, ContextInv, NEW c \in Callers, Moves(c),
         \/ Prepare(c) \/ Prepared(c) \/ Polled(c) \/ FirstPoll(c)
         \/ SteerPoll(c) \/ Steered(c) \/ FollowUpPoll(c)
  PROVE  ContextInv'
<1>1. /\ loc \in [Callers -> Local] /\ loc[c] \in Local
      /\ loc[c].pending \in Seq(Msgs) /\ loc[c].prepared \in Seq(Msgs)
  BY DEF TypeOK, Local
<1>2. {"inject", "steered", "polled", "prepare", "prepared", "follow", "request"} \subseteq Looping
  BY DEF Looping, Launched, Owning, PCs
<1>3. ContextOf(loc[c]) /\ ~loc[c].added
  <2>1. pc[c] \in Looping \ {"stream"}
    BY DEF Prepare, Prepared, Polled, FirstPoll, SteerPoll, Steered, FollowUpPoll, Looping,
       Launched, Owning, PCs
  <2>2. QED
    BY <2>1 DEF ContextInv, ContextAt
<1>4. ASSUME NEW next \in Looping, PollSteering(c, next) PROVE ContextInv'
  BY <1>3, <1>4, ContextPoll
<1>5. CASE OpenTurn(c)
  <2> DEFINE entries == Users(loc[c].prepared \o loc[c].pending)
             joined == Appended(Tracked(loc[c], entries), entries)
  <2>1. entries \in Seq(Entry)
    BY <1>1, UsersType, ConcatProperties
  <2>2. joined \in Local /\ ContextOf(joined) /\ ~joined.added
    BY <1>1, <1>3, <2>1, ContextJoins
  <2>3. loc'[c] = [joined EXCEPT !.pending = <<>>, !.prepared = <<>>] /\ pc'[c] = "request"
    BY <1>1, <1>5 DEF OpenTurn, Goto, TypeOK
  <2> HIDE DEF joined
  <2>4. SameContext(loc'[c], joined)
    BY <2>2, <2>3 DEF SameContext, Local
  <2>5. QED
    BY <1>2, <2>2, <2>3, <2>4, ContextStays
<1>6. CASE Prepare(c)
  <2>1. CASE ~End(c) /\ ~HookFails(c)
    <3>1. \E l \in {loc[c], Replaced(loc[c])} : \E q :
            loc' = [loc EXCEPT ![c] = [l EXCEPT !.prepared = q]]
      BY <1>6, <2>1 DEF Prepare
    <3>2. /\ Replaced(loc[c]) \in Local /\ ContextOf(Replaced(loc[c]))
          /\ ~Replaced(loc[c]).added
      BY <1>1, <1>3, ContextReplaced
    <3>3. \A l \in Local : \A q : SameContext([l EXCEPT !.prepared = q], l)
      BY DEF SameContext, Local
    <3>4. \E l \in {loc[c], Replaced(loc[c])} : SameContext(loc'[c], l)
      <4>1. \E l \in {loc[c], Replaced(loc[c])} : \E q : loc'[c] = [l EXCEPT !.prepared = q]
        BY <1>1, <3>1, ZenonT(60)
      <4>2. QED
        BY <1>1, <3>2, <3>3, <4>1, ZenonT(60)
    <3>5. pc'[c] = "prepared"
      BY <1>6, <2>1 DEF Prepare, Goto, TypeOK
    <3>6. QED
      BY <1>2, <1>3, <3>2, <3>4, <3>5, ContextStays
  <2>2. QED
    BY <2>1, ContextEnds
<1>7. CASE Prepared(c) \/ Polled(c)
  BY <1>2, <1>4, <1>5, <1>7, ContextEnds DEF Prepared, Polled
<1>8. CASE FirstPoll(c) \/ SteerPoll(c)
  BY <1>2, <1>4, <1>8 DEF FirstPoll, SteerPoll
<1>9. CASE Steered(c)
  <2>1. CASE ~End(c)
    <3>1. \E b : loc' = [loc EXCEPT ![c] = [loc[c] EXCEPT !.explicit = b]]
      BY <1>1, <1>9, <2>1 DEF Steered
    <3>2. \A b : SameContext([loc[c] EXCEPT !.explicit = b], loc[c])
      BY <1>1 DEF SameContext, Local
    <3>3. SameContext(loc'[c], loc[c])
      BY <1>1, <3>1, <3>2
    <3>4. pc'[c] \in {"prepare", "follow"}
      BY <1>9, <2>1 DEF Steered, Goto, TypeOK
    <3>5. QED
      BY <1>2, <1>3, <3>3, <3>4, ContextStays
  <2>2. QED
    BY <2>1, ContextEnds
<1>10. CASE FollowUpPoll(c)
  <2>1. CASE ~End(c)
    <3>1. /\ \E q : loc' = [loc EXCEPT ![c] = [loc[c] EXCEPT !.pending = q, !.explicit = FALSE,
                                                             !.more = TRUE]]
          /\ Goto(c, "prepare")
      BY <1>1, <1>10, <2>1 DEF FollowUpPoll
    <3>2. \A q : SameContext([loc[c] EXCEPT !.pending = q, !.explicit = FALSE, !.more = TRUE],
                             loc[c])
      BY <1>1 DEF SameContext, Local
    <3>3. \E q : loc'[c] = [loc[c] EXCEPT !.pending = q, !.explicit = FALSE, !.more = TRUE]
      BY <1>1, <3>1, Zenon
    <3>4. SameContext(loc'[c], loc[c])
      BY <3>2, <3>3, Zenon
    <3>5. pc'[c] = "prepare"
      BY <3>1 DEF Goto, TypeOK
    <3>6. QED
      BY <1>2, <1>3, <3>4, <3>5, ContextStays
  <2>2. QED
    BY <2>1, ContextEnds
<1>11. QED
  BY <1>6, <1>7, <1>8, <1>9, <1>10

(* The opening of a run takes the snapshot as the context. *)
LEMMA ContextOpens ==
  ASSUME TypeOK, SingleRun, ContextInv, NEW c \in Callers, Moves(c), SetFlags(c) \/ Launch(c)
  PROVE  ContextInv'
<1>1. /\ loc \in [Callers -> Local] /\ loc[c] \in Local /\ loc[c].prompts \in Seq(Msgs)
      /\ agent.messages \in Seq(Entry) /\ <<>> \in Seq(Msgs) /\ <<>> \in Seq(Entry)
  BY EmptySeq DEF TypeOK, Local
<1>2. loc[c].since = 0 /\ loc[c].tracked = <<>> /\ ~loc[c].added
  BY DEF SetFlags, Launch, ContextInv, ContextAt
<1>3. CASE SetFlags(c)
  <2>1. UNCHANGED loc /\ pc'[c] = "launch"
    BY <1>3 DEF SetFlags, Goto, TypeOK
  <2>2. ContextAt(c)'
    BY <1>2, <2>1 DEF ContextAt, Looping, Launched
  <2>3. QED
    BY <2>2, ContextMove
<1>4. CASE Launch(c)
  <2> DEFINE base == agent.messages
             prompts == Users(loc[c].prompts)
             opened == [loc[c] EXCEPT !.prompts = <<>>, !.base = base, !.seed = base,
                                      !.ctx = base]
             joined == Appended(Tracked(opened, prompts), prompts)
  <2>1. opened \in Local
    BY <1>1 DEF Local
  <2>2. /\ opened.ctx = base /\ opened.seed = base /\ opened.since = 0
        /\ opened.tracked = <<>> /\ ~opened.added
    BY <1>1, <1>2 DEF Local
  <2>3. \/ pc'[c] = "failed"
        \/ loc'[c] = joined /\ pc'[c] = "poll"
    BY <1>1, <1>4 DEF Launch, Goto, TypeOK
  <2>4. prompts \in Seq(Entry)
    BY <1>1, UsersType
  <2> HIDE DEF opened, prompts
  <2>5. ContextOf(opened)
    <3>1. SubSeq(opened.tracked, opened.since + 1, Len(opened.tracked)) = <<>>
      <4>1. Len(opened.tracked) = 0
        BY <2>2, EmptySeq
      <4>2. QED
        BY <2>2, <4>1, SubSeqEmpty
    <3>2. base \o <<>> = base
      BY <1>1, ConcatEmptySeq
    <3>3. Settling(opened) = base
      BY <2>2, <3>1, <3>2 DEF Settling
    <3>4. opened.since <= Len(opened.tracked)
      BY <2>2, EmptySeq
    <3>5. QED
      BY <2>2, <3>2, <3>3, <3>4 DEF ContextOf
  <2>6. ContextOf(joined) /\ ~joined.added
    BY <2>1, <2>2, <2>4, <2>5, ContextJoins
  <2> HIDE DEF joined
  <2>7. CASE pc'[c] = "failed"
    BY <2>7, ContextLeaves
  <2>8. CASE loc'[c] = joined /\ pc'[c] = "poll"
    BY <2>6, <2>8, ContextStays DEF SameContext, Looping, Launched, Owning, PCs
  <2>9. QED
    BY <2>3, <2>7, <2>8
<1>5. QED
  BY <1>3, <1>4

(* The steps of a turn. *)
LEMMA ContextTurn ==
  ASSUME TypeOK, TypeOK', SingleRun, ContextInv, NEW c \in Callers, Moves(c),
         \/ Inject(c) \/ Request(c) \/ Terminal(c)
         \/ \E decision \in {"none", "continue", "end"} : FinishTurn(c, decision)
         \/ Fail(c) \/ OutsideStep(c)
  PROVE  ContextInv'
<1>1. /\ loc \in [Callers -> Local] /\ loc[c] \in Local /\ loc[c].pending \in Seq(Msgs)
      /\ loc'[c] \in Local
  BY DEF TypeOK, Local
<1>2. {"request", "stream", "finish", "terminal", "tools", "steer"} \subseteq Looping
  BY DEF Looping, Launched, Owning, PCs
<1>3. ASSUME pc[c] \in {"inject", "request", "finish", "tools"}
      PROVE  ContextOf(loc[c]) /\ ~loc[c].added
  BY <1>3 DEF ContextInv, ContextAt, Looping, Launched, Owning, PCs
<1>4. CASE Terminal(c) \/ Fail(c)
  <2>1. pc'[c] \in {"failed", "ended"}
    BY <1>4 DEF Terminal, Fail, HookFails, Goto, TypeOK
  <2>2. QED
    BY <2>1, ContextLeaves
<1>5. CASE Inject(c)
  <2> DEFINE entries == Users(loc[c].pending)
             joined == Appended(Tracked(loc[c], entries), entries)
  <2>1. entries \in Seq(Entry)
    BY <1>1, UsersType
  <2>2. loc'[c] = [joined EXCEPT !.pending = <<>>] /\ pc[c] = "inject" /\ pc'[c] = "request"
    BY <1>1, <1>5 DEF Inject, Goto, TypeOK
  <2>3. joined \in Local /\ ContextOf(joined) /\ ~joined.added
    BY <1>1, <1>3, <2>1, <2>2, ContextJoins
  <2> HIDE DEF joined
  <2>4. SameContext(loc'[c], joined)
    BY <2>2, <2>3 DEF SameContext, Local
  <2>5. QED
    BY <1>2, <2>2, <2>3, <2>4, ContextStays
<1>6. ASSUME NEW terminate \in BOOLEAN, Tools(c, terminate) PROVE ContextInv'
  <2> DEFINE entries == <<ToolResults>>
             joined == Appended(Tracked(loc[c], entries), entries)
  <2>1. entries \in Seq(Entry)
    BY EntryTypes
  <2>2. loc'[c] = [joined EXCEPT !.more = ~terminate] /\ pc[c] = "tools" /\ pc'[c] = "finish"
    BY <1>1, <1>6 DEF Tools, Goto, TypeOK
  <2>3. joined \in Local /\ ContextOf(joined) /\ ~joined.added
    BY <1>1, <1>3, <2>1, <2>2, ContextJoins
  <2> HIDE DEF joined
  <2>4. SameContext(loc'[c], joined)
    BY <2>2, <2>3 DEF SameContext, Local
  <2>5. QED
    BY <1>2, <2>2, <2>3, <2>4, ContextStays
<1>7. CASE Request(c)
  <2>1. CASE ~HookFails(c)
    <3>1. \E l \in {loc[c], Replaced(loc[c])} :
            loc' = [loc EXCEPT ![c] = [l EXCEPT !.added = FALSE, !.promised = FALSE]]
      BY <1>1, <1>7, <2>1 DEF Request
    <3>2. pc[c] = "request" /\ pc'[c] = "stream"
      BY <1>7, <2>1 DEF Request, Goto, TypeOK
    <3>3. ContextOf(loc[c]) /\ ~loc[c].added
      BY <1>3, <3>2
    <3>4. /\ Replaced(loc[c]) \in Local /\ ContextOf(Replaced(loc[c]))
          /\ ~Replaced(loc[c]).added
      BY <1>1, <3>3, ContextReplaced
    <3>5. \A l \in Local : ~l.added =>
            SameContext([l EXCEPT !.added = FALSE, !.promised = FALSE], l)
      BY DEF SameContext, Local
    <3>6. \E l \in {loc[c], Replaced(loc[c])} : SameContext(loc'[c], l)
      BY <1>1, <3>1, <3>3, <3>4, <3>5
    <3>7. QED
      BY <1>2, <3>2, <3>3, <3>4, <3>6, ContextStays
  <2>2. QED
    BY <2>1, ContextEnds
<1>8. ASSUME NEW decision \in {"none", "continue", "end"}, FinishTurn(c, decision)
      PROVE  ContextInv'
  <2>1. CASE ~HookFails(c)
    <3>1. loc' = [loc EXCEPT ![c] = [loc[c] EXCEPT !.explicit = (decision = "continue"),
                                                  !.promised = (decision = "continue")]]
      BY <1>1, <1>8, <2>1 DEF FinishTurn
    <3>2. \A b : SameContext([loc[c] EXCEPT !.explicit = b, !.promised = b], loc[c])
      BY <1>1 DEF SameContext, Local
    <3>3. SameContext(loc'[c], loc[c])
      BY <1>1, <3>1, <3>2
    <3>4. pc[c] = "finish" /\ pc'[c] \in {"ended", "steer"}
      BY <1>8, <2>1 DEF FinishTurn, Goto, TypeOK
    <3>5. QED
      BY <1>2, <1>3, <3>3, <3>4, ContextStays, ContextLeaves
  <2>2. QED
    BY <2>1, ContextEnds
<1>9. CASE StreamStart(c)
  <2>1. /\ pc[c] = "stream" /\ pc'[c] = "stream" /\ ~loc[c].added
        /\ loc'[c] = [loc[c] EXCEPT !.added = TRUE, !.ctx = Append(loc[c].ctx, Assistant("done"))]
    BY <1>1, <1>9 DEF StreamStart
  <2>2. ContextOf(loc[c])
    BY <1>2, <2>1 DEF ContextInv, ContextAt
  <2>3. ContextOf(loc'[c])
    BY <1>1, <2>1, <2>2, ContextPartial
  <2>4. ContextAt(c)'
    BY <2>1, <2>3 DEF ContextAt
  <2>5. QED
    BY <2>4, ContextMove
<1>10. ASSUME NEW stop \in Outcomes(c), NEW calls \in BOOLEAN, Finalize(c, stop, calls)
       PROVE  ContextInv'
  <2> DEFINE final == Assistant(stop)
             tracked == Tracked(loc[c], <<final>>)
  <2>1. final \in Entry /\ <<final>> \in Seq(Entry)
    BY <1>10, FinalType DEF Outcomes, Stops
  <2>2. tracked \in Local
    BY <1>1, <2>1, TrackedType
  <2>3. /\ tracked.seed = loc[c].seed /\ tracked.since = loc[c].since
        /\ tracked.tracked = loc[c].tracked \o <<final>>
    BY <1>1 DEF Tracked, Local
  <2>4. /\ pc[c] = "stream" /\ pc'[c] \in {"terminal", "tools", "finish"}
        /\ loc'[c] = [tracked EXCEPT !.ctx = Finalized(loc[c], final),
                       !.new = Append(loc[c].new, final), !.added = FALSE, !.stop = stop,
                       !.turns = loc[c].turns + 1, !.more = FALSE]
    BY <1>1, <1>10 DEF Finalize, Goto, TypeOK
  <2> HIDE DEF final, tracked
  <2>5. /\ loc'[c].ctx = Finalized(loc[c], final) /\ ~loc'[c].added
        /\ loc'[c].seed = tracked.seed /\ loc'[c].since = tracked.since
        /\ loc'[c].tracked = tracked.tracked
    BY <2>2, <2>4 DEF Local
  <2>6. ContextOf(loc[c])
    BY <1>2, <2>4 DEF ContextInv, ContextAt
  <2>7. ContextOf(loc'[c])
    BY <1>1, <2>1, <2>3, <2>5, <2>6, ContextFinal
  <2>8. QED
    BY <1>2, <2>4, <2>5, <2>7, ContextStays DEF SameContext
<1>11. QED
  BY <1>4, <1>5, <1>6, <1>7, <1>8, <1>9, <1>10 DEF OutsideStep

(* Every step preserves the invariant. *)
LEMMA ContextStep ==
  ASSUME TypeOK, TypeOK', SingleRun, SingleRun', ContextInv, [Next]_vars
  PROVE  ContextInv'
<1> USE AgentRunAssumption
<1>1. CASE UNCHANGED <<pc, loc>>
  BY <1>1 DEF ContextInv, ContextAt, ContextOf, Settling
<1>2. ASSUME NEW c \in Callers, Acquire(c), pc'[c] \in {"flags", "launch"},
             loc'[c].since = 0, loc'[c].tracked = <<>>, ~loc'[c].added
      PROVE  ContextInv'
  <2>1. \A d \in Callers : d # c => pc'[d] \notin Owning
    BY <1>2 DEF Acquire, SingleRun
  <2>2. pc'[c] \notin Looping
    BY <1>2 DEF Looping, Launched
  <2>3. {"flags", "launch"} \subseteq Owning /\ Looping \subseteq Owning
    BY DEF Looping, Launched, Owning, PCs
  <2>4. QED
    BY <1>2, <2>1, <2>2, <2>3 DEF ContextInv, ContextAt
<1>3. CASE Caller
  <2>1. ASSUME NEW m \in Msgs, Steer(m) \/ FollowUp(m) \/ PushMessage(m) PROVE ContextInv'
    BY <1>1, <2>1 DEF Steer, FollowUp, PushMessage
  <2>2. ASSUME NEW mode \in QueueModes, SetSteeringMode(mode) \/ SetFollowUpMode(mode)
        PROVE  ContextInv'
    BY <1>1, <2>2 DEF SetSteeringMode, SetFollowUpMode
  <2>3. CASE \/ ClearQueues \/ Abort \/ Reset
             \/ PopLastIfAssistant \/ ReplaceLastAssistant \/ ReplaceMessages
    BY <1>1, <2>3 DEF ClearQueues, Abort, Reset, PopLastIfAssistant, ReplaceLastAssistant,
       ReplaceMessages
  <2>4. \A l : /\ \/ l = [NoRun EXCEPT !.mode = "continue"]
                  \/ \E q : l = [NoRun EXCEPT !.prompts = q, !.skip = TRUE]
                  \/ \E q : l = [NoRun EXCEPT !.prompts = q]
               => l.since = 0 /\ l.tracked = <<>> /\ ~l.added
    BY DEF NoRun
  <2>5. ASSUME NEW c \in Callers, ContinueRun(c) PROVE ContextInv'
    <3>1. loc \in [Callers -> Local] /\ pc \in [Callers -> PCs]
      BY DEF TypeOK
    <3>2. \/ loc'[c] = [NoRun EXCEPT !.mode = "continue"]
          \/ loc'[c] = [NoRun EXCEPT !.prompts = Drained(steering, steeringMode),
                                     !.skip = TRUE]
          \/ loc'[c] = [NoRun EXCEPT !.prompts = Drained(followUp, followUpMode)]
      BY <2>5, <3>1 DEF ContinueRun
    <3>3. Acquire(c) /\ pc'[c] = "launch"
      BY <2>5, <3>1 DEF ContinueRun, Goto
    <3>4. QED
      BY <1>2, <2>4, <3>2, <3>3
  <2>6. ASSUME NEW c \in Callers, NEW m \in Msgs, Prompt(c, m) PROVE ContextInv'
    <3>1. Acquire(c) /\ pc'[c] = "flags" /\ loc'[c] = [NoRun EXCEPT !.prompts = <<m>>]
      BY <2>6 DEF Prompt, Goto, TypeOK
    <3>2. QED
      BY <1>2, <2>4, <3>1
  <2>7. QED
    BY <1>3, <2>1, <2>2, <2>3, <2>5, <2>6 DEF Caller
<1>4. ASSUME NEW c \in Callers, LoopStep(c) \/ OutsideStep(c) PROVE ContextInv'
  <2>1. CASE Release(c)
    BY <2>1 DEF Release, SingleRun, ContextInv, ContextAt, Looping, Launched, Owning, PCs
  <2>2. CASE NotifyWaiters(c)
    <3>1. UNCHANGED loc /\ \A d \in Callers : pc'[d] = pc[d] \/ pc'[d] = "idle"
      BY <2>2 DEF NotifyWaiters, Goto, TypeOK
    <3>2. "idle" \notin Looping
      BY DEF Looping, Launched, Owning, PCs
    <3>3. QED
      BY <3>1, <3>2 DEF ContextInv, ContextAt
  <2>3. CASE ~Release(c) /\ ~NotifyWaiters(c)
    <3>1. Moves(c)
      BY <1>4, <2>3, LoopMoves
    <3>2. QED
      BY <1>4, <2>3, <3>1, ContextBetween, ContextOpens, ContextTurn DEF LoopStep
  <2>4. QED
    BY <2>1, <2>2, <2>3
<1>5. ASSUME NEW w \in Waiters, WaitArm(w) \/ WaitCheck(w) \/ WaitSleep(w) \/ WaitWake(w)
      PROVE  ContextInv'
  BY <1>1, <1>5 DEF WaitArm, WaitCheck, WaitSleep, WaitWake
<1>6. CASE UNCHANGED vars
  BY <1>1, <1>6 DEF vars
<1>7. QED
  BY <1>3, <1>4, <1>5, <1>6 DEF Next

(* What the loop sends to the provider follows the transcript: the context *)
(* of every request is the one a snapshot or a hook installed last and     *)
(* every message published since, in order, and the final assistant        *)
(* message replaces the partial it finalizes instead of following it.      *)
THEOREM ContextFollowsTranscriptHolds == Spec => []ContextFollowsTranscript
<1>1. Init => ContextInv
  BY DEF Init, ContextInv, ContextAt, Looping, Launched, Owning, PCs
<1>2. ContextInv => ContextFollowsTranscript
  BY DEF ContextInv, ContextAt, ContextOf, Settling, ContextFollowsTranscript, Looping
<1>3. QED
  BY <1>1, <1>2, ContextStep, TypeCorrect, SingleRunHolds, PTL DEF Spec

-----------------------------------------------------------------------------
(* Counting messages: how often a sequence holds one, and how the          *)
(* operators of the model change that.                                     *)

(* A sequence holds a message a finite number of times. *)
LEMMA CountType ==
  ASSUME NEW S, NEW s \in Seq(S), NEW m
  PROVE  /\ IsFiniteSet({i \in DOMAIN s : s[i] = m})
         /\ Occurrences(s, m) \in Nat
<1>1. Len(s) \in Nat /\ DOMAIN s = 1..Len(s)
  BY LenProperties
<1>2. IsFiniteSet(1..Len(s))
  BY <1>1, FS_Interval
<1>3. IsFiniteSet({i \in DOMAIN s : s[i] = m})
  <2>1. {i \in DOMAIN s : s[i] = m} \in SUBSET (1..Len(s))
    BY <1>1
  <2>2. QED
    BY <1>2, <2>1, FS_Subset
<1>4. QED
  BY <1>3, FS_CardinalityType DEF Occurrences

(* It holds none exactly when the message is not among its elements. *)
LEMMA CountZero ==
  ASSUME NEW S, NEW s \in Seq(S), NEW m
  PROVE  Occurrences(s, m) = 0 <=> m \notin Elements(s)
<1>1. Occurrences(s, m) = 0 <=> {i \in DOMAIN s : s[i] = m} = {}
  BY CountType, FS_EmptySet DEF Occurrences
<1>2. {i \in DOMAIN s : s[i] = m} = {} <=> m \notin Elements(s)
  BY DEF Elements
<1>3. QED
  BY <1>1, <1>2

(* The empty sequence and a sequence of one. *)
LEMMA CountFew ==
  ASSUME NEW m, NEW x
  PROVE  /\ Occurrences(<<>>, m) = 0
         /\ Occurrences(<<x>>, m) = IF x = m THEN 1 ELSE 0
<1>1. {i \in DOMAIN <<>> : <<>>[i] = m} = {}
  OBVIOUS
<1>2. {i \in DOMAIN <<x>> : <<x>>[i] = m} = IF x = m THEN {1} ELSE {}
  OBVIOUS
<1>3. QED
  BY <1>1, <1>2, FS_EmptySet, FS_Singleton DEF Occurrences

(* Concatenation adds the counts. *)
LEMMA CountConcat ==
  ASSUME NEW S, NEW s \in Seq(S), NEW t \in Seq(S), NEW m
  PROVE  Occurrences(s \o t, m) = Occurrences(s, m) + Occurrences(t, m)
<1> DEFINE whole == s \o t
           all == {i \in DOMAIN whole : whole[i] = m}
           left == {i \in DOMAIN s : s[i] = m}
           right == {i \in DOMAIN t : t[i] = m}
           moved == {i \in Len(s) + 1..Len(s) + Len(t) : t[i - Len(s)] = m}
<1>1. /\ Len(s) \in Nat /\ Len(t) \in Nat /\ DOMAIN s = 1..Len(s) /\ DOMAIN t = 1..Len(t)
      /\ DOMAIN whole = 1..Len(s) + Len(t)
      /\ \A i \in 1..Len(s) + Len(t) :
           whole[i] = IF i <= Len(s) THEN s[i] ELSE t[i - Len(s)]
  <2>1. whole \in Seq(S) /\ Len(whole) = Len(s) + Len(t)
    BY ConcatProperties
  <2>2. DOMAIN whole = 1..Len(whole)
    BY <2>1, LenProperties
  <2>3. QED
    BY <2>1, <2>2, ConcatProperties, LenProperties
<1> HIDE DEF whole
<1>2. all = left \cup moved /\ left \cap moved = {}
  BY <1>1
<1>3. IsFiniteSet(left) /\ IsFiniteSet(right)
  BY CountType
<1>4. ExistsBijection(right, moved)
  <2> DEFINE shift == [i \in right |-> i + Len(s)]
  <2>1. shift \in [right -> moved]
    BY <1>1
  <2>2. \A a, b \in right : shift[a] = shift[b] => a = b
    BY <1>1
  <2>3. ASSUME NEW i \in moved PROVE \E a \in right : shift[a] = i
    <3>1. i - Len(s) \in right /\ shift[i - Len(s)] = i
      BY <1>1, <2>3
    <3>2. QED
      BY <3>1
  <2> HIDE DEF shift, right, moved
  <2>4. shift \in Bijection(right, moved)
    BY <2>1, <2>2, <2>3, Fun_IsBij
  <2>5. QED
    BY <2>4 DEF ExistsBijection
<1> HIDE DEF left, right, moved, all
<1>5. IsFiniteSet(moved) /\ Cardinality(moved) = Cardinality(right)
  BY <1>3, <1>4, FS_Bijection
<1>6. Cardinality(left \cup moved)
        = Cardinality(left) + Cardinality(moved) - Cardinality(left \cap moved)
  BY <1>3, <1>5, FS_Union
<1>7. Cardinality(left \cap moved) = 0
  BY <1>2, FS_EmptySet
<1>8. Cardinality(left) \in Nat /\ Cardinality(right) \in Nat
  BY <1>3, FS_CardinalityType
<1>9. Cardinality(all) = Cardinality(left) + Cardinality(right)
  BY <1>2, <1>5, <1>6, <1>7, <1>8
<1>10. QED
  BY <1>9 DEF Occurrences, all, left, right, whole

(* drain hands out every message of the queue or leaves it there. *)
LEMMA CountDrain ==
  ASSUME NEW q \in Seq(Msgs), NEW mode, NEW m
  PROVE  Occurrences(q, m)
           = Occurrences(Drained(q, mode), m) + Occurrences(Remaining(q, mode), m)
<1>1. Occurrences(q, m) \in Nat /\ Occurrences(<<>>, m) = 0
  BY CountType, CountFew
<1>2. CASE mode = All \/ q = <<>>
  BY <1>1, <1>2 DEF Drained, Remaining
<1>3. CASE ~(mode = All \/ q = <<>>)
  <2>1. <<Head(q)>> \in Seq(Msgs) /\ Tail(q) \in Seq(Msgs)
    BY <1>3, HeadTailProperties
  <2>2. q = <<Head(q)>> \o Tail(q)
    BY <1>3
  <2>3. Occurrences(<<Head(q)>> \o Tail(q), m)
          = Occurrences(<<Head(q)>>, m) + Occurrences(Tail(q), m)
    BY <2>1, CountConcat
  <2>4. QED
    BY <1>3, <2>2, <2>3 DEF Drained, Remaining
<1>4. QED
  BY <1>2, <1>3

(* A message and its transcript entry. *)
LEMMA CountUsers ==
  ASSUME NEW q \in Seq(Msgs), NEW m
  PROVE  Occurrences(Users(q), User(m)) = Occurrences(q, m)
<1>1. DOMAIN Users(q) = DOMAIN q /\ \A i \in DOMAIN q : Users(q)[i] = User(q[i])
  BY DEF Users
<1>2. \A x, y : User(x) = User(y) => x = y
  BY DEF User
<1>3. {i \in DOMAIN Users(q) : Users(q)[i] = User(m)} = {i \in DOMAIN q : q[i] = m}
  BY <1>1, <1>2
<1>4. QED
  BY <1>3 DEF Occurrences

(* The user messages of a transcript are those it holds an entry of. *)
LEMMA CountUserIds ==
  ASSUME NEW s \in Seq(Entry), NEW m \in Msgs
  PROVE  Occurrences(s, User(m)) = 0 <=> m \notin UserIds(s)
<1>1. Occurrences(s, User(m)) = 0 <=> User(m) \notin Elements(s)
  BY CountZero
<1>2. m # NoMsg
  BY AgentRunAssumption
<1>3. \A i \in DOMAIN s : s[i] = User(m) <=> s[i].role = "user" /\ s[i].id = m
  <2>1. \A i \in DOMAIN s : s[i] \in Entry
    BY LenProperties, ElementOfSeq
  <2>2. \A e \in Entry : e = User(m) <=> e.role = "user" /\ e.id = m
    BY DEF Entry, User
  <2>3. QED
    BY <2>1, <2>2
<1>4. User(m) \in Elements(s) <=> m \in UserIds(s)
  BY <1>2, <1>3 DEF Elements, UserIds
<1>5. QED
  BY <1>1, <1>4

(* The entries that carry no user message. *)
LEMMA NotAMessage ==
  ASSUME NEW m \in Msgs
  PROVE  /\ \A stop : Assistant(stop) # User(m)
         /\ ToolResults # User(m) /\ Summary # User(m)
  BY AgentRunAssumption DEF Assistant, ToolResults, Summary, User

(* Membership in the sets of cleared and dropped messages. *)
LEMMA MarkCount ==
  ASSUME NEW m, NEW A
  PROVE  Cardinality({m} \cap A) = IF m \in A THEN 1 ELSE 0
<1>1. {m} \cap A = IF m \in A THEN {m} ELSE {}
  OBVIOUS
<1>2. QED
  BY <1>1, FS_EmptySet, FS_Singleton

-----------------------------------------------------------------------------
(* Where a run holds messages.  Prompts wait for the launch only, polled   *)
(* messages for the turn they open, prepared ones for the same turn, so a  *)
(* poll never overwrites a message that was not delivered.                 *)

Carrying == {"inject", "steered", "prepare", "prepared", "polled", "failed", "ended"}

HeldAt(c) ==
  /\ pc[c] \in Launched => loc[c].prompts = <<>>
  /\ pc[c] \in Owning \ Carrying => loc[c].pending = <<>>
  /\ pc[c] \in Owning \ {"prepared", "polled", "ended"} => loc[c].prepared = <<>>
  /\ (pc[c] \in {"flags", "launch"} /\ loc[c].mode = "continue") => loc[c].prompts = <<>>

HeldInv == \A c \in Callers : HeldAt(c)

SameHeld(l, k) ==
  l.prompts = k.prompts /\ l.pending = k.pending /\ l.prepared = k.prepared /\ l.mode = k.mode

(* What a step of c's run does to the messages in flight: nothing, ... *)
FlowsQuiet(c) ==
  /\ \E entries \in Seq(Entry) :
       UserIds(entries) = {} /\ agent'.messages = agent.messages \o entries
  /\ SameHeld(loc'[c], loc[c])
  /\ UNCHANGED <<steering, followUp, sent>>

(* ... all that the run holds joins the transcript, ... *)
FlowsOut(c) ==
  /\ agent'.messages
       = agent.messages \o Users((loc[c].prompts \o loc[c].prepared) \o loc[c].pending)
  /\ loc'[c].prompts = <<>> /\ loc'[c].pending = <<>> /\ loc'[c].prepared = <<>>
  /\ UNCHANGED <<steering, followUp, sent>>

(* ... the front of a queue becomes the pending messages, ... *)
FlowsIn(c, queue) ==
  \E q \in Seq(Msgs), r \in Seq(Msgs) :
    /\ queue = q \o r /\ queue' = r
    /\ loc[c].pending = <<>> /\ loc'[c].pending = q
    /\ loc'[c].prompts = loc[c].prompts /\ loc'[c].prepared = loc[c].prepared
    /\ UNCHANGED <<agent, sent>>

(* ... or a hook hands over a new message. *)
FlowsNew(c) ==
  \E injected \in {<<>>} \cup {<<m>> : m \in Msgs \ sent} :
    /\ sent' = sent \cup Elements(injected)
    /\ loc[c].prepared = <<>> /\ loc'[c].prepared = injected
    /\ loc'[c].prompts = loc[c].prompts /\ loc'[c].pending = loc[c].pending
    /\ UNCHANGED <<agent, steering, followUp>>

Flows(c) ==
  \/ FlowsQuiet(c) \/ FlowsOut(c) \/ FlowsNew(c)
  \/ FlowsIn(c, steering) /\ UNCHANGED followUp
  \/ FlowsIn(c, followUp) /\ UNCHANGED steering

(* drain splits the queue. *)
LEMMA DrainSplits ==
  ASSUME NEW q \in Seq(Msgs), NEW mode
  PROVE  q = Drained(q, mode) \o Remaining(q, mode)
<1>1. CASE mode = All \/ q = <<>>
  BY <1>1, ConcatEmptySeq DEF Drained, Remaining
<1>2. CASE ~(mode = All \/ q = <<>>)
  BY <1>2 DEF Drained, Remaining
<1>3. QED
  BY <1>1, <1>2

(* Entries without a user message. *)
LEMMA NoUsers ==
  /\ UserIds(<<>>) = {} /\ UserIds(<<ToolResults>>) = {}
  /\ \A stop : UserIds(<<Assistant(stop)>>) = {}
BY DEF UserIds, ToolResults, Assistant

(* A step that publishes nothing and holds what it held. *)
LEMMA QuietFlows ==
  ASSUME TypeOK, NEW c \in Callers, agent'.messages = agent.messages,
         SameHeld(loc'[c], loc[c]), UNCHANGED <<steering, followUp, sent>>
  PROVE  Flows(c)
<1>1. agent.messages \o <<>> = agent.messages /\ <<>> \in Seq(Entry)
  BY ConcatEmptySeq, EmptySeq DEF TypeOK
<1>2. QED
  BY <1>1, NoUsers DEF Flows, FlowsQuiet

(* What the run holds survives the joining of other messages and the       *)
(* replacement of the context.                                             *)
LEMMA HeldKept ==
  ASSUME NEW l \in Local, NEW entries \in Seq(Entry)
  PROVE  /\ SameHeld(Tracked(l, entries), l)
         /\ SameHeld(Appended(Tracked(l, entries), entries), l)
         /\ SameHeld(Replaced(l), l)
<1>1. Tracked(l, entries) \in Local /\ SameHeld(Tracked(l, entries), l)
  <2>1. \A a, b : SameHeld([l EXCEPT !.tracked = a, !.terminal = b], l)
    BY DEF Local, SameHeld
  <2>2. QED
    BY <2>1, TrackedType DEF Tracked
<1>2. \A k \in Local : SameHeld(Appended(k, entries), k)
  BY DEF Appended, Local, SameHeld
<1>3. SameHeld(Replaced(l), l)
  BY DEF Replaced, Local, SameHeld
<1>4. QED
  BY <1>1, <1>2, <1>3 DEF SameHeld

(* What a launched position asks of the locals. *)
LEMMA HeldThere ==
  ASSUME NEW c, pc'[c] \in Launched, loc'[c].prompts = <<>>,
         pc'[c] \in Carrying \/ loc'[c].pending = <<>>,
         pc'[c] \in {"prepared", "polled", "ended"} \/ loc'[c].prepared = <<>>
  PROVE  HeldAt(c)'
BY DEF HeldAt, Launched

(* End and HookFails publish no message. *)
LEMMA EndFlows ==
  ASSUME TypeOK, NEW c \in Callers, loc[c].prompts = <<>>,
         End(c) \/ (HookFails(c) /\ loc[c].prepared = <<>>),
         UNCHANGED <<steering, followUp, sent>>
  PROVE  Flows(c) /\ HeldAt(c)'
<1>1. agent'.messages = agent.messages /\ UNCHANGED loc
  BY DEF End, HookFails, TypeOK
<1>2. pc'[c] = "ended" \/ (pc'[c] = "failed" /\ loc[c].prepared = <<>>)
  BY DEF End, HookFails, Goto, TypeOK
<1>3. Flows(c)
  BY <1>1, QuietFlows DEF SameHeld
<1>4. HeldAt(c)'
  BY <1>1, <1>2, HeldThere DEF Launched, Owning, PCs, Carrying
<1>5. QED
  BY <1>3, <1>4

(* A steering poll that finds nothing pending. *)
LEMMA PollFlows ==
  ASSUME TypeOK, NEW c \in Callers, loc[c].prompts = <<>>, loc[c].pending = <<>>,
         NEW next \in Launched \cap Carrying, PollSteering(c, next),
         next = "polled" \/ loc[c].prepared = <<>>
  PROVE  Flows(c) /\ HeldAt(c)'
<1>1. /\ loc \in [Callers -> Local] /\ loc[c] \in Local /\ steering \in Seq(Msgs)
      /\ <<>> \in Seq(Msgs)
  BY EmptySeq DEF TypeOK
<1> DEFINE q == IF SkipsPoll(loc[c]) THEN <<>> ELSE Drained(steering, steeringMode)
           r == IF SkipsPoll(loc[c]) THEN steering ELSE Remaining(steering, steeringMode)
<1>2. q \in Seq(Msgs) /\ r \in Seq(Msgs) /\ steering = q \o r
  BY <1>1, DrainType, DrainSplits, ConcatEmptySeq
<1>3. steering' = r /\ loc'[c] = [loc[c] EXCEPT !.pending = q, !.skip = FALSE]
  BY <1>1 DEF PollSteering
<1> HIDE DEF q, r
<1>4. /\ loc'[c].pending = q /\ loc'[c].prompts = loc[c].prompts
      /\ loc'[c].prepared = loc[c].prepared
  BY <1>1, <1>3 DEF Local
<1>5. UNCHANGED <<agent, sent, followUp>> /\ pc'[c] = next
  BY DEF PollSteering, histVars, Goto, TypeOK
<1>6. Flows(c)
  BY <1>2, <1>3, <1>4, <1>5 DEF Flows, FlowsIn
<1>7. HeldAt(c)'
  BY <1>4, <1>5, HeldThere
<1>8. QED
  BY <1>6, <1>7

(* A later turn opens with all that the run holds. *)
LEMMA OpenTurnFlows ==
  ASSUME TypeOK, NEW c \in Callers, loc[c].prompts = <<>>, OpenTurn(c),
         UNCHANGED <<steering, followUp, sent>>
  PROVE  Flows(c) /\ HeldAt(c)'
<1> DEFINE entries == Users(loc[c].prepared \o loc[c].pending)
           joined == Appended(Tracked(loc[c], entries), entries)
<1>1. /\ loc \in [Callers -> Local] /\ loc[c] \in Local
      /\ loc[c].prepared \in Seq(Msgs) /\ loc[c].pending \in Seq(Msgs)
  BY DEF TypeOK, Local
<1>2. entries \in Seq(Entry)
  BY <1>1, UsersType, ConcatProperties
<1>3. joined \in Local /\ SameHeld(joined, loc[c])
  BY <1>1, <1>2, JoinType, HeldKept
<1>4. /\ loc'[c] = [joined EXCEPT !.pending = <<>>, !.prepared = <<>>]
      /\ agent' = Published(agent, entries) /\ pc'[c] = "request"
  BY <1>1 DEF OpenTurn, Goto, TypeOK
<1>5. agent'.messages = agent.messages \o entries
  BY <1>4 DEF Published, TypeOK
<1> HIDE DEF joined
<1>6. loc'[c].prompts = <<>> /\ loc'[c].pending = <<>> /\ loc'[c].prepared = <<>>
  BY <1>3, <1>4 DEF Local, SameHeld
<1>7. (loc[c].prompts \o loc[c].prepared) \o loc[c].pending = loc[c].prepared \o loc[c].pending
  BY <1>1, ConcatEmptySeq
<1>8. Flows(c)
  BY <1>5, <1>6, <1>7 DEF Flows, FlowsOut
<1>9. HeldAt(c)'
  BY <1>4, <1>6, HeldThere DEF Launched, Owning, PCs
<1>10. QED
  BY <1>8, <1>9

(* Steps of a run between its turns. *)
LEMMA FlowBetween ==
  ASSUME TypeOK, NEW c \in Callers, HeldAt(c),
         \/ Prepare(c) \/ Prepared(c) \/ Polled(c) \/ FirstPoll(c)
         \/ SteerPoll(c) \/ Steered(c) \/ FollowUpPoll(c)
  PROVE  Flows(c) /\ HeldAt(c)'
<1>1. /\ loc \in [Callers -> Local] /\ loc[c] \in Local /\ <<>> \in Seq(Entry)
      /\ followUp \in Seq(Msgs) /\ loc[c].pending \in Seq(Msgs)
  BY EmptySeq DEF TypeOK, Local
<1>2. loc[c].prompts = <<>> /\ pc[c] \in Launched
  BY DEF Prepare, Prepared, Polled, FirstPoll, SteerPoll, Steered, FollowUpPoll, HeldAt,
     Launched, Owning, PCs
<1>3. CASE FirstPoll(c) \/ SteerPoll(c)
  <2>1. loc[c].pending = <<>> /\ loc[c].prepared = <<>>
    BY <1>3 DEF FirstPoll, SteerPoll, HeldAt, Launched, Owning, PCs, Carrying
  <2>2. QED
    BY <1>2, <1>3, <2>1, PollFlows DEF FirstPoll, SteerPoll, Launched, Owning, PCs, Carrying
<1>4. CASE Prepare(c)
  <2>1. UNCHANGED <<steering, followUp>> /\ loc[c].prepared = <<>>
    BY <1>4 DEF Prepare, queueVars, HeldAt, Owning, PCs
  <2>2. CASE (End(c) \/ HookFails(c)) /\ UNCHANGED sent
    BY <1>2, <2>1, <2>2, EndFlows
  <2>3. CASE ~((End(c) \/ HookFails(c)) /\ UNCHANGED sent)
    <3>1. PICK kept \in {TRUE, "replace" \notin HookPowers},
               injected \in {<<>>} \cup
                    (IF "inject" \in HookPowers THEN {<<m>> : m \in Msgs \ sent} ELSE {}) :
                 /\ loc' = [loc EXCEPT ![c] =
                              [(IF kept THEN @ ELSE Replaced(@)) EXCEPT !.prepared = injected]]
                 /\ sent' = sent \cup Elements(injected)
      BY <1>4, <2>3 DEF Prepare
    <3>2. pc'[c] = "prepared" /\ UNCHANGED agent
      BY <1>4, <2>3 DEF Prepare, Goto, TypeOK
    <3> DEFINE l == IF kept THEN loc[c] ELSE Replaced(loc[c])
    <3>3. l \in Local /\ SameHeld(l, loc[c])
      <4>1. Replaced(loc[c]) \in Local /\ SameHeld(Replaced(loc[c]), loc[c])
        BY <1>1, ReplacedType, HeldKept
      <4>2. SameHeld(loc[c], loc[c])
        BY DEF SameHeld
      <4>3. QED
        BY <1>1, <4>1, <4>2
    <3>4. loc'[c] = [l EXCEPT !.prepared = injected]
      BY <1>1, <3>1
    <3> HIDE DEF l
    <3>5. /\ loc'[c].prepared = injected /\ loc'[c].prompts = loc[c].prompts
          /\ loc'[c].pending = loc[c].pending
      BY <3>3, <3>4 DEF Local, SameHeld
    <3>6. injected \in {<<>>} \cup {<<m>> : m \in Msgs \ sent}
      OBVIOUS
    <3>7. FlowsNew(c)
      BY <2>1, <3>1, <3>2, <3>5, <3>6 DEF FlowsNew
    <3>8. HeldAt(c)'
      BY <1>2, <3>2, <3>5, HeldThere DEF Launched, Owning, PCs, Carrying
    <3>9. QED
      BY <3>7, <3>8 DEF Flows
  <2>4. QED
    BY <2>2, <2>3
<1>5. CASE Prepared(c)
  <2>1. CASE PollSteering(c, "polled")
    <3>1. CASE loc[c].pending = <<>>
      BY <1>2, <2>1, <3>1, PollFlows DEF Launched, Owning, PCs, Carrying
    <3>2. CASE loc[c].pending # <<>>
      <4>1. /\ End(c) \/ OpenTurn(c)
            /\ UNCHANGED <<steering, followUp, sent>>
        BY <1>5, <3>2 DEF Prepared, queueVars, histVars
      <4>2. QED
        BY <1>2, <4>1, EndFlows, OpenTurnFlows
    <3>3. QED
      BY <3>1, <3>2
  <2>2. CASE ~PollSteering(c, "polled")
    <3>1. (End(c) \/ OpenTurn(c)) /\ UNCHANGED <<steering, followUp, sent>>
      BY <1>5, <2>2 DEF Prepared, queueVars, histVars
    <3>2. QED
      BY <1>2, <3>1, EndFlows, OpenTurnFlows
  <2>3. QED
    BY <2>1, <2>2
<1>6. CASE Polled(c)
  <2>1. (End(c) \/ OpenTurn(c)) /\ UNCHANGED <<steering, followUp, sent>>
    BY <1>6 DEF Polled, queueVars, histVars
  <2>2. QED
    BY <1>2, <2>1, EndFlows, OpenTurnFlows
<1>7. CASE Steered(c)
  <2>1. UNCHANGED <<steering, followUp, sent>> /\ loc[c].prepared = <<>>
    BY <1>7 DEF Steered, queueVars, histVars, HeldAt, Owning, PCs
  <2>2. CASE End(c)
    BY <1>2, <2>1, <2>2, EndFlows
  <2>3. CASE ~End(c)
    <3>1. /\ loc' = [loc EXCEPT ![c] =
                       [loc[c] EXCEPT !.explicit = loc[c].explicit /\ ~NaturalRequest(loc[c])]]
          /\ pc'[c] = IF NaturalRequest(loc[c]) THEN "prepare" ELSE "follow"
          /\ UNCHANGED agent
      BY <1>1, <1>7, <2>3 DEF Steered, Goto, TypeOK
    <3>2. \A b : SameHeld([loc[c] EXCEPT !.explicit = b], loc[c])
      BY <1>1 DEF SameHeld, Local
    <3>3. SameHeld(loc'[c], loc[c])
      BY <1>1, <3>1, <3>2
    <3>4. pc'[c] = "prepare" \/ (pc'[c] = "follow" /\ loc[c].pending = <<>>)
      BY <3>1 DEF NaturalRequest
    <3>5. HeldAt(c)'
      BY <1>2, <2>1, <3>3, <3>4, HeldThere DEF SameHeld, Launched, Owning, PCs, Carrying
    <3>6. QED
      BY <2>1, <3>1, <3>3, <3>5, QuietFlows
  <2>4. QED
    BY <2>2, <2>3
<1>8. CASE FollowUpPoll(c)
  <2> DEFINE q == Drained(followUp, followUpMode)
             r == Remaining(followUp, followUpMode)
  <2>1. /\ loc[c].pending = <<>> /\ loc[c].prepared = <<>>
        /\ UNCHANGED <<steering, sent>> /\ followUp' = r
    BY <1>8 DEF FollowUpPoll, histVars, HeldAt, Owning, PCs, Carrying
  <2>2. q \in Seq(Msgs) /\ r \in Seq(Msgs) /\ followUp = q \o r
    BY <1>1, DrainType, DrainSplits
  <2>3. CASE q = <<>> /\ End(c)
    <3>1. followUp' = followUp
      BY <2>1, <2>2, <2>3, ConcatEmptySeq
    <3>2. QED
      BY <1>2, <2>1, <2>3, <3>1, EndFlows
  <2>4. CASE ~(q = <<>> /\ End(c))
    <3>1. /\ loc' = [loc EXCEPT ![c] = [loc[c] EXCEPT !.pending = q, !.explicit = FALSE,
                                                     !.more = TRUE]]
          /\ pc'[c] = "prepare" /\ UNCHANGED agent
      BY <1>1, <1>8, <2>4 DEF FollowUpPoll, Goto, TypeOK
    <3> HIDE DEF q, r
    <3>2. loc'[c] = [loc[c] EXCEPT !.pending = q, !.explicit = FALSE, !.more = TRUE]
      BY <1>1, <3>1
    <3>3. /\ loc'[c].pending = q /\ loc'[c].prompts = loc[c].prompts
          /\ loc'[c].prepared = loc[c].prepared
      BY <1>1, <3>2 DEF Local
    <3>4. Flows(c)
      BY <2>1, <2>2, <3>1, <3>3 DEF Flows, FlowsIn
    <3>5. HeldAt(c)'
      BY <1>2, <2>1, <3>1, <3>3, HeldThere DEF Launched, Owning, PCs, Carrying
    <3>6. QED
      BY <3>4, <3>5
  <2>5. QED
    BY <2>3, <2>4
<1>9. QED
  BY <1>3, <1>4, <1>5, <1>6, <1>7, <1>8

(* The opening of a run: the prompts join the transcript. *)
LEMMA FlowOpen ==
  ASSUME TypeOK, NEW c \in Callers, HeldAt(c), SetFlags(c) \/ Launch(c)
  PROVE  Flows(c) /\ HeldAt(c)'
<1>1. /\ loc \in [Callers -> Local] /\ loc[c] \in Local /\ loc[c].prompts \in Seq(Msgs)
      /\ agent.messages \in Seq(Entry) /\ <<>> \in Seq(Msgs)
  BY EmptySeq DEF TypeOK, Local
<1>2. UNCHANGED <<steering, followUp, sent>> /\ loc[c].pending = <<>> /\ loc[c].prepared = <<>>
  BY DEF SetFlags, Launch, queueVars, histVars, HeldAt, Owning, PCs, Carrying
<1>3. CASE SetFlags(c)
  <2>1. /\ pc[c] = "flags" /\ pc'[c] = "launch" /\ UNCHANGED loc
        /\ agent'.messages = agent.messages
    BY <1>3 DEF SetFlags, Flagged, Goto, TypeOK
  <2>2. HeldAt(c)'
    BY <1>2, <2>1 DEF HeldAt, Launched, Owning, PCs, Carrying
  <2>3. QED
    BY <1>2, <2>1, <2>2, QuietFlows DEF SameHeld
<1>4. CASE Launch(c)
  <2> DEFINE base == agent.messages
             prompts == Users(loc[c].prompts)
             opened == [loc[c] EXCEPT !.prompts = <<>>, !.base = base, !.seed = base,
                                      !.ctx = base]
             joined == Appended(Tracked(opened, prompts), prompts)
  <2>1. opened \in Local
    BY <1>1 DEF Local
  <2>2. /\ opened.prompts = <<>> /\ opened.pending = loc[c].pending
        /\ opened.prepared = loc[c].prepared /\ opened.mode = loc[c].mode
    BY <1>1 DEF Local
  <2>3. prompts \in Seq(Entry)
    BY <1>1, UsersType
  <2>4. pc[c] = "launch"
    BY <1>4 DEF Launch
  <2>5. \/ /\ loc[c].mode = "continue" /\ loc'[c] = opened /\ pc'[c] = "failed"
           /\ UNCHANGED agent
        \/ loc'[c] = joined /\ pc'[c] = "poll" /\ agent' = Published(agent, prompts)
    BY <1>1, <1>4 DEF Launch, Goto, TypeOK
  <2> HIDE DEF opened
  <2>6. SameHeld(joined, opened)
    BY <2>1, <2>3, HeldKept
  <2> HIDE DEF joined, prompts
  <2>7. CASE /\ loc[c].mode = "continue" /\ loc'[c] = opened /\ pc'[c] = "failed"
             /\ UNCHANGED agent
    <3>1. loc[c].prompts = <<>>
      BY <2>4, <2>7 DEF HeldAt
    <3>2. SameHeld(loc'[c], loc[c])
      BY <2>2, <2>7, <3>1 DEF SameHeld
    <3>3. HeldAt(c)'
      BY <1>2, <2>7, <3>1, <3>2, HeldThere DEF SameHeld, Launched, Owning, PCs, Carrying
    <3>4. QED
      BY <1>2, <2>7, <3>2, <3>3, QuietFlows
  <2>8. CASE loc'[c] = joined /\ pc'[c] = "poll" /\ agent' = Published(agent, prompts)
    <3>1. agent'.messages = agent.messages \o prompts
      BY <2>8 DEF Published, TypeOK
    <3>2. loc'[c].prompts = <<>> /\ loc'[c].pending = <<>> /\ loc'[c].prepared = <<>>
      BY <1>2, <2>2, <2>6, <2>8 DEF SameHeld
    <3>3. (loc[c].prompts \o loc[c].prepared) \o loc[c].pending = loc[c].prompts
      BY <1>1, <1>2, ConcatEmptySeq
    <3>4. Flows(c)
      BY <1>2, <3>1, <3>2, <3>3 DEF Flows, FlowsOut, prompts
    <3>5. HeldAt(c)'
      BY <2>8, <3>2, HeldThere DEF Launched, Owning, PCs, Carrying
    <3>6. QED
      BY <3>4, <3>5
  <2>9. QED
    BY <2>5, <2>7, <2>8
<1>5. QED
  BY <1>3, <1>4

(* The steps of a turn: only its opening messages are user messages. *)
LEMMA FlowTurn ==
  ASSUME TypeOK, NEW c \in Callers, HeldAt(c),
         \/ Inject(c) \/ Request(c) \/ Terminal(c)
         \/ \E decision \in {"none", "continue", "end"} : FinishTurn(c, decision)
         \/ Fail(c) \/ OutsideStep(c)
  PROVE  Flows(c) /\ HeldAt(c)'
<1>1. /\ loc \in [Callers -> Local] /\ loc[c] \in Local /\ loc[c].pending \in Seq(Msgs)
      /\ agent.messages \in Seq(Entry) /\ <<>> \in Seq(Entry)
  BY EmptySeq DEF TypeOK, Local
<1>2. UNCHANGED <<steering, followUp, sent>>
  BY DEF Inject, Request, Terminal, FinishTurn, Fail, OutsideStep, StreamStart, Finalize, Tools,
     queueVars, histVars
<1>3. /\ loc[c].prompts = <<>> /\ loc[c].prepared = <<>>
      /\ pc[c] \notin Carrying => loc[c].pending = <<>>
  BY DEF Inject, Request, Terminal, FinishTurn, Fail, OutsideStep, StreamStart, Finalize, Tools,
     HeldAt, Launched, Owning, PCs
<1>4. ASSUME SameHeld(loc'[c], loc[c]), pc'[c] \in Launched,
             pc'[c] \in Carrying \/ loc[c].pending = <<>>
      PROVE  HeldAt(c)'
  BY <1>3, <1>4, HeldThere DEF SameHeld
<1>5. CASE HookFails(c)
  BY <1>2, <1>3, <1>5, EndFlows
<1>6. CASE Inject(c)
  <2> DEFINE entries == Users(loc[c].pending)
             joined == Appended(Tracked(loc[c], entries), entries)
  <2>1. entries \in Seq(Entry)
    BY <1>1, UsersType
  <2>2. joined \in Local /\ SameHeld(joined, loc[c])
    BY <1>1, <2>1, JoinType, HeldKept
  <2>3. /\ loc'[c] = [joined EXCEPT !.pending = <<>>] /\ pc'[c] = "request"
        /\ agent' = Published(agent, entries)
    BY <1>1, <1>6 DEF Inject, Goto, TypeOK
  <2>4. agent'.messages = agent.messages \o entries
    BY <2>3 DEF Published, TypeOK
  <2> HIDE DEF joined
  <2>5. loc'[c].prompts = <<>> /\ loc'[c].pending = <<>> /\ loc'[c].prepared = <<>>
    BY <1>3, <2>2, <2>3 DEF Local, SameHeld
  <2>6. (loc[c].prompts \o loc[c].prepared) \o loc[c].pending = loc[c].pending
    BY <1>1, <1>3, ConcatEmptySeq
  <2>7. Flows(c)
    BY <1>2, <2>4, <2>5, <2>6 DEF Flows, FlowsOut
  <2>8. HeldAt(c)'
    BY <2>3, <2>5, HeldThere DEF Launched, Owning, PCs
  <2>9. QED
    BY <2>7, <2>8
<1>7. CASE Request(c)
  <2>1. CASE ~HookFails(c)
    <3>1. \E l \in {loc[c], Replaced(loc[c])} :
            loc' = [loc EXCEPT ![c] = [l EXCEPT !.added = FALSE, !.promised = FALSE]]
      BY <1>1, <1>7, <2>1 DEF Request
    <3>2. \A l \in Local : SameHeld([l EXCEPT !.added = FALSE, !.promised = FALSE], l)
      BY DEF SameHeld, Local
    <3>3. Replaced(loc[c]) \in Local /\ SameHeld(Replaced(loc[c]), loc[c])
      BY <1>1, ReplacedType, HeldKept
    <3>4. \E l \in {loc[c], Replaced(loc[c])} : SameHeld(loc'[c], l)
      BY <1>1, <3>1, <3>2, <3>3
    <3>5. SameHeld(loc'[c], loc[c])
      BY <3>3, <3>4 DEF SameHeld
    <3>6. pc[c] = "request" /\ pc'[c] = "stream" /\ UNCHANGED agent
      BY <1>7, <2>1 DEF Request, Goto, TypeOK
    <3>7. HeldAt(c)'
      BY <1>3, <1>4, <3>5, <3>6 DEF Launched, Owning, PCs, Carrying
    <3>8. QED
      BY <1>2, <3>5, <3>6, <3>7, QuietFlows
  <2>2. QED
    BY <1>5, <2>1
<1>8. CASE Terminal(c)
  <2>1. CASE ~HookFails(c)
    <3>1. agent'.messages = agent.messages /\ UNCHANGED loc /\ pc'[c] = "ended"
      <4>1. /\ agent' = [agent EXCEPT !.message = FALSE, !.error = TRUE]
            /\ UNCHANGED loc /\ Goto(c, "ended")
        BY <1>8, <2>1 DEF Terminal
      <4>2. agent \in AgentType /\ pc \in [Callers -> PCs]
        BY DEF TypeOK, AgentType
      <4>3. agent'.messages = agent.messages
        BY <4>1, <4>2 DEF AgentType
      <4>4. QED
        BY <4>1, <4>2, <4>3 DEF Goto
    <3>2. SameHeld(loc'[c], loc[c])
      BY <3>1 DEF SameHeld
    <3>3. HeldAt(c)'
      BY <1>4, <3>1, <3>2 DEF Launched, Owning, PCs, Carrying
    <3>4. QED
      BY <1>2, <3>1, <3>2, <3>3, QuietFlows
  <2>2. QED
    BY <1>5, <2>1
<1>9. ASSUME NEW decision \in {"none", "continue", "end"}, FinishTurn(c, decision)
      PROVE  Flows(c) /\ HeldAt(c)'
  <2>1. CASE ~HookFails(c)
    <3>1. loc' = [loc EXCEPT ![c] = [loc[c] EXCEPT !.explicit = (decision = "continue"),
                                                  !.promised = (decision = "continue")]]
      BY <1>1, <1>9, <2>1 DEF FinishTurn
    <3>2. \A b : SameHeld([loc[c] EXCEPT !.explicit = b, !.promised = b], loc[c])
      BY <1>1 DEF SameHeld, Local
    <3>3. SameHeld(loc'[c], loc[c])
      BY <1>1, <3>1, <3>2
    <3>4. pc[c] = "finish" /\ pc'[c] \in {"ended", "steer"} /\ UNCHANGED agent
      BY <1>9, <2>1 DEF FinishTurn, Goto, TypeOK
    <3>5. HeldAt(c)'
      BY <1>3, <1>4, <3>3, <3>4 DEF Launched, Owning, PCs, Carrying
    <3>6. QED
      BY <1>2, <3>3, <3>4, <3>5, QuietFlows
  <2>2. QED
    BY <1>5, <2>1
<1>10. CASE Fail(c)
  <2> DEFINE final == Assistant(IF cancelled[c] THEN "aborted" ELSE "error")
  <2>1. <<final>> \in Seq(Entry) /\ UserIds(<<final>>) = {}
    BY FinalType, NoUsers DEF Stops
  <2>2. pc'[c] = "ended"
    BY <1>10 DEF Fail, Goto, TypeOK
  <2>3. CASE loc[c].terminal
    <3>1. agent'.messages = agent.messages /\ UNCHANGED loc
      BY <1>10, <2>3 DEF Fail, TypeOK
    <3>2. SameHeld(loc'[c], loc[c])
      BY <3>1 DEF SameHeld
    <3>3. HeldAt(c)'
      BY <1>4, <2>2, <3>2 DEF Launched, Owning, PCs, Carrying
    <3>4. QED
      BY <1>2, <3>1, <3>2, <3>3, QuietFlows
  <2>4. CASE ~loc[c].terminal
    <3>1. /\ agent' = [Published(agent, <<final>>) EXCEPT !.error = TRUE]
          /\ loc' = [loc EXCEPT ![c] = [loc[c] EXCEPT !.tracked = Append(loc[c].tracked, final)]]
      BY <1>1, <1>10, <2>4 DEF Fail
    <3>2. agent'.messages = agent.messages \o <<final>>
      BY <3>1 DEF Published, TypeOK
    <3>3. \A s : SameHeld([loc[c] EXCEPT !.tracked = s], loc[c])
      BY <1>1 DEF SameHeld, Local
    <3>4. SameHeld(loc'[c], loc[c])
      BY <1>1, <3>1, <3>3
    <3>5. HeldAt(c)'
      BY <1>4, <2>2, <3>4 DEF Launched, Owning, PCs, Carrying
    <3>6. QED
      BY <1>2, <2>1, <3>2, <3>4, <3>5 DEF Flows, FlowsQuiet
  <2>5. QED
    BY <2>3, <2>4
<1>11. CASE StreamStart(c)
  <2>1. \E s : loc' = [loc EXCEPT ![c] = [loc[c] EXCEPT !.added = TRUE, !.ctx = s]]
    BY <1>1, <1>11 DEF StreamStart
  <2>2. \A s : SameHeld([loc[c] EXCEPT !.added = TRUE, !.ctx = s], loc[c])
    BY <1>1 DEF SameHeld, Local
  <2>3. SameHeld(loc'[c], loc[c])
    BY <1>1, <2>1, <2>2
  <2>4. agent'.messages = agent.messages /\ pc[c] = "stream" /\ pc'[c] = "stream"
    BY <1>11 DEF StreamStart, TypeOK
  <2>5. HeldAt(c)'
    BY <1>3, <1>4, <2>3, <2>4 DEF Launched, Owning, PCs, Carrying
  <2>6. QED
    BY <1>2, <2>3, <2>4, <2>5, QuietFlows
<1>12. ASSUME NEW stop \in Outcomes(c), NEW calls \in BOOLEAN, Finalize(c, stop, calls)
       PROVE  Flows(c) /\ HeldAt(c)'
  <2> DEFINE final == Assistant(stop)
             tracked == Tracked(loc[c], <<final>>)
  <2>1. <<final>> \in Seq(Entry) /\ UserIds(<<final>>) = {}
    BY <1>12, FinalType, NoUsers DEF Outcomes, Stops
  <2>2. tracked \in Local /\ SameHeld(tracked, loc[c])
    BY <1>1, <2>1, TrackedType, HeldKept
  <2>3. /\ pc[c] = "stream" /\ pc'[c] \in {"terminal", "tools", "finish"}
        /\ agent' = Published(agent, <<final>>)
        /\ loc'[c] = [tracked EXCEPT !.ctx = Finalized(loc[c], final),
                       !.new = Append(loc[c].new, final), !.added = FALSE, !.stop = stop,
                       !.turns = loc[c].turns + 1, !.more = FALSE]
    BY <1>1, <1>12 DEF Finalize, Goto, TypeOK
  <2>4. agent'.messages = agent.messages \o <<final>>
    BY <2>3 DEF Published, TypeOK
  <2> HIDE DEF final, tracked
  <2>5. SameHeld(loc'[c], loc[c])
    BY <2>2, <2>3 DEF Local, SameHeld
  <2>6. HeldAt(c)'
    BY <1>3, <1>4, <2>3, <2>5 DEF Launched, Owning, PCs, Carrying
  <2>7. QED
    BY <1>2, <2>1, <2>4, <2>5, <2>6 DEF Flows, FlowsQuiet
<1>13. ASSUME NEW terminate \in BOOLEAN, Tools(c, terminate) PROVE Flows(c) /\ HeldAt(c)'
  <2> DEFINE entries == <<ToolResults>>
             joined == Appended(Tracked(loc[c], entries), entries)
  <2>1. entries \in Seq(Entry) /\ UserIds(entries) = {}
    BY EntryTypes, NoUsers
  <2>2. joined \in Local /\ SameHeld(joined, loc[c])
    BY <1>1, <2>1, JoinType, HeldKept
  <2>3. /\ loc'[c] = [joined EXCEPT !.more = ~terminate] /\ pc[c] = "tools"
        /\ pc'[c] = "finish" /\ agent' = Published(agent, entries)
    BY <1>1, <1>13 DEF Tools, Goto, TypeOK
  <2>4. agent'.messages = agent.messages \o entries
    BY <2>3 DEF Published, TypeOK
  <2> HIDE DEF joined, entries
  <2>5. SameHeld(loc'[c], loc[c])
    BY <2>2, <2>3 DEF Local, SameHeld
  <2>6. HeldAt(c)'
    BY <1>3, <1>4, <2>3, <2>5 DEF Launched, Owning, PCs, Carrying
  <2>7. QED
    BY <1>2, <2>1, <2>4, <2>5, <2>6 DEF Flows, FlowsQuiet
<1>14. QED
  BY <1>6, <1>7, <1>8, <1>9, <1>10, <1>11, <1>12, <1>13 DEF OutsideStep

(* Every step of a run that is not its release is one of these flows. *)
LEMMA LoopFlows ==
  ASSUME TypeOK, NEW c \in Callers, HeldAt(c), LoopStep(c) \/ OutsideStep(c),
         ~Release(c), ~NotifyWaiters(c)
  PROVE  Flows(c) /\ HeldAt(c)' /\ UNCHANGED <<steered, cleared, dropped>>
<1>1. UNCHANGED <<steered, cleared, dropped>>
  BY DEF LoopStep, OutsideStep, SetFlags, Launch, FirstPoll, Inject, Prepare, Prepared, Polled,
     Request, Terminal, FinishTurn, SteerPoll, Steered, FollowUpPoll, Fail, StreamStart,
     Finalize, Tools, PollSteering, histVars
<1>2. QED
  BY <1>1, FlowBetween, FlowOpen, FlowTurn DEF LoopStep

-----------------------------------------------------------------------------
(* Conservation.  Inductive once it says of a message that was never       *)
(* submitted that no place holds it, on top of HeldInv.                    *)

CountInv == \A m \in Msgs : Copies(m) = IF m \in sent THEN 1 ELSE 0

(* The messages in flight in a run. *)
HeldCount(m) ==
  IF active = NoCaller THEN 0
  ELSE Occurrences(loc[active].prompts \o loc[active].pending \o loc[active].prepared, m)

(* The three parts of what a run holds. *)
LEMMA HeldSum ==
  ASSUME NEW p \in Seq(Msgs), NEW q \in Seq(Msgs), NEW r \in Seq(Msgs), NEW m
  PROVE  /\ Occurrences(p \o q \o r, m)
              = Occurrences(p, m) + Occurrences(q, m) + Occurrences(r, m)
         /\ Occurrences(p, m) \in Nat /\ Occurrences(q, m) \in Nat /\ Occurrences(r, m) \in Nat
<1>1. p \o q \in Seq(Msgs)
  BY ConcatProperties
<1>2. /\ Occurrences(p \o q, m) = Occurrences(p, m) + Occurrences(q, m)
      /\ Occurrences((p \o q) \o r, m) = Occurrences(p \o q, m) + Occurrences(r, m)
  BY <1>1, CountConcat
<1>3. QED
  BY <1>2, CountType

(* The same for the locals of a run. *)
LEMMA HeldLocal ==
  ASSUME NEW l \in Local, NEW m
  PROVE  /\ Occurrences(l.prompts \o l.pending \o l.prepared, m)
              = Occurrences(l.prompts, m) + Occurrences(l.pending, m) + Occurrences(l.prepared, m)
         /\ Occurrences((l.prompts \o l.prepared) \o l.pending, m)
              = Occurrences(l.prompts, m) + Occurrences(l.prepared, m) + Occurrences(l.pending, m)
         /\ Occurrences(l.prompts, m) \in Nat /\ Occurrences(l.pending, m) \in Nat
         /\ Occurrences(l.prepared, m) \in Nat
         /\ Occurrences(l.prompts \o l.pending \o l.prepared, m) \in Nat
<1> DEFINE p == l.prompts
           q == l.pending
           r == l.prepared
<1>1. p \in Seq(Msgs) /\ q \in Seq(Msgs) /\ r \in Seq(Msgs)
  BY DEF Local
<1> HIDE DEF p, q, r
<1>2. /\ Occurrences(p \o q \o r, m)
           = Occurrences(p, m) + Occurrences(q, m) + Occurrences(r, m)
      /\ Occurrences(p, m) \in Nat /\ Occurrences(q, m) \in Nat /\ Occurrences(r, m) \in Nat
  BY <1>1, HeldSum
<1>3. Occurrences((p \o r) \o q, m)
        = Occurrences(p, m) + Occurrences(r, m) + Occurrences(q, m)
  BY <1>1, HeldSum
<1>4. Occurrences(p \o q \o r, m) \in Nat
  BY <1>2
<1>5. QED
  BY <1>2, <1>3, <1>4 DEF p, q, r

(* Every summand of Copies is a natural number. *)
LEMMA CopiesTypes ==
  ASSUME TypeOK, NEW m \in Msgs
  PROVE  /\ Occurrences(steering, m) \in Nat /\ Occurrences(followUp, m) \in Nat
         /\ Occurrences(agent.messages, User(m)) \in Nat /\ HeldCount(m) \in Nat
<1>1. HeldCount(m) \in Nat
  <2>1. CASE active = NoCaller
    BY <2>1 DEF HeldCount
  <2>2. CASE active # NoCaller
    <3>1. loc[active] \in Local
      BY <2>2 DEF TypeOK
    <3>2. Occurrences(loc[active].prompts \o loc[active].pending \o loc[active].prepared, m)
            \in Nat
      BY <3>1, HeldLocal
    <3>3. QED
      BY <2>2, <3>2, Zenon DEF HeldCount
  <2>3. QED
    BY <2>1, <2>2
<1>2. QED
  BY <1>1, CountType DEF TypeOK

(* A flow of the active run moves copies about; only a message that a hook *)
(* has just handed over is new.                                            *)
LEMMA CountFlow ==
  ASSUME TypeOK, TypeOK', NEW c \in Callers, active = c, active' = c, Flows(c),
         UNCHANGED <<cleared, dropped>>, NEW m \in Msgs,
         Copies(m) = IF m \in sent THEN 1 ELSE 0
  PROVE  Copies(m)' = IF m \in sent' THEN 1 ELSE 0
<1> USE AgentRunAssumption
<1>1. /\ loc[c].prompts \in Seq(Msgs) /\ loc[c].pending \in Seq(Msgs)
      /\ loc[c].prepared \in Seq(Msgs) /\ loc'[c].prompts \in Seq(Msgs)
      /\ loc'[c].pending \in Seq(Msgs) /\ loc'[c].prepared \in Seq(Msgs)
      /\ agent.messages \in Seq(Entry) /\ c # NoCaller
  BY DEF TypeOK, Local
<1> DEFINE S == Occurrences(steering, m)
           F == Occurrences(followUp, m)
           U == Occurrences(agent.messages, User(m))
           P == Occurrences(loc[c].prompts, m)
           Q == Occurrences(loc[c].pending, m)
           R == Occurrences(loc[c].prepared, m)
           S1 == Occurrences(steering', m)
           F1 == Occurrences(followUp', m)
           U1 == Occurrences(agent'.messages, User(m))
           P1 == Occurrences(loc'[c].prompts, m)
           Q1 == Occurrences(loc'[c].pending, m)
           R1 == Occurrences(loc'[c].prepared, m)
<1>2. /\ S \in Nat /\ F \in Nat /\ U \in Nat /\ P \in Nat /\ Q \in Nat /\ R \in Nat
      /\ S1 \in Nat /\ F1 \in Nat /\ U1 \in Nat /\ P1 \in Nat /\ Q1 \in Nat /\ R1 \in Nat
      /\ Cardinality({m} \cap cleared) \in Nat /\ Cardinality({m} \cap dropped) \in Nat
  <2>1. S \in Nat /\ F \in Nat /\ S1 \in Nat /\ F1 \in Nat
    BY CountType DEF TypeOK
  <2>2. agent'.messages \in Seq(Entry)
    BY DEF TypeOK
  <2>3. U \in Nat /\ U1 \in Nat
    BY <1>1, <2>2, CountType, Zenon
  <2>4. P \in Nat /\ Q \in Nat /\ R \in Nat /\ P1 \in Nat /\ Q1 \in Nat /\ R1 \in Nat
    BY <1>1, CountType, Zenon
  <2>5. Cardinality({m} \cap cleared) \in Nat /\ Cardinality({m} \cap dropped) \in Nat
    BY MarkCount
  <2>6. QED
    BY <2>1, <2>3, <2>4, <2>5
<1>3. /\ Copies(m) = S + F + U + (P + Q + R) + Cardinality({m} \cap cleared)
                       + Cardinality({m} \cap dropped)
      /\ Copies(m)' = S1 + F1 + U1 + (P1 + Q1 + R1) + Cardinality({m} \cap cleared)
                       + Cardinality({m} \cap dropped)
  <2>1. /\ Occurrences(loc[c].prompts \o loc[c].pending \o loc[c].prepared, m) = P + Q + R
        /\ Occurrences(loc'[c].prompts \o loc'[c].pending \o loc'[c].prepared, m) = P1 + Q1 + R1
    <3>1. loc[c] \in Local /\ loc'[c] \in Local
      BY DEF TypeOK
    <3>2. QED
      BY <3>1, HeldLocal
  <2> HIDE DEF P, Q, R, P1, Q1, R1
  <2>2. Copies(m) = S + F + U + (P + Q + R) + Cardinality({m} \cap cleared)
                      + Cardinality({m} \cap dropped)
    BY <1>1, <2>1, Zenon DEF Copies
  <2>3. Copies(m)' = S1 + F1 + U1 + (P1 + Q1 + R1) + Cardinality({m} \cap cleared)
                       + Cardinality({m} \cap dropped)
    BY <1>1, <2>1, Zenon DEF Copies
  <2>4. QED
    BY <2>2, <2>3
<1> HIDE DEF S, F, U, P, Q, R, S1, F1, U1, P1, Q1, R1
<1>4. ASSUME sent' = sent, S1 + F1 + U1 + (P1 + Q1 + R1) = S + F + U + (P + Q + R)
      PROVE  Copies(m)' = IF m \in sent' THEN 1 ELSE 0
  BY <1>2, <1>3, <1>4
<1>5. CASE FlowsQuiet(c)
  <2>1. PICK entries \in Seq(Entry) :
          UserIds(entries) = {} /\ agent'.messages = agent.messages \o entries
    BY <1>5 DEF FlowsQuiet
  <2>2. Occurrences(entries, User(m)) = 0
    BY <2>1, CountUserIds
  <2>3. U1 = U
    BY <1>1, <1>2, <2>1, <2>2, CountConcat DEF U, U1
  <2>4. P1 = P /\ Q1 = Q /\ R1 = R /\ S1 = S /\ F1 = F /\ sent' = sent
    BY <1>5 DEF FlowsQuiet, SameHeld, P, Q, R, S, F, P1, Q1, R1, S1, F1
  <2>5. QED
    BY <1>4, <2>3, <2>4
<1>6. CASE FlowsOut(c)
  <2> DEFINE out == (loc[c].prompts \o loc[c].prepared) \o loc[c].pending
  <2>1. /\ out \in Seq(Msgs) /\ Occurrences(out, m) = P + R + Q
    <3>1. loc[c].prompts \o loc[c].prepared \in Seq(Msgs)
      BY <1>1, ConcatProperties
    <3>2. Occurrences(out, m) = P + R + Q
      <4>1. loc[c] \in Local
        BY DEF TypeOK
      <4>2. QED
        BY <4>1, HeldLocal DEF P, Q, R
    <3>3. QED
      BY <1>1, <3>1, <3>2, ConcatProperties
  <2>2. Users(out) \in Seq(Entry) /\ Occurrences(Users(out), User(m)) = P + R + Q
    BY <2>1, UsersType, CountUsers
  <2>3. agent'.messages = agent.messages \o Users(out)
    BY <1>6 DEF FlowsOut
  <2> HIDE DEF out
  <2>4. U1 = U + (P + R + Q)
    BY <1>1, <2>2, <2>3, CountConcat DEF U, U1
  <2>5. P1 = 0 /\ Q1 = 0 /\ R1 = 0 /\ S1 = S /\ F1 = F /\ sent' = sent
    BY <1>6, CountFew DEF FlowsOut, S, F, P1, Q1, R1, S1, F1
  <2>6. QED
    BY <1>2, <1>4, <2>4, <2>5
<1>7. CASE FlowsNew(c)
  <2>1. PICK injected \in {<<>>} \cup {<<x>> : x \in Msgs \ sent} :
          /\ sent' = sent \cup Elements(injected)
          /\ loc[c].prepared = <<>> /\ loc'[c].prepared = injected
          /\ loc'[c].prompts = loc[c].prompts /\ loc'[c].pending = loc[c].pending
          /\ UNCHANGED <<agent, steering, followUp>>
    BY <1>7 DEF FlowsNew
  <2>2. P1 = P /\ Q1 = Q /\ S1 = S /\ F1 = F /\ U1 = U /\ R = 0
    BY <2>1, CountFew DEF S, F, U, P, Q, R, P1, Q1, S1, F1, U1
  <2>3. CASE injected = <<>>
    <3>1. sent' = sent
      BY <2>1, <2>3 DEF Elements
    <3>2. R1 = 0
      BY <2>1, <2>3, CountFew DEF R1
    <3>3. QED
      BY <1>2, <1>4, <2>2, <3>1, <3>2
  <2>4. ASSUME NEW x \in Msgs \ sent, injected = <<x>>
        PROVE  Copies(m)' = IF m \in sent' THEN 1 ELSE 0
    <3>1. sent' = sent \cup {x}
      BY <2>1, <2>4 DEF Elements
    <3>2. R1 = IF x = m THEN 1 ELSE 0
      BY <2>1, <2>4, CountFew DEF R1
    <3>3. QED
      BY <1>2, <1>3, <2>2, <2>4, <3>1, <3>2
  <2>5. QED
    BY <2>3, <2>4
<1>8. CASE FlowsIn(c, steering) /\ UNCHANGED followUp
  <2>1. PICK q \in Seq(Msgs), r \in Seq(Msgs) :
          /\ steering = q \o r /\ steering' = r
          /\ loc[c].pending = <<>> /\ loc'[c].pending = q
          /\ loc'[c].prompts = loc[c].prompts /\ loc'[c].prepared = loc[c].prepared
          /\ UNCHANGED <<agent, sent>>
    BY <1>8 DEF FlowsIn
  <2>2. S = Q1 + S1
    BY <2>1, CountConcat DEF S, Q1, S1
  <2>3. P1 = P /\ R1 = R /\ F1 = F /\ U1 = U /\ Q = 0 /\ sent' = sent
    BY <1>8, <2>1, CountFew DEF F, U, P, Q, R, P1, R1, F1, U1
  <2>4. QED
    BY <1>2, <1>4, <2>2, <2>3
<1>9. CASE FlowsIn(c, followUp) /\ UNCHANGED steering
  <2>1. PICK q \in Seq(Msgs), r \in Seq(Msgs) :
          /\ followUp = q \o r /\ followUp' = r
          /\ loc[c].pending = <<>> /\ loc'[c].pending = q
          /\ loc'[c].prompts = loc[c].prompts /\ loc'[c].prepared = loc[c].prepared
          /\ UNCHANGED <<agent, sent>>
    BY <1>9 DEF FlowsIn
  <2>2. F = Q1 + F1
    BY <2>1, CountConcat DEF F, Q1, F1
  <2>3. P1 = P /\ R1 = R /\ S1 = S /\ U1 = U /\ Q = 0 /\ sent' = sent
    BY <1>9, <2>1, CountFew DEF S, U, P, Q, R, P1, R1, S1, U1
  <2>4. QED
    BY <1>2, <1>4, <2>2, <2>3
<1>10. QED
  BY <1>5, <1>6, <1>7, <1>8, <1>9 DEF Flows

(* A transcript with a last entry. *)
LEMMA FrontAndLast ==
  ASSUME NEW s \in Seq(Entry), s # <<>>
  PROVE  /\ SubSeq(s, 1, Len(s) - 1) \in Seq(Entry) /\ s[Len(s)] \in Entry
         /\ s = SubSeq(s, 1, Len(s) - 1) \o <<s[Len(s)]>>
<1>1. Len(s) \in Nat /\ Len(s) # 0
  BY LenProperties, EmptySeq
<1>2. Len(s) \in 1..Len(s) /\ 1 \in 1..Len(s)
  BY <1>1
<1>3. s[Len(s)] \in Entry
  BY <1>2, ElementOfSeq
<1>4. SubSeq(s, 1, Len(s) - 1) \in Seq(Entry)
  <2>1. \A i \in 1..Len(s) - 1 : s[i] \in Entry
    BY <1>1, ElementOfSeq
  <2>2. QED
    BY <1>1, <2>1, SubSeqProperties
<1>5. SubSeq(s, 1, Len(s)) = SubSeq(s, 1, Len(s) - 1) \o <<s[Len(s)]>>
  BY <1>2, SubSeqRecursiveSecond
<1>6. SubSeq(s, 1, Len(s)) = s
  BY SubSeqFull
<1>7. QED
  BY <1>3, <1>4, <1>5, <1>6

(* Appending one element. *)
LEMMA CountAppend ==
  ASSUME NEW S, NEW s \in Seq(S), NEW x \in S, NEW m
  PROVE  Occurrences(s \o <<x>>, m) = Occurrences(s, m) + IF x = m THEN 1 ELSE 0
<1>1. <<x>> \in Seq(S)
  OBVIOUS
<1>2. Occurrences(s \o <<x>>, m) = Occurrences(s, m) + Occurrences(<<x>>, m)
  BY <1>1, CountConcat, Zenon
<1>3. Occurrences(<<x>>, m) = IF x = m THEN 1 ELSE 0
  BY CountFew, Zenon
<1>4. QED
  BY <1>2, <1>3, Zenon

(* Overwriting an element that is not counted with another such one. *)
LEMMA CountReplaced ==
  ASSUME NEW S, NEW s \in Seq(S), NEW m, NEW final, s[Len(s)] # m, final # m
  PROVE  Occurrences([s EXCEPT ![Len(s)] = final], m) = Occurrences(s, m)
<1> DEFINE changed == [s EXCEPT ![Len(s)] = final]
<1>1. DOMAIN changed = DOMAIN s
      /\ \A i \in DOMAIN s : changed[i] = IF i = Len(s) THEN final ELSE s[i]
  OBVIOUS
<1> HIDE DEF changed
<1>2. {i \in DOMAIN changed : changed[i] = m} = {i \in DOMAIN s : s[i] = m}
  BY <1>1
<1>3. QED
  BY <1>2 DEF Occurrences, changed

(* The operations any task may call: submitting adds a copy, clearing and  *)
(* replacing record what they remove, starting a run moves copies into it. *)
LEMMA CountCaller ==
  ASSUME TypeOK, TypeOK', Caller, NEW m \in Msgs,
         Copies(m) = IF m \in sent THEN 1 ELSE 0
  PROVE  Copies(m)' = IF m \in sent' THEN 1 ELSE 0
<1> USE AgentRunAssumption
<1> DEFINE S == Occurrences(steering, m)
           F == Occurrences(followUp, m)
           U == Occurrences(agent.messages, User(m))
           H == HeldCount(m)
           C == Cardinality({m} \cap cleared)
           D == Cardinality({m} \cap dropped)
           S1 == Occurrences(steering', m)
           F1 == Occurrences(followUp', m)
           U1 == Occurrences(agent'.messages, User(m))
           H1 == HeldCount(m)'
           C1 == Cardinality({m} \cap cleared')
           D1 == Cardinality({m} \cap dropped')
<1>1. /\ S \in Nat /\ F \in Nat /\ U \in Nat /\ H \in Nat
      /\ C = (IF m \in cleared THEN 1 ELSE 0) /\ D = (IF m \in dropped THEN 1 ELSE 0)
      /\ C1 = (IF m \in cleared' THEN 1 ELSE 0) /\ D1 = (IF m \in dropped' THEN 1 ELSE 0)
  BY CopiesTypes, MarkCount
<1>2. Copies(m) = S + F + U + H + C + D /\ Copies(m)' = S1 + F1 + U1 + H1 + C1 + D1
  BY DEF Copies, HeldCount
<1>3. /\ steering \in Seq(Msgs) /\ followUp \in Seq(Msgs) /\ agent.messages \in Seq(Entry)
      /\ agent \in AgentType
  BY DEF TypeOK, AgentType
<1>4. /\ S = 0 <=> m \notin Elements(steering)
      /\ F = 0 <=> m \notin Elements(followUp)
      /\ U = 0 <=> m \notin UserIds(agent.messages)
  BY <1>3, CountZero, CountUserIds
<1>5. /\ UNCHANGED <<active, loc>> => H1 = H
      /\ UNCHANGED steering => S1 = S
      /\ UNCHANGED followUp => F1 = F
      /\ agent'.messages = agent.messages => U1 = U
      /\ UNCHANGED cleared => C1 = C
      /\ UNCHANGED dropped => D1 = D
  BY DEF HeldCount
<1> HIDE DEF S, F, U, H, C, D, S1, F1, U1, H1, C1, D1
<1> USE DEF runVars, queueVars, histVars
<1>6. ASSUME NEW x \in Msgs, Steer(x) PROVE Copies(m)' = IF m \in sent' THEN 1 ELSE 0
  <2>1. steering' = steering \o <<x>> /\ <<x>> \in Seq(Msgs)
    BY <1>3, <1>6, AppendIsConcat DEF Steer
  <2>2. S1 = S + IF x = m THEN 1 ELSE 0
    <3>1. steering \in Seq(Msgs)
      BY <1>3
    <3>2. Occurrences(steering \o <<x>>, m) = Occurrences(steering, m) + IF x = m THEN 1 ELSE 0
      BY <3>1, CountAppend
    <3>3. QED
      BY <2>1, <3>2 DEF S, S1
  <2>3. F1 = F /\ U1 = U /\ H1 = H /\ C1 = C /\ D1 = D /\ x \notin sent /\ sent' = sent \cup {x}
    BY <1>5, <1>6 DEF Steer
  <2>4. QED
    BY <1>1, <1>2, <2>2, <2>3
<1>7. ASSUME NEW x \in Msgs, FollowUp(x) PROVE Copies(m)' = IF m \in sent' THEN 1 ELSE 0
  <2>1. followUp' = followUp \o <<x>> /\ <<x>> \in Seq(Msgs)
    BY <1>3, <1>7, AppendIsConcat DEF FollowUp
  <2>2. F1 = F + IF x = m THEN 1 ELSE 0
    <3>1. followUp \in Seq(Msgs)
      BY <1>3
    <3>2. Occurrences(followUp \o <<x>>, m) = Occurrences(followUp, m) + IF x = m THEN 1 ELSE 0
      BY <3>1, CountAppend
    <3>3. QED
      BY <2>1, <3>2 DEF F, F1
  <2>3. S1 = S /\ U1 = U /\ H1 = H /\ C1 = C /\ D1 = D /\ x \notin sent /\ sent' = sent \cup {x}
    BY <1>5, <1>7 DEF FollowUp
  <2>4. QED
    BY <1>1, <1>2, <2>2, <2>3
<1>8. ASSUME NEW x \in Msgs, PushMessage(x) PROVE Copies(m)' = IF m \in sent' THEN 1 ELSE 0
  <2>1. agent'.messages = agent.messages \o <<User(x)>> /\ <<User(x)>> \in Seq(Entry)
    <3>1. agent'.messages = Append(agent.messages, User(x)) /\ User(x) \in Entry
      BY <1>3, <1>8, EntryTypes DEF PushMessage, AgentType
    <3>2. QED
      BY <1>3, <3>1, AppendIsConcat
  <2>2. User(x) = User(m) <=> x = m
    BY DEF User
  <2>3. U1 = U + IF x = m THEN 1 ELSE 0
    <3>1. User(x) \in Entry
      BY EntryTypes
    <3> DEFINE transcript == agent.messages
               entry == User(x)
               wanted == User(m)
    <3>2. transcript \in Seq(Entry) /\ entry \in Entry
      BY <1>3, <3>1
    <3> HIDE DEF transcript, entry, wanted
    <3>3. Occurrences(transcript \o <<entry>>, wanted)
            = Occurrences(transcript, wanted) + IF entry = wanted THEN 1 ELSE 0
      BY <3>2, CountAppend
    <3>4. QED
      BY <2>1, <2>2, <3>3 DEF U, U1, transcript, entry, wanted
  <2>4. S1 = S /\ F1 = F /\ H1 = H /\ C1 = C /\ D1 = D /\ x \notin sent /\ sent' = sent \cup {x}
    BY <1>5, <1>8 DEF PushMessage
  <2>5. QED
    BY <1>1, <1>2, <2>3, <2>4
<1>9. ASSUME NEW mode \in QueueModes, SetSteeringMode(mode) \/ SetFollowUpMode(mode)
      PROVE  Copies(m)' = IF m \in sent' THEN 1 ELSE 0
  <2>1. /\ S1 = S /\ F1 = F /\ U1 = U /\ H1 = H /\ C1 = C /\ D1 = D /\ sent' = sent
    BY <1>5, <1>9 DEF SetSteeringMode, SetFollowUpMode
  <2>2. QED
    BY <1>2, <2>1
<1>10. CASE Abort
  <2>1. /\ S1 = S /\ F1 = F /\ U1 = U /\ H1 = H /\ C1 = C /\ D1 = D /\ sent' = sent
    BY <1>5, <1>10 DEF Abort
  <2>2. QED
    BY <1>2, <2>1
<1>11. CASE ClearQueues
  <2>1. /\ S1 = 0 /\ F1 = 0 /\ U1 = U /\ H1 = H /\ D1 = D /\ sent' = sent
        /\ cleared' = cleared \cup Elements(steering) \cup Elements(followUp)
    BY <1>5, <1>11, CountFew DEF ClearQueues, S1, F1
  <2>2. C1 = C + S + F
    BY <1>1, <1>2, <1>4, <2>1
  <2>3. QED
    BY <1>1, <1>2, <2>1, <2>2
<1>12. CASE Reset
  <2>1. /\ S1 = 0 /\ F1 = 0 /\ D1 = D /\ sent' = sent
        /\ cleared' = cleared \cup Elements(steering) \cup Elements(followUp)
                        \cup UserIds(agent.messages)
    BY <1>5, <1>12, CountFew DEF Reset, S1, F1
  <2>2. H1 = H
    BY <1>5, <1>12 DEF Reset, NoActiveRun
  <2>3. U1 = 0
    BY <1>12, CountFew DEF Reset, U1
  <2>4. C1 = C + S + F + U
    BY <1>1, <1>2, <1>4, <2>1
  <2>5. QED
    BY <1>1, <1>2, <2>1, <2>2, <2>3, <2>4
<1>13. CASE ReplaceMessages
  <2>1. /\ S1 = S /\ F1 = F /\ H1 = H /\ D1 = D /\ sent' = sent
        /\ cleared' = cleared \cup UserIds(agent.messages)
    BY <1>5, <1>13 DEF ReplaceMessages
  <2>2. agent'.messages = <<Summary>>
    BY <1>3, <1>13 DEF ReplaceMessages, AgentType
  <2>3. U1 = 0
    BY <2>2, CountFew, NotAMessage DEF U1
  <2>4. C1 = C + U
    BY <1>1, <1>2, <1>4, <2>1
  <2>5. QED
    BY <1>1, <1>2, <2>1, <2>3, <2>4
<1>14. CASE PopLastIfAssistant \/ ReplaceLastAssistant
  <2> DEFINE s == agent.messages
             front == SubSeq(s, 1, Len(s) - 1)
             last == s[Len(s)]
  <2>1. s # <<>> /\ last.role = "assistant"
    BY <1>14 DEF PopLastIfAssistant, ReplaceLastAssistant, TailIsAssistant
  <2>2. front \in Seq(Entry) /\ last \in Entry /\ s = front \o <<last>>
    BY <1>3, <2>1, FrontAndLast
  <2>3. last # User(m) /\ Assistant("done") # User(m) /\ Assistant("done") \in Entry
    BY <2>1, NotAMessage, EntryTypes DEF User, Stops
  <2>4. \/ agent'.messages = front
        \/ agent'.messages = [s EXCEPT ![Len(s)] = Assistant("done")]
    BY <1>3, <1>14 DEF PopLastIfAssistant, ReplaceLastAssistant, AgentType
  <2> HIDE DEF front, last
  <2>5. Occurrences(front \o <<last>>, User(m))
          = Occurrences(front, User(m)) + IF last = User(m) THEN 1 ELSE 0
    <3> DEFINE wanted == User(m)
    <3> HIDE DEF wanted
    <3>1. Occurrences(front \o <<last>>, wanted)
            = Occurrences(front, wanted) + IF last = wanted THEN 1 ELSE 0
      BY <2>2, CountAppend
    <3>2. QED
      BY <3>1 DEF wanted
  <2>6. Occurrences(front, User(m)) \in Nat
    BY <2>2, CountType, Zenon
  <2>7. /\ Occurrences(front, User(m)) = Occurrences(s, User(m))
        /\ Occurrences([s EXCEPT ![Len(s)] = Assistant("done")], User(m))
             = Occurrences(s, User(m))
    <3>1. s[Len(s)] # User(m)
      BY <2>3 DEF last
    <3>2. Occurrences([s EXCEPT ![Len(s)] = Assistant("done")], User(m)) = Occurrences(s, User(m))
      BY <1>3, <2>3, <3>1, CountReplaced
    <3>3. QED
      BY <2>2, <2>3, <2>5, <2>6, <3>2
  <2>8. U1 = U
    BY <2>4, <2>7 DEF U, U1
  <2>9. /\ S1 = S /\ F1 = F /\ H1 = H /\ C1 = C /\ D1 = D /\ sent' = sent
    BY <1>5, <1>14 DEF PopLastIfAssistant, ReplaceLastAssistant
  <2>10. QED
    BY <1>2, <2>8, <2>9
<1>15. ASSUME NEW c \in Callers, Acquire(c), NEW q \in Seq(Msgs),
              loc'[c].prompts = q, loc'[c].pending = <<>>, loc'[c].prepared = <<>>
       PROVE  H = 0 /\ H1 = Occurrences(q, m)
  <2>1. active = NoCaller /\ active' = c
    BY <1>15 DEF Acquire, NoActiveRun
  <2>2. q \o <<>> \o <<>> = q
    BY ConcatEmptySeq
  <2>3. QED
    BY <1>15, <2>1, <2>2 DEF H, H1, HeldCount
<1>16. /\ \A q : /\ [NoRun EXCEPT !.prompts = q].prompts = q
                 /\ [NoRun EXCEPT !.prompts = q].pending = <<>>
                 /\ [NoRun EXCEPT !.prompts = q].prepared = <<>>
                 /\ [NoRun EXCEPT !.prompts = q, !.skip = TRUE].prompts = q
                 /\ [NoRun EXCEPT !.prompts = q, !.skip = TRUE].pending = <<>>
                 /\ [NoRun EXCEPT !.prompts = q, !.skip = TRUE].prepared = <<>>
       /\ [NoRun EXCEPT !.mode = "continue"].prompts = <<>>
       /\ [NoRun EXCEPT !.mode = "continue"].pending = <<>>
       /\ [NoRun EXCEPT !.mode = "continue"].prepared = <<>>
  BY DEF NoRun
<1>17. ASSUME NEW c \in Callers, NEW x \in Msgs, Prompt(c, x)
       PROVE  Copies(m)' = IF m \in sent' THEN 1 ELSE 0
  <2>1. loc'[c] = [NoRun EXCEPT !.prompts = <<x>>] /\ Acquire(c) /\ <<x>> \in Seq(Msgs)
    BY <1>17 DEF Prompt, TypeOK
  <2>2. H = 0 /\ H1 = IF x = m THEN 1 ELSE 0
    <3>1. H = 0 /\ H1 = Occurrences(<<x>>, m)
      BY <1>15, <1>16, <2>1
    <3>2. QED
      BY <3>1, CountFew
  <2>3. /\ S1 = S /\ F1 = F /\ U1 = U /\ C1 = C /\ D1 = D
        /\ x \notin sent /\ sent' = sent \cup {x}
    BY <1>5, <1>17 DEF Prompt
  <2>4. QED
    BY <1>1, <1>2, <2>2, <2>3
<1>18. ASSUME NEW c \in Callers, ContinueRun(c)
       PROVE  Copies(m)' = IF m \in sent' THEN 1 ELSE 0
  <2>1. /\ Acquire(c) /\ U1 = U /\ C1 = C /\ D1 = D /\ sent' = sent
    <3>1. agent'.messages = agent.messages
      BY <1>3, <1>18 DEF ContinueRun, Flagged, AgentType
    <3>2. QED
      BY <1>5, <1>18, <3>1 DEF ContinueRun
  <2>2. loc \in [Callers -> Local] /\ <<>> \in Seq(Msgs)
    BY EmptySeq DEF TypeOK
  <2>3. /\ Drained(steering, steeringMode) \in Seq(Msgs)
        /\ Drained(followUp, followUpMode) \in Seq(Msgs)
    BY <1>3, DrainType
  <2>4. CASE /\ loc' = [loc EXCEPT ![c] = [NoRun EXCEPT !.mode = "continue"]]
             /\ UNCHANGED <<steering, followUp>>
    <3>1. H = 0 /\ H1 = 0
      BY <1>15, <1>16, <2>1, <2>2, <2>4, CountFew
    <3>2. QED
      BY <1>2, <1>5, <2>1, <2>4, <3>1
  <2>5. CASE /\ loc' = [loc EXCEPT ![c] = [NoRun EXCEPT !.skip = TRUE,
                                       !.prompts = Drained(steering, steeringMode)]]
             /\ steering' = Remaining(steering, steeringMode)
             /\ UNCHANGED followUp
    <3>1. [NoRun EXCEPT !.skip = TRUE, !.prompts = Drained(steering, steeringMode)]
            = [NoRun EXCEPT !.prompts = Drained(steering, steeringMode), !.skip = TRUE]
      BY DEF NoRun
    <3>2. H = 0 /\ H1 = Occurrences(Drained(steering, steeringMode), m)
      BY <1>15, <1>16, <2>1, <2>2, <2>3, <2>5, <3>1
    <3>3. S = H1 + S1
      BY <1>3, <2>5, <3>2, CountDrain DEF S, S1
    <3>4. H1 \in Nat /\ S1 \in Nat
      BY <1>3, <2>3, <2>5, <3>2, DrainType, CountType DEF S1
    <3>5. QED
      BY <1>1, <1>2, <1>5, <2>1, <2>5, <3>2, <3>3, <3>4
  <2>6. CASE /\ loc' = [loc EXCEPT ![c] = [NoRun EXCEPT !.prompts =
                                             Drained(followUp, followUpMode)]]
             /\ followUp' = Remaining(followUp, followUpMode)
             /\ UNCHANGED steering
    <3>1. H = 0 /\ H1 = Occurrences(Drained(followUp, followUpMode), m)
      BY <1>15, <1>16, <2>1, <2>2, <2>3, <2>6
    <3>2. F = H1 + F1
      BY <1>3, <2>6, <3>1, CountDrain DEF F, F1
    <3>3. H1 \in Nat /\ F1 \in Nat
      BY <1>3, <2>3, <2>6, <3>1, DrainType, CountType DEF F1
    <3>4. QED
      BY <1>1, <1>2, <1>5, <2>1, <2>6, <3>1, <3>2, <3>3
  <2>7. [NoRun EXCEPT !.skip = TRUE, !.prompts = Drained(steering, steeringMode)]
          = [NoRun EXCEPT !.prompts = Drained(steering, steeringMode), !.skip = TRUE]
    BY DEF NoRun
  <2>8. QED
    BY <1>18, <2>4, <2>5, <2>6, <2>7 DEF ContinueRun
<1>19. QED
  BY <1>6, <1>7, <1>8, <1>9, <1>10, <1>11, <1>12, <1>13, <1>14, <1>17, <1>18 DEF Caller

(* finish_run: what the run still holds is recorded as dropped. *)
LEMMA CountRelease ==
  ASSUME TypeOK, TypeOK', SingleRun, NEW c \in Callers, HeldAt(c), Release(c), NEW m \in Msgs,
         Copies(m) = IF m \in sent THEN 1 ELSE 0
  PROVE  Copies(m)' = IF m \in sent' THEN 1 ELSE 0
<1> USE AgentRunAssumption
<1> DEFINE S == Occurrences(steering, m)
           F == Occurrences(followUp, m)
           U == Occurrences(agent.messages, User(m))
           Q == Occurrences(loc[c].pending, m)
           R == Occurrences(loc[c].prepared, m)
           C == Cardinality({m} \cap cleared)
           D == Cardinality({m} \cap dropped)
           D1 == Cardinality({m} \cap dropped')
<1>1. /\ active = c /\ active' = NoCaller /\ c # NoCaller /\ pc[c] = "ended"
      /\ loc[c] \in Local /\ loc[c].pending \in Seq(Msgs) /\ loc[c].prepared \in Seq(Msgs)
      /\ dropped' = dropped \cup Elements(loc[c].pending) \cup Elements(loc[c].prepared)
      /\ UNCHANGED <<steering, followUp, cleared, sent>>
  BY DEF Release, SingleRun, Owning, PCs, TypeOK, Local, queueVars
<1>2. agent'.messages = agent.messages
  BY DEF Release, Settled, TypeOK, AgentType
<1>3. loc[c].prompts = <<>>
  BY <1>1 DEF HeldAt, Launched, Owning, PCs
<1>4. /\ S \in Nat /\ F \in Nat /\ U \in Nat
      /\ C = (IF m \in cleared THEN 1 ELSE 0) /\ D = (IF m \in dropped THEN 1 ELSE 0)
      /\ D1 = (IF m \in dropped' THEN 1 ELSE 0)
  BY CopiesTypes, MarkCount
<1>5. Q \in Nat /\ R \in Nat
  BY <1>1, HeldLocal
<1>6. (Q = 0 <=> m \notin Elements(loc[c].pending)) /\ (R = 0 <=> m \notin Elements(loc[c].prepared))
  BY <1>1, CountZero
<1>7. HeldCount(m) = Q + R
  <2>1. Occurrences(loc[c].prompts, m) = 0
    BY <1>3, CountFew
  <2>2. Occurrences(loc[c].prompts \o loc[c].pending \o loc[c].prepared, m)
          = Occurrences(loc[c].prompts, m) + Q + R
    BY <1>1, HeldLocal
  <2>3. HeldCount(m) = Occurrences(loc[c].prompts \o loc[c].pending \o loc[c].prepared, m)
    BY <1>1 DEF HeldCount
  <2> HIDE DEF Q, R
  <2>4. QED
    BY <1>5, <2>1, <2>2, <2>3
<1>8. Copies(m) = S + F + U + HeldCount(m) + C + D
  BY DEF Copies, HeldCount
<1>9. Copies(m)' = S + F + U + 0 + C + D1
  BY <1>1, <1>2 DEF Copies
<1> HIDE DEF S, F, U, Q, R, C, D, D1
<1>10. D1 = D + Q + R
  BY <1>1, <1>4, <1>5, <1>6, <1>7, <1>8
<1>11. QED
  BY <1>1, <1>4, <1>5, <1>7, <1>8, <1>9, <1>10

(* A step of the active run answers for the active run only. *)
LEMMA HeldMove ==
  ASSUME TypeOK, SingleRun, NEW c \in Callers, Moves(c), HeldAt(c)'
  PROVE  HeldInv'
<1>1. ASSUME NEW d \in Callers, d # c PROVE pc'[d] \notin Owning
  BY <1>1 DEF Moves, Goto, SingleRun, TypeOK
<1>2. QED
  BY <1>1 DEF HeldInv, HeldAt, Launched, Owning, PCs

(* Starting a run: its locals hold the prompts and nothing else. *)
LEMMA HeldStarts ==
  ASSUME SingleRun', NEW c \in Callers, Acquire(c), pc'[c] \in {"flags", "launch"},
         loc'[c].pending = <<>>, loc'[c].prepared = <<>>,
         loc'[c].mode = "continue" => loc'[c].prompts = <<>>
  PROVE  HeldInv'
<1>1. \A d \in Callers : d # c => pc'[d] \notin Owning
  BY DEF Acquire, SingleRun
<1>2. QED
  BY <1>1 DEF HeldInv, HeldAt, Launched, Owning, PCs

(* The operations any task may call, and where runs hold messages. *)
LEMMA HeldCaller ==
  ASSUME TypeOK, SingleRun', HeldInv, Caller
  PROVE  HeldInv'
<1>1. ASSUME UNCHANGED <<pc, loc>> PROVE HeldInv'
  BY <1>1 DEF HeldInv, HeldAt
<1>2. CASE \/ \E m \in Msgs : Steer(m) \/ FollowUp(m) \/ PushMessage(m)
           \/ \E mode \in QueueModes : SetSteeringMode(mode) \/ SetFollowUpMode(mode)
           \/ ClearQueues \/ Abort \/ Reset
           \/ PopLastIfAssistant \/ ReplaceLastAssistant \/ ReplaceMessages
  BY <1>1, <1>2 DEF Steer, FollowUp, PushMessage, SetSteeringMode, SetFollowUpMode, ClearQueues,
     Abort, Reset, NoActiveRun, PopLastIfAssistant, ReplaceLastAssistant, ReplaceMessages
<1>3. \A q : /\ [NoRun EXCEPT !.prompts = q].pending = <<>>
             /\ [NoRun EXCEPT !.prompts = q].prepared = <<>>
             /\ [NoRun EXCEPT !.prompts = q].mode # "continue"
             /\ [NoRun EXCEPT !.prompts = q, !.skip = TRUE].pending = <<>>
             /\ [NoRun EXCEPT !.prompts = q, !.skip = TRUE].prepared = <<>>
             /\ [NoRun EXCEPT !.prompts = q, !.skip = TRUE].mode # "continue"
  BY DEF NoRun
<1>4. /\ [NoRun EXCEPT !.mode = "continue"].prompts = <<>>
      /\ [NoRun EXCEPT !.mode = "continue"].pending = <<>>
      /\ [NoRun EXCEPT !.mode = "continue"].prepared = <<>>
  BY DEF NoRun
<1>5. ASSUME NEW c \in Callers, ContinueRun(c) PROVE HeldInv'
  <2>1. loc \in [Callers -> Local] /\ pc \in [Callers -> PCs]
    BY DEF TypeOK
  <2>2. \/ loc'[c] = [NoRun EXCEPT !.mode = "continue"]
        \/ loc'[c] = [NoRun EXCEPT !.prompts = Drained(steering, steeringMode),
                                   !.skip = TRUE]
        \/ loc'[c] = [NoRun EXCEPT !.prompts = Drained(followUp, followUpMode)]
    BY <1>5, <2>1 DEF ContinueRun
  <2>3. Acquire(c) /\ pc'[c] = "launch"
    BY <1>5, <2>1 DEF ContinueRun, Goto
  <2>4. /\ loc'[c].pending = <<>> /\ loc'[c].prepared = <<>>
        /\ loc'[c].mode = "continue" => loc'[c].prompts = <<>>
    <3>1. CASE loc'[c] = [NoRun EXCEPT !.mode = "continue"]
      BY <1>4, <3>1
    <3>2. ASSUME NEW q, \/ loc'[c] = [NoRun EXCEPT !.prompts = q, !.skip = TRUE]
                        \/ loc'[c] = [NoRun EXCEPT !.prompts = q]
          PROVE  loc'[c].pending = <<>> /\ loc'[c].prepared = <<>> /\ loc'[c].mode # "continue"
      BY <1>3, <3>2
    <3>3. QED
      BY <2>2, <3>1, <3>2
  <2>5. QED
    BY <2>3, <2>4, HeldStarts
<1>6. ASSUME NEW c \in Callers, NEW m \in Msgs, Prompt(c, m) PROVE HeldInv'
  <2>1. Acquire(c) /\ pc'[c] = "flags" /\ loc'[c] = [NoRun EXCEPT !.prompts = <<m>>]
    BY <1>6 DEF Prompt, Goto, TypeOK
  <2>2. QED
    BY <1>3, <2>1, HeldStarts
<1>7. QED
  BY <1>2, <1>5, <1>6 DEF Caller

(* Both invariants are preserved. *)
LEMMA ConservedStep ==
  ASSUME TypeOK, TypeOK', SingleRun, SingleRun', HeldInv, CountInv, [Next]_vars
  PROVE  HeldInv' /\ CountInv'
<1> USE AgentRunAssumption
<1>1. ASSUME UNCHANGED <<active, agent, queueVars, loc, histVars>>,
             \A d \in Callers : pc'[d] \in {pc[d], "idle"}
      PROVE  HeldInv' /\ CountInv'
  <2>1. HeldInv'
    BY <1>1 DEF HeldInv, HeldAt, Launched, Owning, PCs
  <2>2. CountInv'
    BY <1>1 DEF CountInv, Copies, queueVars, histVars
  <2>3. QED
    BY <2>1, <2>2
<1>2. CASE Caller
  <2>1. CountInv'
    BY <1>2, CountCaller DEF CountInv
  <2>2. QED
    BY <1>2, <2>1, HeldCaller
<1>3. ASSUME NEW c \in Callers, LoopStep(c) \/ OutsideStep(c) PROVE HeldInv' /\ CountInv'
  <2>1. HeldAt(c)
    BY DEF HeldInv
  <2>2. CASE Release(c)
    <3>1. CountInv'
      BY <2>1, <2>2, CountRelease DEF CountInv
    <3>2. HeldInv'
      BY <2>2 DEF Release, SingleRun, HeldInv, HeldAt, Launched, Owning, PCs
    <3>3. QED
      BY <3>1, <3>2
  <2>3. CASE NotifyWaiters(c)
    <3>1. /\ UNCHANGED <<active, agent, queueVars, loc, histVars>>
          /\ \A d \in Callers : pc'[d] \in {pc[d], "idle"}
      BY <2>3 DEF NotifyWaiters, Goto, TypeOK, runVars
    <3>2. QED
      BY <1>1, <3>1
  <2>4. CASE ~Release(c) /\ ~NotifyWaiters(c)
    <3>1. Moves(c)
      BY <1>3, <2>4, LoopMoves
    <3>2. Flows(c) /\ HeldAt(c)' /\ UNCHANGED <<cleared, dropped>>
      BY <1>3, <2>1, <2>4, LoopFlows
    <3>3. active = c /\ active' = c
      BY <3>1 DEF Moves, SingleRun, runVars
    <3>4. CountInv'
      BY <3>2, <3>3, CountFlow DEF CountInv
    <3>5. QED
      BY <3>1, <3>2, <3>4, HeldMove
  <2>5. QED
    BY <2>2, <2>3, <2>4
<1>4. ASSUME NEW w \in Waiters, WaitArm(w) \/ WaitCheck(w) \/ WaitSleep(w) \/ WaitWake(w)
      PROVE  HeldInv' /\ CountInv'
  <2>1. UNCHANGED <<active, agent, queueVars, loc, histVars, pc>>
    BY <1>4 DEF WaitArm, WaitCheck, WaitSleep, WaitWake, runVars
  <2>2. QED
    BY <1>1, <2>1
<1>5. CASE UNCHANGED vars
  BY <1>1, <1>5 DEF vars, runVars
<1>6. QED
  BY <1>2, <1>3, <1>4, <1>5 DEF Next

(* Both hold initially. *)
LEMMA ConservedInit == Init => HeldInv /\ CountInv
<1>1. Init => HeldInv
  BY DEF Init, HeldInv, HeldAt, Launched, Owning
<1>2. Init => CountInv
  <2> SUFFICES ASSUME Init, NEW m \in Msgs PROVE Copies(m) = IF m \in sent THEN 1 ELSE 0
    BY DEF CountInv
  <2>1. Occurrences(<<>>, m) = 0 /\ Occurrences(<<>>, User(m)) = 0
    BY CountFew
  <2>2. Cardinality({m} \cap {}) = 0
    BY MarkCount
  <2>3. /\ steering = <<>> /\ followUp = <<>> /\ agent.messages = <<>> /\ active = NoCaller
        /\ cleared = {} /\ dropped = {} /\ sent = {}
    BY DEF Init
  <2>4. QED
    BY <2>1, <2>2, <2>3 DEF Copies
<1>3. QED
  BY <1>1, <1>2

(* No message is lost or duplicated: whatever the callers, the queues, the *)
(* polls, the hooks and finish_run do, every submitted message is in       *)
(* exactly one place, for any number of callers and messages.              *)
THEOREM ConservationHolds == Spec => []Conservation
<1>1. TypeOK /\ CountInv => Conservation
  BY DEF TypeOK, CountInv, Conservation
<1>2. TypeOK /\ TypeOK' /\ SingleRun /\ SingleRun' /\ HeldInv /\ CountInv /\ [Next]_vars
        => HeldInv' /\ CountInv'
  BY ConservedStep
<1>3. QED
  BY <1>1, <1>2, ConservedInit, TypeCorrect, SingleRunHolds, PTL DEF Spec

-----------------------------------------------------------------------------
(* The order of steering.  The messages on their way form one line: the    *)
(* transcript, what the active run holds, the steering queue.  The         *)
(* invariant says that the whole line is in the order of the steer calls,  *)
(* and that follow-up messages, which join it late, were never steered.    *)

(* The entries of s appear in the order of st. *)
InOrder(s, st) ==
  \A i, j \in DOMAIN st : \A p, q \in DOMAIN s :
    (i < j /\ s[p] = User(st[i]) /\ s[q] = User(st[j])) => p < q

(* Nothing in t was steered before something in s. *)
Precedes(s, t, st) ==
  \A i, j \in DOMAIN st :
    i < j => ~(User(st[j]) \in Elements(s) /\ User(st[i]) \in Elements(t))

Unsteered(s, st) == \A i \in DOMAIN st : User(st[i]) \notin Elements(s)

(* Three consecutive pieces of the line. *)
InLine(t, h, s, st) ==
  /\ InOrder(t, st) /\ InOrder(h, st) /\ InOrder(s, st)
  /\ Precedes(t, h, st) /\ Precedes(t, s, st) /\ Precedes(h, s, st)

(* The messages the active run holds, in the order in which it publishes them. *)
InRun ==
  IF active = NoCaller THEN <<>>
  ELSE (loc[active].prompts \o loc[active].prepared) \o loc[active].pending

OrderInv ==
  /\ Elements(steered) \subseteq sent
  /\ Elements(followUp) \cap Elements(steered) = {}
  /\ InLine(agent.messages, Users(InRun), Users(steering), steered)

(* The elements of a concatenation. *)
LEMMA ElementsConcat ==
  ASSUME NEW S, NEW s \in Seq(S), NEW t \in Seq(S)
  PROVE  Elements(s \o t) = Elements(s) \cup Elements(t)
<1> DEFINE whole == s \o t
<1>1. /\ Len(s) \in Nat /\ Len(t) \in Nat /\ DOMAIN s = 1..Len(s) /\ DOMAIN t = 1..Len(t)
      /\ DOMAIN whole = 1..Len(s) + Len(t)
      /\ \A i \in 1..Len(s) + Len(t) :
           whole[i] = IF i <= Len(s) THEN s[i] ELSE t[i - Len(s)]
  <2>1. whole \in Seq(S) /\ Len(whole) = Len(s) + Len(t)
    BY ConcatProperties
  <2>2. DOMAIN whole = 1..Len(whole)
    BY <2>1, LenProperties
  <2>3. QED
    BY <2>1, <2>2, ConcatProperties, LenProperties
<1> HIDE DEF whole
<1>2. \A i \in DOMAIN s : i \in DOMAIN whole /\ whole[i] = s[i]
  BY <1>1
<1>3. \A i \in DOMAIN t : i + Len(s) \in DOMAIN whole /\ whole[i + Len(s)] = t[i]
  BY <1>1
<1>4. \A i \in DOMAIN whole : whole[i] \in Elements(s) \cup Elements(t)
  BY <1>1 DEF Elements
<1>5. Elements(s) \cup Elements(t) \subseteq Elements(whole)
  BY <1>2, <1>3 DEF Elements
<1>6. Elements(whole) \subseteq Elements(s) \cup Elements(t)
  BY <1>4 DEF Elements
<1>7. QED
  BY <1>5, <1>6 DEF whole

(* The elements of short sequences. *)
LEMMA ElementsFew ==
  ASSUME NEW x
  PROVE  Elements(<<>>) = {} /\ Elements(<<x>>) = {x}
BY DEF Elements

(* Messages and their entries. *)
LEMMA UsersElements ==
  ASSUME NEW q \in Seq(Msgs), NEW m
  PROVE  User(m) \in Elements(Users(q)) <=> m \in Elements(q)
<1>1. DOMAIN Users(q) = DOMAIN q /\ \A i \in DOMAIN q : Users(q)[i] = User(q[i])
  BY DEF Users
<1>2. \A x, y : User(x) = User(y) => x = y
  BY DEF User
<1>3. QED
  BY <1>1, <1>2 DEF Elements

(* The entries of short sequences, ... *)
LEMMA UsersFew ==
  ASSUME NEW x
  PROVE  Users(<<>>) = <<>> /\ Users(<<x>>) = <<User(x)>>
BY DEF Users

(* ... and of a concatenation. *)
LEMMA UsersConcat ==
  ASSUME NEW s \in Seq(Msgs), NEW t \in Seq(Msgs)
  PROVE  Users(s \o t) = Users(s) \o Users(t)
<1> DEFINE whole == s \o t
           us == Users(s)
           ut == Users(t)
           uw == Users(whole)
           both == us \o ut
<1>1. /\ Len(s) \in Nat /\ Len(t) \in Nat /\ DOMAIN s = 1..Len(s) /\ DOMAIN t = 1..Len(t)
  BY LenProperties
<1>2. /\ whole \in Seq(Msgs) /\ Len(whole) = Len(s) + Len(t)
      /\ \A i \in 1..Len(s) + Len(t) :
           whole[i] = IF i <= Len(s) THEN s[i] ELSE t[i - Len(s)]
  BY ConcatProperties
<1>3. DOMAIN whole = 1..Len(whole)
  BY <1>2, LenProperties
<1> HIDE DEF whole
<1>4. /\ us \in Seq(Entry) /\ ut \in Seq(Entry) /\ uw \in Seq(Entry)
  BY <1>2, UsersType
<1>5. /\ DOMAIN us = DOMAIN s /\ DOMAIN ut = DOMAIN t /\ DOMAIN uw = DOMAIN whole
      /\ \A i \in DOMAIN s : us[i] = User(s[i])
      /\ \A i \in DOMAIN t : ut[i] = User(t[i])
      /\ \A i \in DOMAIN whole : uw[i] = User(whole[i])
  BY DEF Users
<1> HIDE DEF us, ut, uw
<1>6. Len(us) = Len(s) /\ Len(ut) = Len(t) /\ Len(uw) = Len(whole)
  BY <1>1, <1>2, <1>3, <1>4, <1>5, LenProperties
<1>7. /\ both \in Seq(Entry) /\ Len(both) = Len(us) + Len(ut)
      /\ \A i \in 1..Len(us) + Len(ut) :
           both[i] = IF i <= Len(us) THEN us[i] ELSE ut[i - Len(us)]
  BY <1>4, ConcatProperties
<1> HIDE DEF both
<1>8. ASSUME NEW i \in 1..Len(uw) PROVE uw[i] = both[i]
  <2>1. i \in 1..Len(s) + Len(t) /\ i \in DOMAIN whole /\ uw[i] = User(whole[i])
    BY <1>2, <1>3, <1>5, <1>6
  <2>2. CASE i <= Len(s)
    <3>1. i \in DOMAIN s /\ whole[i] = s[i] /\ both[i] = us[i]
      BY <1>1, <1>2, <1>6, <1>7, <2>1, <2>2
    <3>2. QED
      BY <1>5, <2>1, <3>1
  <2>3. CASE ~(i <= Len(s))
    <3>1. i - Len(s) \in DOMAIN t
      BY <1>1, <2>1, <2>3
    <3>2. whole[i] = t[i - Len(s)]
      BY <1>2, <2>1, <2>3
    <3>3. both[i] = ut[i - Len(s)]
      BY <1>6, <1>7, <2>1, <2>3
    <3>4. QED
      BY <1>5, <2>1, <3>1, <3>2, <3>3
  <2>4. QED
    BY <2>2, <2>3
<1>9. Len(uw) = Len(both)
  BY <1>2, <1>6, <1>7
<1>10. uw = both
  BY <1>4, <1>7, <1>8, <1>9, SeqEqual
<1>11. QED
  BY <1>10 DEF uw, both, us, ut, whole

(* A concatenation is in order when its parts are and one precedes the other. *)
LEMMA OrderConcat ==
  ASSUME NEW s \in Seq(Entry), NEW t \in Seq(Entry), NEW st \in Seq(Msgs)
  PROVE  InOrder(s \o t, st) <=> InOrder(s, st) /\ InOrder(t, st) /\ Precedes(s, t, st)
<1> DEFINE whole == s \o t
<1>1. /\ Len(s) \in Nat /\ Len(t) \in Nat /\ DOMAIN s = 1..Len(s) /\ DOMAIN t = 1..Len(t)
      /\ DOMAIN whole = 1..Len(s) + Len(t)
      /\ \A i \in 1..Len(s) + Len(t) :
           whole[i] = IF i <= Len(s) THEN s[i] ELSE t[i - Len(s)]
  <2>1. whole \in Seq(Entry) /\ Len(whole) = Len(s) + Len(t)
    BY ConcatProperties
  <2>2. DOMAIN whole = 1..Len(whole)
    BY <2>1, LenProperties
  <2>3. QED
    BY <2>1, <2>2, ConcatProperties, LenProperties
<1> HIDE DEF whole
<1>2. \A p \in DOMAIN s : p \in DOMAIN whole /\ whole[p] = s[p] /\ p <= Len(s) /\ p \in Nat
  BY <1>1
<1>3. \A p \in DOMAIN t : /\ p + Len(s) \in DOMAIN whole /\ whole[p + Len(s)] = t[p]
                          /\ p \in Nat \ {0}
  BY <1>1
<1>4. \A p \in DOMAIN whole :
        \/ p \in DOMAIN s /\ whole[p] = s[p]
        \/ p - Len(s) \in DOMAIN t /\ whole[p] = t[p - Len(s)] /\ p > Len(s)
  BY <1>1
<1>5. DOMAIN whole \subseteq Nat
  BY <1>1
<1>6. ASSUME InOrder(whole, st) PROVE InOrder(s, st) /\ InOrder(t, st) /\ Precedes(s, t, st)
  <2>1. InOrder(s, st)
    BY <1>2, <1>6 DEF InOrder
  <2>2. InOrder(t, st)
    <3> SUFFICES ASSUME NEW i \in DOMAIN st, NEW j \in DOMAIN st, NEW p \in DOMAIN t,
                        NEW q \in DOMAIN t, i < j, t[p] = User(st[i]), t[q] = User(st[j])
                 PROVE  p < q
      BY DEF InOrder
    <3>1. p + Len(s) < q + Len(s)
      BY <1>3, <1>6 DEF InOrder
    <3>2. QED
      BY <1>1, <1>3, <3>1
  <2>3. Precedes(s, t, st)
    <3> SUFFICES ASSUME NEW i \in DOMAIN st, NEW j \in DOMAIN st, i < j,
                        NEW q \in DOMAIN s, NEW p \in DOMAIN t,
                        s[q] = User(st[j]), t[p] = User(st[i])
                 PROVE  FALSE
      BY DEF Precedes, Elements
    <3>1. p + Len(s) < q
      BY <1>2, <1>3, <1>6 DEF InOrder
    <3>2. QED
      BY <1>1, <1>2, <1>3, <3>1
  <2>4. QED
    BY <2>1, <2>2, <2>3
<1>7. ASSUME InOrder(s, st), InOrder(t, st), Precedes(s, t, st) PROVE InOrder(whole, st)
  <2> SUFFICES ASSUME NEW i \in DOMAIN st, NEW j \in DOMAIN st, NEW p \in DOMAIN whole,
                      NEW q \in DOMAIN whole, i < j, whole[p] = User(st[i]),
                      whole[q] = User(st[j])
               PROVE  p < q
    BY DEF InOrder
  <2>1. CASE p \in DOMAIN s /\ whole[p] = s[p] /\ q \in DOMAIN s /\ whole[q] = s[q]
    BY <1>7, <2>1 DEF InOrder
  <2>2. CASE /\ p - Len(s) \in DOMAIN t /\ whole[p] = t[p - Len(s)]
             /\ q - Len(s) \in DOMAIN t /\ whole[q] = t[q - Len(s)]
    <3>1. p - Len(s) < q - Len(s)
      BY <1>7, <2>2 DEF InOrder
    <3>2. QED
      BY <1>1, <1>5, <3>1
  <2>3. CASE p \in DOMAIN s /\ q > Len(s)
    BY <1>1, <1>2, <1>5, <2>3
  <2>4. CASE /\ p - Len(s) \in DOMAIN t /\ whole[p] = t[p - Len(s)]
             /\ q \in DOMAIN s /\ whole[q] = s[q]
    BY <1>7, <2>4 DEF Precedes, Elements
  <2>5. QED
    BY <1>4, <2>1, <2>2, <2>3, <2>4
<1>8. QED
  BY <1>6, <1>7 DEF whole

(* A piece that holds no steered message fits anywhere. *)
LEMMA UnsteeredFits ==
  ASSUME NEW s, NEW t, NEW st \in Seq(Msgs), Unsteered(s, st)
  PROVE  InOrder(s, st) /\ Precedes(s, t, st) /\ Precedes(t, s, st)
BY DEF Unsteered, InOrder, Precedes, Elements

(* What precedes or follows a concatenation does so for both its parts. *)
LEMMA PrecedesConcat ==
  ASSUME NEW a \in Seq(Entry), NEW b \in Seq(Entry), NEW c, NEW st
  PROVE  /\ Precedes(a \o b, c, st) <=> Precedes(a, c, st) /\ Precedes(b, c, st)
         /\ Precedes(c, a \o b, st) <=> Precedes(c, a, st) /\ Precedes(c, b, st)
<1>1. Elements(a \o b) = Elements(a) \cup Elements(b)
  BY ElementsConcat
<1>2. QED
  BY <1>1 DEF Precedes

(* What the messages do on their way: all that a run holds joins the       *)
(* transcript, the front of the queue joins what it holds, pieces without  *)
(* steered messages come in, pieces are removed.                           *)
LEMMA LineMoves ==
  ASSUME NEW t \in Seq(Entry), NEW h \in Seq(Entry), NEW s \in Seq(Entry),
         NEW q \in Seq(Entry), NEW st \in Seq(Msgs)
  PROVE  /\ InLine(t, h, s, st) => InLine(t \o h, <<>>, s, st)
         /\ InLine(t, h, q \o s, st) => InLine(t, h \o q, s, st)
         /\ Unsteered(q, st) /\ InLine(t, h, s, st) => /\ InLine(t \o q, h, s, st)
                                                       /\ InLine(t, h \o q, s, st)
                                                       /\ InLine(q, h, s, st)
         /\ InLine(t, h, s, st) => InLine(t, <<>>, s, st) /\ InLine(t, h, <<>>, st)
         /\ InLine(t \o q, h, s, st) => InLine(t, h, s, st)
<1>1. Unsteered(<<>>, st)
  BY ElementsFew DEF Unsteered
<1>2. \A a, b \in Seq(Entry) :
        InOrder(a \o b, st) <=> InOrder(a, st) /\ InOrder(b, st) /\ Precedes(a, b, st)
  BY OrderConcat
<1>3. \A a, b \in Seq(Entry) : \A c :
        /\ Precedes(a \o b, c, st) <=> Precedes(a, c, st) /\ Precedes(b, c, st)
        /\ Precedes(c, a \o b, st) <=> Precedes(c, a, st) /\ Precedes(c, b, st)
  BY PrecedesConcat
<1>4. \A a, b : Unsteered(a, st) => InOrder(a, st) /\ Precedes(a, b, st) /\ Precedes(b, a, st)
  BY UnsteeredFits
<1>5. InLine(t, h, s, st) => InLine(t \o h, <<>>, s, st)
  BY <1>1, <1>2, <1>3, <1>4 DEF InLine
<1>6. InLine(t, h, q \o s, st) => InLine(t, h \o q, s, st)
  BY <1>2, <1>3 DEF InLine
<1>7. ASSUME Unsteered(q, st), InLine(t, h, s, st)
      PROVE  InLine(t \o q, h, s, st) /\ InLine(t, h \o q, s, st) /\ InLine(q, h, s, st)
  BY <1>2, <1>3, <1>4, <1>7 DEF InLine
<1>8. InLine(t, h, s, st) => InLine(t, <<>>, s, st) /\ InLine(t, h, <<>>, st)
  BY <1>1, <1>4 DEF InLine
<1>9. InLine(t \o q, h, s, st) => InLine(t, h, s, st)
  BY <1>2, <1>3 DEF InLine
<1>10. QED
  BY <1>5, <1>6, <1>7, <1>8, <1>9

(* A hook's message comes in between the prompts and the polled messages. *)
LEMMA LineInserts ==
  ASSUME NEW t \in Seq(Entry), NEW a \in Seq(Entry), NEW b \in Seq(Entry),
         NEW s \in Seq(Entry), NEW q \in Seq(Entry), NEW st \in Seq(Msgs),
         InLine(t, a \o b, s, st), Unsteered(q, st)
  PROVE  InLine(t, (a \o q) \o b, s, st)
<1>1. a \o q \in Seq(Entry)
  BY ConcatProperties
<1>2. \A x, y \in Seq(Entry) :
        InOrder(x \o y, st) <=> InOrder(x, st) /\ InOrder(y, st) /\ Precedes(x, y, st)
  BY OrderConcat
<1>3. \A x, y \in Seq(Entry) : \A z :
        /\ Precedes(x \o y, z, st) <=> Precedes(x, z, st) /\ Precedes(y, z, st)
        /\ Precedes(z, x \o y, st) <=> Precedes(z, x, st) /\ Precedes(z, y, st)
  BY PrecedesConcat
<1>4. \A x : /\ InOrder(q, st) /\ Precedes(q, x, st) /\ Precedes(x, q, st)
  BY UnsteeredFits
<1>5. QED
  BY <1>1, <1>2, <1>3, <1>4 DEF InLine

(* A steer call puts its message at the end of the line. *)
LEMMA LineGrows ==
  ASSUME NEW t \in Seq(Entry), NEW h \in Seq(Entry), NEW s \in Seq(Entry),
         NEW st \in Seq(Msgs), NEW x \in Msgs, InLine(t, h, s, st), x \notin Elements(st),
         User(x) \notin Elements(t), User(x) \notin Elements(h), User(x) \notin Elements(s)
  PROVE  InLine(t, h, s \o <<User(x)>>, Append(st, x))
<1> DEFINE st1 == Append(st, x)
           last == <<User(x)>>
<1>1. last \in Seq(Entry) /\ Elements(last) = {User(x)}
  BY EntryTypes, ElementsFew
<1>2. /\ st1 \in Seq(Msgs) /\ Len(st) \in Nat /\ DOMAIN st = 1..Len(st)
      /\ DOMAIN st1 = 1..Len(st) + 1 /\ st1[Len(st) + 1] = x
      /\ \A i \in 1..Len(st) : st1[i] = st[i]
  BY AppendProperties, LenProperties
<1>3. \A y : User(y) = User(x) => y = x
  BY DEF User
<1>4. \A i \in 1..Len(st) : User(st[i]) # User(x)
  BY <1>2, <1>3 DEF Elements
<1> HIDE DEF st1
<1>5. \A i, j \in DOMAIN st1 : i < j =>
        /\ i \in DOMAIN st /\ st1[i] = st[i] /\ User(st1[i]) # User(x)
        /\ \/ j \in DOMAIN st /\ st1[j] = st[j]
           \/ st1[j] = x
  BY <1>2, <1>4
<1>6. ASSUME NEW a, User(x) \notin Elements(a), InOrder(a, st) PROVE InOrder(a, st1)
  BY <1>5, <1>6 DEF InOrder, Elements
<1>7. ASSUME NEW a, NEW b, User(x) \notin Elements(a), Precedes(a, b, st)
      PROVE  Precedes(a, b, st1)
  BY <1>5, <1>7 DEF Precedes
<1>8. \A a : Precedes(a, last, st1)
  BY <1>1, <1>5 DEF Precedes
<1>9. InOrder(last, st1)
  <2>1. \A p \in DOMAIN last : last[p] = User(x)
    OBVIOUS
  <2>2. QED
    BY <1>5, <2>1 DEF InOrder
<1> HIDE DEF last
<1>10. InOrder(s \o last, st1)
  BY <1>1, <1>2, <1>6, <1>8, <1>9, OrderConcat DEF InLine
<1>11. Precedes(t, s \o last, st1) /\ Precedes(h, s \o last, st1)
  BY <1>1, <1>7, <1>8, PrecedesConcat DEF InLine
<1>12. QED
  BY <1>6, <1>7, <1>10, <1>11 DEF InLine, st1, last

(* The user messages of a transcript are those it holds an entry of. *)
LEMMA UserIdsElements ==
  ASSUME NEW s \in Seq(Entry), NEW m \in Msgs
  PROVE  User(m) \in Elements(s) <=> m \in UserIds(s)
BY CountZero, CountUserIds

(* Pieces that hold no steered message. *)
LEMMA UnsteeredPieces ==
  ASSUME NEW st \in Seq(Msgs)
  PROVE  /\ \A q \in Seq(Msgs) : Elements(q) \cap Elements(st) = {} => Unsteered(Users(q), st)
         /\ \A s \in Seq(Entry) : UserIds(s) = {} => Unsteered(s, st)
         /\ Unsteered(<<>>, st) /\ Unsteered(<<Summary>>, st)
         /\ Unsteered(<<Assistant("done")>>, st)
<1>1. \A i \in DOMAIN st : st[i] \in Msgs /\ st[i] \in Elements(st)
  BY LenProperties, ElementOfSeq DEF Elements
<1>2. ASSUME NEW q \in Seq(Msgs), Elements(q) \cap Elements(st) = {} PROVE Unsteered(Users(q), st)
  BY <1>1, <1>2, UsersElements DEF Unsteered
<1>3. ASSUME NEW s \in Seq(Entry), UserIds(s) = {} PROVE Unsteered(s, st)
  BY <1>1, <1>3, UserIdsElements DEF Unsteered
<1>4. Unsteered(<<>>, st)
  BY ElementsFew DEF Unsteered
<1>5. Unsteered(<<Summary>>, st) /\ Unsteered(<<Assistant("done")>>, st)
  <2>1. \A m \in Msgs : Summary # User(m) /\ Assistant("done") # User(m)
    BY NotAMessage
  <2>2. Elements(<<Summary>>) = {Summary} /\ Elements(<<Assistant("done")>>) = {Assistant("done")}
    BY ElementsFew
  <2>3. QED
    BY <1>1, <2>1, <2>2 DEF Unsteered
<1>6. QED
  BY <1>2, <1>3, <1>4, <1>5

(* What the active run holds. *)
LEMMA InRunType ==
  ASSUME TypeOK
  PROVE  InRun \in Seq(Msgs) /\ Users(InRun) \in Seq(Entry) /\ Users(steering) \in Seq(Entry)
<1>1. steering \in Seq(Msgs) /\ <<>> \in Seq(Msgs)
  BY EmptySeq DEF TypeOK
<1>2. InRun \in Seq(Msgs)
  <2>1. CASE active = NoCaller
    BY <1>1, <2>1 DEF InRun
  <2>2. CASE active # NoCaller
    <3>1. /\ loc[active].prompts \in Seq(Msgs) /\ loc[active].pending \in Seq(Msgs)
          /\ loc[active].prepared \in Seq(Msgs)
      BY <2>2 DEF TypeOK, Local
    <3>2. loc[active].prompts \o loc[active].prepared \in Seq(Msgs)
      BY <3>1, ConcatProperties
    <3>3. (loc[active].prompts \o loc[active].prepared) \o loc[active].pending \in Seq(Msgs)
      BY <3>1, <3>2, ConcatProperties
    <3>4. QED
      BY <2>2, <3>3, Zenon DEF InRun
  <2>3. QED
    BY <2>1, <2>2
<1>3. QED
  BY <1>1, <1>2, UsersType

(* The flows of the active run keep the line in order. *)
LEMMA OrderFlow ==
  ASSUME TypeOK, TypeOK', NEW c \in Callers, active = c, active' = c, Flows(c),
         UNCHANGED steered, OrderInv
  PROVE  OrderInv'
<1> USE AgentRunAssumption
<1> DEFINE t == agent.messages
           h == Users(InRun)
           s == Users(steering)
           p == loc[c].prompts
           r == loc[c].prepared
           q == loc[c].pending
<1>1. /\ p \in Seq(Msgs) /\ q \in Seq(Msgs) /\ r \in Seq(Msgs) /\ p \o r \in Seq(Msgs)
      /\ t \in Seq(Entry) /\ h \in Seq(Entry) /\ s \in Seq(Entry) /\ steered \in Seq(Msgs)
      /\ followUp \in Seq(Msgs) /\ <<>> \in Seq(Msgs)
  <2>1. /\ p \in Seq(Msgs) /\ q \in Seq(Msgs) /\ r \in Seq(Msgs)
        /\ t \in Seq(Entry) /\ steered \in Seq(Msgs) /\ followUp \in Seq(Msgs)
    BY DEF TypeOK, Local
  <2>2. QED
    BY <2>1, InRunType, ConcatProperties, EmptySeq
<1>2. /\ InRun = (p \o r) \o q
      /\ InRun' = (loc'[c].prompts \o loc'[c].prepared) \o loc'[c].pending
  BY DEF InRun
<1>3. /\ InLine(t, h, s, steered) /\ Elements(steered) \subseteq sent
      /\ Elements(followUp) \cap Elements(steered) = {}
  BY DEF OrderInv
<1>4. ASSUME sent \subseteq sent', Elements(followUp') \subseteq Elements(followUp),
             InLine(agent'.messages, Users(InRun'), Users(steering'), steered)
      PROVE  OrderInv'
  BY <1>3, <1>4 DEF OrderInv
<1>5. CASE FlowsQuiet(c)
  <2>1. PICK entries \in Seq(Entry) : UserIds(entries) = {} /\ agent'.messages = t \o entries
    BY <1>5 DEF FlowsQuiet
  <2>2. InRun' = InRun /\ UNCHANGED <<steering, followUp, sent>>
    BY <1>2, <1>5 DEF FlowsQuiet, SameHeld
  <2>3. Unsteered(entries, steered)
    BY <1>1, <2>1, UnsteeredPieces
  <2>4. InLine(t \o entries, h, s, steered)
    BY <1>1, <1>3, <2>3, LineMoves
  <2>5. QED
    BY <1>4, <2>1, <2>2, <2>4
<1>6. CASE FlowsOut(c)
  <2>1. agent'.messages = t \o h /\ UNCHANGED <<steering, followUp, sent>>
    BY <1>2, <1>6 DEF FlowsOut
  <2>2. InRun' = <<>>
    BY <1>1, <1>2, <1>6, ConcatEmptySeq DEF FlowsOut
  <2>3. InLine(t \o h, <<>>, s, steered)
    BY <1>1, <1>3, LineMoves
  <2>4. QED
    BY <1>4, <2>1, <2>2, <2>3, UsersFew
<1>7. CASE FlowsNew(c)
  <2>1. PICK x \in {<<>>} \cup {<<m>> : m \in Msgs \ sent} :
          /\ sent' = sent \cup Elements(x) /\ r = <<>> /\ loc'[c].prepared = x
          /\ loc'[c].prompts = p /\ loc'[c].pending = q
          /\ UNCHANGED <<agent, steering, followUp>>
    BY <1>7 DEF FlowsNew
  <2>2. x \in Seq(Msgs) /\ Elements(x) \cap Elements(steered) = {}
    <3>1. CASE x = <<>>
      BY <1>1, <3>1, ElementsFew
    <3>2. ASSUME NEW m \in Msgs \ sent, x = <<m>>
          PROVE  x \in Seq(Msgs) /\ Elements(x) \cap Elements(steered) = {}
      BY <1>3, <3>2, ElementsFew
    <3>3. QED
      BY <3>1, <3>2
  <2>3. p \o x \in Seq(Msgs) /\ Users(p) \in Seq(Entry) /\ Users(q) \in Seq(Entry)
        /\ Users(x) \in Seq(Entry)
    BY <1>1, <2>2, ConcatProperties, UsersType
  <2>4. h = Users(p) \o Users(q)
    <3>1. InRun = p \o q
      BY <1>1, <1>2, <2>1, ConcatEmptySeq
    <3>2. QED
      BY <1>1, <3>1, UsersConcat
  <2>5. Users(InRun') = (Users(p) \o Users(x)) \o Users(q)
    <3>1. Users((p \o x) \o q) = Users(p \o x) \o Users(q)
      BY <1>1, <2>3, UsersConcat
    <3>2. Users(p \o x) = Users(p) \o Users(x)
      BY <1>1, <2>2, UsersConcat
    <3>3. QED
      BY <1>2, <2>1, <3>1, <3>2
  <2>6. Unsteered(Users(x), steered)
    BY <1>1, <2>2, UnsteeredPieces
  <2>7. InLine(t, (Users(p) \o Users(x)) \o Users(q), s, steered)
    BY <1>1, <1>3, <2>3, <2>4, <2>6, LineInserts
  <2>8. QED
    BY <1>4, <2>1, <2>5, <2>7
<1>8. ASSUME NEW front \in Seq(Msgs), q = <<>>, loc'[c].pending = front,
             loc'[c].prompts = p, loc'[c].prepared = r
      PROVE  Users(InRun') = h \o Users(front) /\ Users(front) \in Seq(Entry)
  <2>1. InRun = p \o r
    BY <1>1, <1>2, <1>8, ConcatEmptySeq
  <2>2. InRun' = (p \o r) \o front
    BY <1>2, <1>8
  <2>3. Users((p \o r) \o front) = Users(p \o r) \o Users(front)
    BY <1>1, UsersConcat
  <2>4. QED
    BY <2>1, <2>2, <2>3, UsersType
<1>9. CASE FlowsIn(c, steering) /\ UNCHANGED followUp
  <2>1. PICK front \in Seq(Msgs), rest \in Seq(Msgs) :
          /\ steering = front \o rest /\ steering' = rest
          /\ q = <<>> /\ loc'[c].pending = front
          /\ loc'[c].prompts = p /\ loc'[c].prepared = r
          /\ UNCHANGED <<agent, sent>>
    BY <1>9 DEF FlowsIn
  <2>2. Users(InRun') = h \o Users(front) /\ Users(front) \in Seq(Entry)
    BY <1>8, <2>1
  <2>3. s = Users(front) \o Users(rest) /\ Users(rest) \in Seq(Entry)
    BY <2>1, UsersConcat, UsersType
  <2>4. InLine(t, h \o Users(front), Users(rest), steered)
    BY <1>1, <1>3, <2>2, <2>3, LineMoves
  <2>5. QED
    BY <1>4, <1>9, <2>1, <2>2, <2>4
<1>10. CASE FlowsIn(c, followUp) /\ UNCHANGED steering
  <2>1. PICK front \in Seq(Msgs), rest \in Seq(Msgs) :
          /\ followUp = front \o rest /\ followUp' = rest
          /\ q = <<>> /\ loc'[c].pending = front
          /\ loc'[c].prompts = p /\ loc'[c].prepared = r
          /\ UNCHANGED <<agent, sent>>
    BY <1>10 DEF FlowsIn
  <2>2. Users(InRun') = h \o Users(front) /\ Users(front) \in Seq(Entry)
    BY <1>8, <2>1
  <2>3. Elements(followUp) = Elements(front) \cup Elements(rest)
    BY <2>1, ElementsConcat
  <2>4. Unsteered(Users(front), steered)
    BY <1>1, <1>3, <2>3, UnsteeredPieces
  <2>5. InLine(t, h \o Users(front), s, steered)
    BY <1>1, <1>3, <2>2, <2>4, LineMoves
  <2>6. QED
    BY <1>4, <1>10, <2>1, <2>2, <2>3, <2>5
<1>11. QED
  BY <1>5, <1>6, <1>7, <1>9, <1>10 DEF Flows

(* Appending one element. *)
LEMMA ElementsAppend ==
  ASSUME NEW S, NEW s \in Seq(S), NEW x \in S
  PROVE  Elements(Append(s, x)) = Elements(s) \cup {x}
<1>1. Append(s, x) = s \o <<x>> /\ <<x>> \in Seq(S)
  BY AppendIsConcat
<1>2. Elements(s \o <<x>>) = Elements(s) \cup Elements(<<x>>)
  <2> DEFINE last == <<x>>
  <2>1. last \in Seq(S)
    BY <1>1
  <2> HIDE DEF last
  <2>2. Elements(s \o last) = Elements(s) \cup Elements(last)
    BY <2>1, ElementsConcat
  <2>3. QED
    BY <2>2 DEF last
<1>3. QED
  BY <1>1, <1>2, ElementsFew

(* A message nobody has submitted is nowhere in the line. *)
LEMMA FreshMessage ==
  ASSUME TypeOK, CountInv, NEW x \in Msgs \ sent
  PROVE  /\ x \notin Elements(followUp)
         /\ User(x) \notin Elements(agent.messages) /\ User(x) \notin Elements(Users(steering))
         /\ User(x) \notin Elements(Users(InRun))
<1> USE AgentRunAssumption
<1> DEFINE S == Occurrences(steering, x)
           F == Occurrences(followUp, x)
           U == Occurrences(agent.messages, User(x))
           C == Cardinality({x} \cap cleared)
           D == Cardinality({x} \cap dropped)
           H == HeldCount(x)
<1>1. /\ S \in Nat /\ F \in Nat /\ U \in Nat /\ H \in Nat
  BY CopiesTypes
<1>2. C \in Nat /\ D \in Nat
  BY MarkCount
<1>3. S + F + U + H + C + D = 0
  BY DEF CountInv, Copies, HeldCount
<1> HIDE DEF S, F, U, H, C, D
<1>4. S = 0 /\ F = 0 /\ U = 0 /\ H = 0
  BY <1>1, <1>2, <1>3
<1>5. steering \in Seq(Msgs) /\ followUp \in Seq(Msgs) /\ agent.messages \in Seq(Entry)
  BY DEF TypeOK
<1>6. /\ x \notin Elements(followUp) /\ x \notin Elements(steering)
      /\ User(x) \notin Elements(agent.messages)
  BY <1>4, <1>5, CountZero DEF S, F, U
<1>7. User(x) \notin Elements(Users(steering))
  BY <1>5, <1>6, UsersElements
<1>8. x \notin Elements(InRun)
  <2>1. CASE active = NoCaller
    BY <2>1, ElementsFew DEF InRun
  <2>2. CASE active # NoCaller
    <3> DEFINE l == loc[active]
    <3>1. l \in Local /\ InRun = (l.prompts \o l.prepared) \o l.pending
      BY <2>2 DEF TypeOK, InRun
    <3>2. HeldCount(x) = Occurrences(l.prompts \o l.pending \o l.prepared, x)
      BY <2>2 DEF HeldCount
    <3> HIDE DEF l
    <3>3. Occurrences(InRun, x) = HeldCount(x)
      BY <3>1, <3>2, HeldLocal
    <3>4. QED
      BY <1>4, <3>3, InRunType, CountZero DEF H
  <2>3. QED
    BY <2>1, <2>2
<1>9. User(x) \notin Elements(Users(InRun))
  BY <1>8, InRunType, UsersElements
<1>10. QED
  BY <1>6, <1>7, <1>9

(* The operations any task may call keep the line in order. *)
LEMMA OrderCaller ==
  ASSUME TypeOK, TypeOK', CountInv, OrderInv, Caller
  PROVE  OrderInv'
<1> USE AgentRunAssumption
<1> DEFINE t == agent.messages
           h == Users(InRun)
           s == Users(steering)
<1>1. /\ t \in Seq(Entry) /\ h \in Seq(Entry) /\ s \in Seq(Entry) /\ steered \in Seq(Msgs)
      /\ steering \in Seq(Msgs) /\ followUp \in Seq(Msgs) /\ <<>> \in Seq(Entry)
      /\ agent \in AgentType
  BY InRunType, EmptySeq DEF TypeOK, AgentType
<1>2. /\ InLine(t, h, s, steered) /\ Elements(steered) \subseteq sent
      /\ Elements(followUp) \cap Elements(steered) = {}
  BY DEF OrderInv
<1>3. ASSUME UNCHANGED steered, sent \subseteq sent',
             Elements(followUp') \cap Elements(steered) = {},
             InLine(agent'.messages, Users(InRun'), Users(steering'), steered)
      PROVE  OrderInv'
  BY <1>2, <1>3 DEF OrderInv
<1>4. UNCHANGED <<active, loc>> => InRun' = InRun
  BY DEF InRun
<1>5. Users(<<>>) = <<>> /\ Elements(<<>>) = {}
  BY UsersFew, ElementsFew
<1> USE DEF runVars, queueVars, histVars
<1>6. ASSUME NEW x \in Msgs, Steer(x) PROVE OrderInv'
  <2>1. /\ x \in Msgs \ sent /\ sent' = sent \cup {x} /\ steered' = Append(steered, x)
        /\ steering' = Append(steering, x) /\ UNCHANGED <<active, loc, agent, followUp>>
    BY <1>6 DEF Steer
  <2>2. /\ x \notin Elements(followUp) /\ User(x) \notin Elements(t)
        /\ User(x) \notin Elements(s) /\ User(x) \notin Elements(h)
    BY <2>1, FreshMessage
  <2>3. <<x>> \in Seq(Msgs) /\ Append(steering, x) = steering \o <<x>>
    BY <1>1, AppendIsConcat
  <2>4. Users(steering') = s \o <<User(x)>>
    BY <1>1, <2>1, <2>3, UsersConcat, UsersFew
  <2>5. Elements(steered') = Elements(steered) \cup {x}
    BY <1>1, <2>1, ElementsAppend
  <2>6. InLine(t, h, s \o <<User(x)>>, steered')
    BY <1>1, <1>2, <2>1, <2>2, LineGrows
  <2>7. QED
    BY <1>2, <1>4, <2>1, <2>2, <2>4, <2>5, <2>6 DEF OrderInv
<1>7. ASSUME NEW x \in Msgs, FollowUp(x) PROVE OrderInv'
  <2>1. /\ x \in Msgs \ sent /\ sent' = sent \cup {x} /\ followUp' = Append(followUp, x)
        /\ UNCHANGED <<active, loc, agent, steering, steered>>
    BY <1>7 DEF FollowUp
  <2>2. Elements(followUp') = Elements(followUp) \cup {x}
    BY <1>1, <2>1, ElementsAppend
  <2>3. QED
    BY <1>2, <1>3, <1>4, <2>1, <2>2
<1>8. ASSUME NEW x \in Msgs \ sent
      PROVE  Unsteered(<<User(x)>>, steered) /\ <<User(x)>> \in Seq(Entry)
  <2>1. <<x>> \in Seq(Msgs) /\ Elements(<<x>>) \cap Elements(steered) = {}
    BY <1>2, ElementsFew
  <2>2. Users(<<x>>) = <<User(x)>>
    BY UsersFew
  <2>3. QED
    BY <1>1, <2>1, <2>2, UnsteeredPieces, UsersType
<1>9. ASSUME NEW x \in Msgs, PushMessage(x) PROVE OrderInv'
  <2>1. /\ x \in Msgs \ sent /\ sent' = sent \cup {x}
        /\ UNCHANGED <<active, loc, steering, followUp, steered>>
    BY <1>9 DEF PushMessage
  <2>2. agent'.messages = t \o <<User(x)>>
    <3>1. agent'.messages = Append(t, User(x)) /\ User(x) \in Entry
      BY <1>1, <1>9, EntryTypes DEF PushMessage, AgentType
    <3>2. QED
      BY <1>1, <3>1, AppendIsConcat
  <2>3. InLine(t \o <<User(x)>>, h, s, steered)
    BY <1>1, <1>2, <1>8, <2>1, LineMoves
  <2>4. QED
    BY <1>2, <1>3, <1>4, <2>1, <2>2, <2>3
<1>10. CASE \/ \E mode \in QueueModes : SetSteeringMode(mode) \/ SetFollowUpMode(mode)
            \/ Abort
  <2>1. UNCHANGED <<active, loc, agent, steering, followUp, steered, sent>>
    BY <1>10 DEF SetSteeringMode, SetFollowUpMode, Abort
  <2>2. QED
    BY <1>2, <1>3, <1>4, <2>1
<1>11. CASE ClearQueues
  <2>1. /\ steering' = <<>> /\ followUp' = <<>> /\ UNCHANGED <<active, loc, agent, steered, sent>>
    BY <1>11 DEF ClearQueues
  <2>2. InLine(t, h, <<>>, steered)
    BY <1>1, <1>2, LineMoves
  <2>3. QED
    BY <1>3, <1>4, <1>5, <2>1, <2>2
<1>12. CASE Reset
  <2>1. /\ steering' = <<>> /\ followUp' = <<>> /\ agent'.messages = <<>>
        /\ UNCHANGED <<active, loc, steered, sent>>
    BY <1>12 DEF Reset, NoActiveRun
  <2>2. InLine(<<>>, h, <<>>, steered)
    <3>1. InLine(<<>>, h, s, steered)
      BY <1>1, <1>2, UnsteeredPieces, LineMoves
    <3>2. QED
      BY <1>1, <3>1, LineMoves
  <2>3. QED
    BY <1>3, <1>4, <1>5, <2>1, <2>2
<1>13. CASE ReplaceMessages
  <2>1. /\ agent'.messages = <<Summary>> /\ UNCHANGED <<active, loc, steering, followUp, steered, sent>>
    BY <1>1, <1>13 DEF ReplaceMessages, AgentType
  <2>2. <<Summary>> \in Seq(Entry) /\ Unsteered(<<Summary>>, steered)
    BY <1>1, EntryTypes, UnsteeredPieces
  <2>3. InLine(<<Summary>>, h, s, steered)
    BY <1>1, <1>2, <2>2, LineMoves
  <2>4. QED
    BY <1>2, <1>3, <1>4, <2>1, <2>3
<1>14. CASE PopLastIfAssistant \/ ReplaceLastAssistant
  <2> DEFINE front == SubSeq(t, 1, Len(t) - 1)
             last == t[Len(t)]
             done == <<Assistant("done")>>
  <2>1. t # <<>> /\ UNCHANGED <<active, loc, steering, followUp, steered, sent>>
    BY <1>14 DEF PopLastIfAssistant, ReplaceLastAssistant, TailIsAssistant
  <2>2. front \in Seq(Entry) /\ last \in Entry /\ t = front \o <<last>>
    BY <1>1, <2>1, FrontAndLast
  <2>3. Assistant("done") \in Entry
    BY EntryTypes DEF Stops
  <2>4. done \in Seq(Entry) /\ Unsteered(done, steered)
    BY <1>1, <2>3, UnsteeredPieces
  <2>5. agent'.messages = front \/ agent'.messages = [t EXCEPT ![Len(t)] = Assistant("done")]
    BY <1>1, <1>14 DEF PopLastIfAssistant, ReplaceLastAssistant, AgentType
  <2>6. [t EXCEPT ![Len(t)] = Assistant("done")] = front \o done
    <3> DEFINE final == Assistant("done")
    <3> HIDE DEF front, last, final
    <3>1. [(front \o <<last>>) EXCEPT ![Len(front \o <<last>>)] = final] = front \o <<final>>
      BY <2>2, <2>3, LastReplaced DEF final
    <3>2. QED
      BY <2>2, <3>1 DEF final
  <2>7. <<last>> \in Seq(Entry)
    BY <2>2
  <2> HIDE DEF front, last, done
  <2>8. InLine(front, h, s, steered)
    <3>1. InLine(front \o <<last>>, h, s, steered)
      BY <1>2, <2>2
    <3> HIDE DEF t, h, s
    <3>2. QED
      BY <1>1, <2>2, <2>7, <3>1, LineMoves
  <2>9. InLine(front \o done, h, s, steered)
    BY <1>1, <2>2, <2>4, <2>8, LineMoves
  <2>10. QED
    BY <1>2, <1>3, <1>4, <2>1, <2>5, <2>6, <2>8, <2>9
<1>15. ASSUME NEW c \in Callers, Acquire(c), NEW q \in Seq(Msgs),
              loc'[c].prompts = q, loc'[c].pending = <<>>, loc'[c].prepared = <<>>
       PROVE  InRun = <<>> /\ InRun' = q /\ Users(q) = h \o Users(q) /\ Users(q) \in Seq(Entry)
  <2>1. active = NoCaller /\ active' = c
    BY <1>15 DEF Acquire, NoActiveRun
  <2>2. (q \o <<>>) \o <<>> = q
    BY ConcatEmptySeq
  <2>3. InRun = <<>> /\ InRun' = q
    BY <1>15, <2>1, <2>2 DEF InRun
  <2>4. Users(q) \in Seq(Entry)
    BY UsersType
  <2>5. QED
    BY <1>5, <2>3, <2>4, ConcatEmptySeq
<1>16. /\ \A q : /\ [NoRun EXCEPT !.prompts = q].prompts = q
                 /\ [NoRun EXCEPT !.prompts = q].pending = <<>>
                 /\ [NoRun EXCEPT !.prompts = q].prepared = <<>>
                 /\ [NoRun EXCEPT !.prompts = q, !.skip = TRUE].prompts = q
                 /\ [NoRun EXCEPT !.prompts = q, !.skip = TRUE].pending = <<>>
                 /\ [NoRun EXCEPT !.prompts = q, !.skip = TRUE].prepared = <<>>
       /\ [NoRun EXCEPT !.mode = "continue"].prompts = <<>>
       /\ [NoRun EXCEPT !.mode = "continue"].pending = <<>>
       /\ [NoRun EXCEPT !.mode = "continue"].prepared = <<>>
  BY DEF NoRun
<1>17. ASSUME NEW c \in Callers, NEW x \in Msgs, Prompt(c, x) PROVE OrderInv'
  <2>1. /\ loc'[c] = [NoRun EXCEPT !.prompts = <<x>>] /\ Acquire(c) /\ <<x>> \in Seq(Msgs)
        /\ x \in Msgs \ sent /\ sent' = sent \cup {x}
        /\ UNCHANGED <<agent, steering, followUp, steered>>
    BY <1>17 DEF Prompt, TypeOK
  <2>2. /\ InRun' = <<x>> /\ Users(<<x>>) = h \o Users(<<x>>)
    <3>1. loc'[c].prompts = <<x>> /\ loc'[c].pending = <<>> /\ loc'[c].prepared = <<>>
      BY <1>16, <2>1
    <3>2. QED
      BY <1>15, <2>1, <3>1, Zenon
  <2>3. Users(<<x>>) = <<User(x)>>
    BY UsersFew
  <2>4. InLine(t, h \o <<User(x)>>, s, steered)
    BY <1>1, <1>2, <1>8, <2>1, LineMoves
  <2>5. QED
    BY <1>2, <1>3, <2>1, <2>2, <2>3, <2>4
<1>18. ASSUME NEW c \in Callers, ContinueRun(c) PROVE OrderInv'
  <2>1. /\ Acquire(c) /\ UNCHANGED <<steered, sent>> /\ agent'.messages = t
    BY <1>1, <1>18 DEF ContinueRun, Flagged, AgentType
  <2>2. loc \in [Callers -> Local] /\ <<>> \in Seq(Msgs)
    BY EmptySeq DEF TypeOK
  <2>3. CASE /\ loc' = [loc EXCEPT ![c] = [NoRun EXCEPT !.mode = "continue"]]
             /\ UNCHANGED <<steering, followUp>>
    <3>1. InRun = <<>> /\ InRun' = <<>>
      BY <1>15, <1>16, <2>1, <2>2, <2>3
    <3>2. QED
      BY <1>2, <1>3, <2>1, <2>3, <3>1
  <2>4. CASE /\ loc' = [loc EXCEPT ![c] = [NoRun EXCEPT !.prompts =
                                             Drained(steering, steeringMode), !.skip = TRUE]]
             /\ steering' = Remaining(steering, steeringMode)
             /\ UNCHANGED followUp
    <3> DEFINE front == Drained(steering, steeringMode)
               rest == Remaining(steering, steeringMode)
    <3>1. front \in Seq(Msgs) /\ rest \in Seq(Msgs) /\ steering = front \o rest
      BY <1>1, DrainType, DrainSplits
    <3> HIDE DEF front, rest
    <3>2. InRun' = front /\ Users(front) = h \o Users(front) /\ Users(front) \in Seq(Entry)
      BY <1>15, <1>16, <2>1, <2>2, <2>4, <3>1 DEF front
    <3>3. s = Users(front) \o Users(rest) /\ Users(rest) \in Seq(Entry)
      BY <3>1, UsersConcat, UsersType
    <3>4. InLine(t, h \o Users(front), Users(rest), steered)
      BY <1>1, <1>2, <3>2, <3>3, LineMoves
    <3>5. steering' = rest
      BY <2>4 DEF rest
    <3>6. QED
      BY <1>2, <1>3, <2>1, <2>4, <3>2, <3>4, <3>5
  <2>5. CASE /\ loc' = [loc EXCEPT ![c] = [NoRun EXCEPT !.prompts =
                                             Drained(followUp, followUpMode)]]
             /\ followUp' = Remaining(followUp, followUpMode)
             /\ UNCHANGED steering
    <3> DEFINE front == Drained(followUp, followUpMode)
               rest == Remaining(followUp, followUpMode)
    <3>1. front \in Seq(Msgs) /\ rest \in Seq(Msgs) /\ followUp = front \o rest
      BY <1>1, DrainType, DrainSplits
    <3> HIDE DEF front, rest
    <3>2. InRun' = front /\ Users(front) = h \o Users(front) /\ Users(front) \in Seq(Entry)
      BY <1>15, <1>16, <2>1, <2>2, <2>5, <3>1 DEF front
    <3>3. Elements(followUp) = Elements(front) \cup Elements(rest)
      BY <3>1, ElementsConcat
    <3>4. Unsteered(Users(front), steered)
      BY <1>1, <1>2, <3>1, <3>3, UnsteeredPieces
    <3>5. InLine(t, h \o Users(front), s, steered)
      BY <1>1, <1>2, <3>2, <3>4, LineMoves
    <3>6. followUp' = rest
      BY <2>5 DEF rest
    <3>7. QED
      BY <1>2, <1>3, <2>1, <2>5, <3>2, <3>3, <3>5, <3>6
  <2>6. QED
    BY <1>18, <2>3, <2>4, <2>5 DEF ContinueRun
<1>19. QED
  BY <1>6, <1>7, <1>9, <1>10, <1>11, <1>12, <1>13, <1>14, <1>17, <1>18 DEF Caller

(* Every step keeps the line in order. *)
LEMMA OrderStep ==
  ASSUME TypeOK, TypeOK', SingleRun, HeldInv, CountInv, OrderInv, [Next]_vars
  PROVE  OrderInv'
<1> USE AgentRunAssumption
<1>1. ASSUME UNCHANGED <<active, agent, queueVars, loc, histVars>> PROVE OrderInv'
  <2>1. InRun' = InRun
    BY <1>1 DEF InRun
  <2>2. QED
    BY <1>1, <2>1 DEF OrderInv, queueVars, histVars
<1>2. ASSUME NEW c \in Callers, LoopStep(c) \/ OutsideStep(c) PROVE OrderInv'
  <2>1. CASE Release(c)
    <3>1. /\ active' = NoCaller /\ UNCHANGED <<steering, followUp, sent, steered>>
      BY <2>1 DEF Release, queueVars
    <3>2. agent'.messages = agent.messages
      BY <2>1 DEF Release, Settled, TypeOK, AgentType
    <3>3. InRun' = <<>> /\ Users(<<>>) = <<>>
      BY <3>1, UsersFew DEF InRun
    <3>4. /\ agent.messages \in Seq(Entry) /\ steered \in Seq(Msgs) /\ <<>> \in Seq(Entry)
      BY EmptySeq DEF TypeOK
    <3>5. InLine(agent.messages, <<>>, Users(steering), steered)
      BY <3>4, InRunType, LineMoves DEF OrderInv
    <3>6. QED
      BY <3>1, <3>2, <3>3, <3>5 DEF OrderInv
  <2>2. CASE NotifyWaiters(c)
    BY <1>1, <2>2 DEF NotifyWaiters, runVars
  <2>3. CASE ~Release(c) /\ ~NotifyWaiters(c)
    <3>1. Moves(c)
      BY <1>2, <2>3, LoopMoves
    <3>2. Flows(c) /\ UNCHANGED steered
      BY <1>2, <2>3, LoopFlows DEF HeldInv
    <3>3. active = c /\ active' = c
      BY <3>1 DEF Moves, SingleRun, runVars
    <3>4. QED
      BY <3>2, <3>3, OrderFlow
  <2>4. QED
    BY <2>1, <2>2, <2>3
<1>3. ASSUME NEW w \in Waiters, WaitArm(w) \/ WaitCheck(w) \/ WaitSleep(w) \/ WaitWake(w)
      PROVE  OrderInv'
  BY <1>1, <1>3 DEF WaitArm, WaitCheck, WaitSleep, WaitWake, runVars
<1>4. CASE UNCHANGED vars
  BY <1>1, <1>4 DEF vars, runVars
<1>5. QED
  BY <1>2, <1>3, <1>4, OrderCaller DEF Next

(* The line in order is steering in order. *)
LEMMA LineDelivers ==
  ASSUME TypeOK, OrderInv
  PROVE  SteeringInOrder
<1> USE AgentRunAssumption
<1> SUFFICES ASSUME NEW i \in DOMAIN steered, NEW j \in DOMAIN steered, i < j,
                    steered[j] \in UserIds(agent.messages)
             PROVE  /\ steered[i] \notin InFlight
                    /\ \A p, q \in DOMAIN agent.messages :
                         (agent.messages[p] = User(steered[i])
                            /\ agent.messages[q] = User(steered[j])) => p < q
  BY DEF SteeringInOrder
<1>1. /\ agent.messages \in Seq(Entry) /\ steered \in Seq(Msgs) /\ steering \in Seq(Msgs)
  BY DEF TypeOK
<1>2. steered[i] \in Msgs /\ steered[j] \in Msgs
  BY <1>1, LenProperties, ElementOfSeq
<1>3. User(steered[j]) \in Elements(agent.messages)
  BY <1>1, <1>2, UserIdsElements
<1>4. /\ Precedes(agent.messages, Users(InRun), steered)
      /\ Precedes(agent.messages, Users(steering), steered)
      /\ InOrder(agent.messages, steered)
  BY DEF OrderInv, InLine
<1>5. User(steered[i]) \notin Elements(Users(InRun)) /\ User(steered[i]) \notin Elements(Users(steering))
  BY <1>3, <1>4 DEF Precedes
<1>6. steered[i] \notin Elements(InRun) /\ steered[i] \notin Elements(steering)
  BY <1>1, <1>5, InRunType, UsersElements
<1>7. CASE active = NoCaller
  BY <1>4, <1>6, <1>7 DEF InFlight, InOrder
<1>8. CASE active # NoCaller
  <2> DEFINE p == loc[active].prompts
             r == loc[active].prepared
             q == loc[active].pending
  <2>1. p \in Seq(Msgs) /\ r \in Seq(Msgs) /\ q \in Seq(Msgs)
    BY <1>8 DEF TypeOK, Local
  <2>2. InRun = (p \o r) \o q
    BY <1>8 DEF InRun
  <2> HIDE DEF p, q, r
  <2>3. p \o r \in Seq(Msgs)
    BY <2>1, ConcatProperties
  <2>4. /\ Elements((p \o r) \o q) = Elements(p \o r) \cup Elements(q)
        /\ Elements(p \o r) = Elements(p) \cup Elements(r)
        /\ Elements(p \o q) = Elements(p) \cup Elements(q)
    <3>1. \A a, b \in Seq(Msgs) : Elements(a \o b) = Elements(a) \cup Elements(b)
      BY ElementsConcat
    <3>2. QED
      BY <2>1, <2>3, <3>1, Zenon
  <2>5. steered[i] \notin Elements(p \o q)
    BY <1>6, <2>2, <2>4
  <2>6. steered[i] \notin InFlight
    BY <1>6, <1>8, <2>5 DEF InFlight, p, q
  <2>7. QED
    BY <1>4, <2>6 DEF InOrder
<1>9. QED
  BY <1>7, <1>8

(* Steering keeps the order of the steer calls: however the drains, polls, *)
(* hooks, aborts and new runs interleave with them, no steered message     *)
(* overtakes an earlier one, for any number of callers and messages.       *)
THEOREM SteeringInOrderHolds == Spec => []SteeringInOrder
<1>1. Init => HeldInv /\ CountInv
  BY ConservedInit
<1>2. Init => OrderInv
  <2> SUFFICES ASSUME Init PROVE OrderInv
    OBVIOUS
  <2>1. /\ steered = <<>> /\ followUp = <<>> /\ DOMAIN steered = {}
    BY DEF Init
  <2>2. Elements(<<>>) = {}
    BY ElementsFew
  <2>3. InLine(agent.messages, Users(InRun), Users(steering), steered)
    BY <2>1 DEF InLine, InOrder, Precedes
  <2>4. QED
    BY <2>1, <2>2, <2>3 DEF OrderInv
<1>3. TypeOK /\ OrderInv => SteeringInOrder
  BY LineDelivers
<1>4. TypeOK /\ TypeOK' /\ SingleRun /\ SingleRun' /\ HeldInv /\ CountInv /\ OrderInv
        /\ [Next]_vars => HeldInv' /\ CountInv' /\ OrderInv'
  BY ConservedStep, OrderStep
<1>5. QED
  BY <1>1, <1>2, <1>3, <1>4, TypeCorrect, SingleRunHolds, PTL DEF Spec
=============================================================================
