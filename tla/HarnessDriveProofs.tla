-------------------------- MODULE HarnessDriveProofs --------------------------
(* Theorems about HarnessDrive for any intents, number of calls in a batch, retry policy, and any *)
(* number of ids, queued messages, abort requests and crashes.                                    *)
EXTENDS HarnessDrive, Integers, SequenceTheorems, TLAPS

-----------------------------------------------------------------------------
(* Types. *)

States == Operations \union {NoOp}
Batches == [Calls -> {"planned", "pending", "ready"}]
Kinds == Responses \union {"interrupted", "results", "summary"}
LogEntries == [id: 0..MaxIds, kind: Kinds]
Disks == [op: States, result: Statuses \union {"none"}, log: Seq(LogEntries),
          frames: SUBSET (1..MaxIds), staged: SUBSET Calls, prep: BOOLEAN]
Outcomes == Responses \union Statuses \union {"none", "provider", "preparation"}
Works == [id: 0..MaxIds, out: Outcomes, next: States, trigger: BOOLEAN, calls: Batches,
          call: Nat, todo: SUBSET Calls, live: SUBSET Calls]

TypeInv ==
  /\ intent \in Intents /\ disk \in Disks /\ mem \in States /\ snap \in States
  /\ work \in Works /\ pc \in Positions /\ gate \in BOOLEAN
  /\ abort \in [at: {"idle", "commit", "apply", "signal"}, op: States]
  /\ abort.at # "idle" => abort.op # NoOp
  /\ queued \in 0..MaxQueued /\ ids \in 0..MaxIds /\ aborts \in Nat /\ crashed \in Nat
  /\ sent \subseteq Nat \X Nat /\ ran \subseteq (0..MaxIds) \X Calls

-----------------------------------------------------------------------------
(* Where the drive is, and the state of the operation it takes to be current. *)

Plain == Stages \union {"need2", "finish2", "hook", "redrain", "renew"}
Requesting == {"stream", "frames", "failure", "publish", "commit"}
Sequential == {"sequence", "execute", "stage", "staged"}
Together == {"parallel", "pstaged", "pready"}
Batch == Sequential \union Together \union {"results"}
Summarising == {"summary", "sfailed", "scommit"}
Held == Plain \union Requesting \union Batch \union Summarising

(* The stages a position belongs to, and the state that the position stands for. *)
OriginsOf(p) ==
  CASE p \in Stages -> {p}
    [] p = "need2" -> {"need"}
    [] p \in {"finish2", "hook", "redrain", "renew"} -> {"finish"}
    [] p \in Requesting -> {"ready", "suspended", "poll"}
    [] p \in Batch -> {"tools"}
    [] OTHER -> {"sready", "seffect"}

Requested(s, w) ==
  IF s.at = "ready" THEN [s EXCEPT !.at = "effect", !.id = w.id]
  ELSE [Leaf("poll", s) EXCEPT !.id = w.id]
CurrentAt(p, s, w) ==
  CASE p \in Requesting -> Requested(s, w)
    [] p \in Batch -> [s EXCEPT !.calls = w.calls]
    [] p \in Summarising -> [s EXCEPT !.at = "seffect"]
    [] OTHER -> s
Current == CurrentAt(pc, snap, work)

Running(s) == s.ctl = "running"

(* The records of a settled operation are gone and nothing holds its state. *)
GoneInv ==
  /\ disk.result # "none" => disk.op = NoOp
  /\ mem # NoOp => disk.op # NoOp
  /\ pc # "idle" => mem # NoOp /\ Alive

(* A copy that is running is the state the drive takes to be current; only an abort makes it     *)
(* differ, and its copies are cancelled.                                                         *)
HeldInv ==
  /\ pc \in Held => /\ Running(snap) /\ snap.at \in OriginsOf(pc)
                    /\ Running(mem) => mem = Current
                    /\ Running(disk.op) => disk.op = Current
  /\ Running(mem) /\ Running(disk.op) /\ pc # "sapply" => mem = disk.op
  /\ pc \in {"reconcile", "recover"} => snap # NoOp /\ (snap.at = "effect" => snap.ctl = "cancel")
  /\ pc = "recover" => snap.at = "effect"
  /\ pc = "sapply" => /\ Running(snap) /\ intent = "summary"
                      /\ Running(disk.op) => disk.op = Leaf("navready", snap)

(* The locals of the procedures. *)
LocalInv ==
  /\ pc \in Requesting => work.id # 0
  /\ pc \in {"publish", "commit"} => work.out \in Responses
  /\ pc = "settle" => work.out \in Statuses
  /\ pc \in {"execute", "stage", "staged", "pstaged", "pready"} => work.call \in Calls
  /\ pc = "execute" => work.calls[work.call] = "pending"
  /\ pc \in Together => \A c \in Calls : work.calls[c] # "planned"
  /\ pc = "commit" => work.next = AfterResponse(Current, work.out)

-----------------------------------------------------------------------------
(* Effects. *)

Logged(log, id) == \E k \in DOMAIN log : log[k].id = id /\ log[k].kind # "results"
InLog(id) == Logged(disk.log, id)

(* What a request or a call that was made leaves in the state of the operation. *)
CallsMarked(log, started, s) ==
  s.at = "tools" =>
    Logged(log, s.id) /\ \A c \in Calls : <<s.id, c>> \in started => s.calls[c] # "planned"
Unsent(log, attempts, att) == \A a \in attempts : a[1] = Len(log) => a[2] < att
RequestsMarked(log, attempts, s) ==
  CASE s.at = "effect" -> Unsent(log, attempts, s.att + 1)
    [] s.at \in {"ready", "retry"} -> Unsent(log, attempts, s.att)
    [] OTHER -> Unsent(log, attempts, 0)
Marks(log, attempts, started, s) ==
  CallsMarked(log, started, s) /\ RequestsMarked(log, attempts, s)

EffectInv ==
  /\ ~reran /\ ~resent
  /\ \A a \in sent : a[1] <= Len(disk.log)
  /\ \A r \in ran : Logged(disk.log, r[1])
  /\ Running(mem) => Marks(disk.log, sent, ran, mem)
  /\ Running(disk.op) => Marks(disk.log, sent, ran, disk.op)
  /\ pc \in Held => Marks(disk.log, sent, ran, Current)
  /\ pc = "sapply" => Unsent(disk.log, sent, 0)
  /\ pc = "stream" /\ snap.at = "ready" => Unsent(disk.log, sent, snap.att)
  /\ pc = "execute" => <<snap.id, work.call>> \notin ran
  /\ pc \in Together => \A c \in work.todo : <<snap.id, c>> \notin ran

-----------------------------------------------------------------------------
(* Ids. *)

Collected(log, id) == \E k \in DOMAIN log : log[k].id = id /\ log[k].kind = "results"
HasResults(id) == Collected(disk.log, id)

Undisturbed == aborts = 0 /\ (intent = "compaction" => ~cut)

Unused(log, bound, s) ==
  /\ s.at \in {"effect", "poll", "sready", "seffect", "sretry"} => s.id <= bound /\ ~Logged(log, s.id)
  /\ s.at = "tools" => s.id <= bound /\ ~Collected(log, s.id)

IdInv ==
  Undisturbed =>
    /\ abort.at = "idle" /\ ~gate /\ mem.ctl # "cancel" /\ disk.op.ctl # "cancel"
    /\ pc \notin {"reconcile", "recover"}
    /\ \A k \in DOMAIN disk.log : disk.log[k].id <= ids /\ Logged(disk.log, disk.log[k].id)
    /\ pc \in Held => Unused(disk.log, ids, Current)
    /\ ~(intent = "compaction" /\ pc = "settle") =>
         (pc # "sapply" => Unused(disk.log, ids, mem)) /\ Unused(disk.log, ids, disk.op)

-----------------------------------------------------------------------------
(* Answers. *)

AnswersOf(log) == {k \in DOMAIN log : log[k].kind # "summary"}
Answered(log) ==
  \E k \in AnswersOf(log) : log[k].kind \in {"stop", "results"} /\ \A j \in AnswersOf(log) : j <= k
Finishes(log, s) == s.at # "navready" /\ (s.at = "finish" => Answered(log))

AnswerInv ==
  ~cut /\ intent = "run" =>
    /\ disk.result = "completed" \/ (pc = "settle" /\ work.out = "completed") => Answered(disk.log)
    /\ pc \in Held => Finishes(disk.log, Current)
    /\ pc # "settle" => /\ Running(mem) => Finishes(disk.log, mem)
                        /\ Running(disk.op) => Finishes(disk.log, disk.op)

-----------------------------------------------------------------------------
(* The copies. *)

CopyInv ==
  /\ aborts = 0 => abort.at = "idle"
  /\ aborts = 0 /\ Alive /\ ~rejected /\ pc # "sapply" => mem = disk.op
  /\ aborts = 0 /\ pc = "sapply" => disk.op = Leaf("navready", snap)

DriveInv == TypeInv /\ GoneInv /\ HeldInv /\ LocalInv /\ EffectInv /\ IdInv /\ AnswerInv /\ CopyInv
-----------------------------------------------------------------------------
(* The steps of a drive, by what they do to the operation. *)

Step ==
  /\ pc # "idle" /\ snap' \in States /\ work' \in Works /\ queued' \in 0..MaxQueued
  /\ UNCHANGED <<intent, abort, crashed, aborts, rejected, cut>>
Uneffected == UNCHANGED <<sent, resent, ran, reran>>
Kept ==
  /\ disk' \in Disks /\ disk'.op = disk.op /\ disk'.result = disk.result /\ disk'.log = disk.log
  /\ mem' = mem /\ ids' = ids
Quiet == Step /\ Kept /\ Uneffected /\ UNCHANGED gate /\ pc \notin {"sapply", "settle"}

(* The drive is at a position for a state. *)
Holds(s) ==
  /\ pc' \in Held /\ s = CurrentAt(pc', snap', work')
  /\ snap'.ctl = "running" /\ snap'.at \in OriginsOf(pc')

Takes ==
  /\ Quiet /\ pc = "loop" /\ Running(mem) /\ pc' = mem.at /\ snap' = mem

(* Between two positions of a procedure. *)
Goes ==
  /\ Quiet /\ pc \in Held /\ Holds(Current) /\ LocalInv'
  /\ pc' \notin {"stream", "execute"}
  /\ pc' \in Together => pc \in Together /\ work'.todo \subseteq work.todo /\ snap'.id = snap.id

Stops == Quiet /\ pc' \in {"idle", "loop", "continue"}

Reconciles ==
  /\ Step /\ Kept /\ Uneffected /\ gate' \in BOOLEAN /\ pc \notin {"sapply", "settle"}
  /\ pc' \in {"reconcile", "recover"} /\ (gate \/ mem.ctl = "cancel" \/ pc = "reconcile")
  /\ snap' # NoOp /\ (snap'.at = "effect" => snap'.ctl = "cancel")
  /\ pc' = "recover" => snap'.at = "effect"

Completes == Quiet /\ pc = "redrain" /\ pc' = "settle" /\ work'.out = "completed"

(* The effects. *)
Attempt == <<Len(disk.log), snap.att>>
Sends ==
  /\ Step /\ Kept /\ UNCHANGED <<gate, ran, reran, snap, work>>
  /\ pc = "stream" /\ snap.at = "ready" /\ pc' = "frames"
  /\ sent' = sent \union {Attempt} /\ (resent' => resent \/ Attempt \in sent)

Executes(c) ==
  /\ Step /\ Kept /\ UNCHANGED <<gate, sent, resent, snap>>
  /\ \/ pc = "execute" /\ pc' = "stage" /\ work' = work /\ c = work.call
     \/ /\ pc = "parallel" /\ pc' = "parallel" /\ c \in work.todo
        /\ work'.calls = work.calls /\ work'.todo = work.todo \ {c}
  /\ ran' = ran \union {<<snap.id, c>>} /\ (reran' => reran \/ <<snap.id, c>> \in ran)

(* A new state, written to the store and to memory. *)
Writes(next) ==
  /\ Step /\ Uneffected /\ UNCHANGED gate
  /\ next \in Operations /\ mem' = next
  /\ disk' \in Disks /\ disk'.op = next /\ disk'.result = disk.result

Advances(next) ==
  /\ Current.at \in {"starting", "need"} /\ next.at \in {"need", "deciding"}
  /\ pc' = "continue" /\ ids' = ids
Readies(next) ==
  /\ Current.at \in {"need", "finish"} /\ next.at = "ready" /\ next.att = 1
  /\ pc' = "continue" /\ ids' = ids
Reserves(next) ==
  /\ next.id = ids + 1 /\ ids' = ids + 1 /\ ids' \in 0..MaxIds
  /\ \/ /\ Current.at = "ready" /\ next.at = "effect" /\ next.att = Current.att
        /\ pc = "ready" /\ pc' = "stream" /\ snap' = snap
     \/ /\ Current.at \in {"suspended", "poll"} /\ next.at = "poll"
        /\ pc \in {"suspended", "poll"} /\ pc' = "stream" /\ snap' = snap
     \/ Current.at = "deciding" /\ next.at = "sready" /\ pc' = "continue"
Retries(next) ==
  /\ Current.at = "effect" /\ next.at = "retry" /\ next.att = Current.att + 1
  /\ pc' = "idle" /\ ids' = ids
Resumes(next) ==
  /\ \/ Current.at = "retry" /\ next.at = "ready" /\ next.att = Current.att
     \/ /\ Current.at \in {"sretry", "sready", "seffect"} /\ next.id = Current.id
        /\ next.at \in {"sretry", "sready", "seffect"}
  /\ pc' \in {"continue", "idle", "summary"} /\ ids' = ids
MarksCalls(next) ==
  /\ Current.at = "tools" /\ next.at = "tools" /\ next.id = Current.id /\ ids' = ids
  /\ \A c \in Calls : next.calls[c] = "planned" => Current.calls[c] = "planned"
  /\ snap' = snap
  /\ \/ pc = "sequence" /\ pc' = "execute" /\ Current.calls[work'.call] = "planned"
     \/ pc = "staged" /\ pc' = "sequence"
     \/ pc = "tools" /\ pc' = "parallel" /\ Current.calls = Planned
     \/ pc = "pready" /\ pc' = "parallel" /\ work'.todo = work.todo
Moves(next) ==
  /\ Writes(next) /\ Running(next) /\ disk'.log = disk.log /\ pc \in Held
  /\ pc' \in Held => Holds(next)
  /\ LocalInv'
  /\ \/ Advances(next) \/ Readies(next) \/ Reserves(next) \/ Retries(next) \/ Resumes(next)
     \/ MarksCalls(next)

(* An entry, with the state that follows it. *)
Appends(e) == e \in LogEntries /\ disk'.log = Append(disk.log, e) /\ ids' = ids
Responds(e, next) ==
  /\ pc = "commit" /\ e = Entry(work.id, work.out) /\ ~InLog(e.id)
  /\ next = work.next
  /\ \/ pc' = "settle" /\ work'.out = "failed"
     \/ pc' \in {"continue", "scheduled"} /\ (next.at = "finish" => work.out = "stop")
Interrupts(e, next) ==
  /\ pc \in {"effect", "recover"} /\ e = Entry(snap.id, "interrupted") /\ next = Leaf("finish", snap)
  /\ pc' = "settle" /\ work'.out = "aborted"
Collects(e, next) ==
  /\ pc = "results" /\ e = Entry(snap.id, "results") /\ ~HasResults(e.id)
  /\ next.at \in {"finish", "need"} /\ Running(next) /\ pc' = "continue"
Compacts(e, next) ==
  /\ pc = "scommit" /\ e = Entry(snap.id, "summary") /\ next.at = "need" /\ Running(next)
  /\ pc' = "continue"
Commits(e, next) ==
  /\ Writes(next) /\ Appends(e)
  /\ Responds(e, next) \/ Interrupts(e, next) \/ Collects(e, next) \/ Compacts(e, next)

(* The summary of a compaction, and of a branch. *)
Concludes(e) ==
  /\ Step /\ Uneffected /\ UNCHANGED <<gate, mem>> /\ Appends(e)
  /\ pc = "scommit" /\ intent = "compaction" /\ e = Entry(snap.id, "summary")
  /\ disk' \in Disks /\ disk'.op = disk.op /\ disk'.result = disk.result
  /\ pc' = "settle" /\ work'.out = "completed"
Summarises(e) ==
  /\ Step /\ Uneffected /\ UNCHANGED <<gate, mem, snap>> /\ Appends(e)
  /\ pc = "scommit" /\ intent = "summary" /\ e = Entry(snap.id, "summary")
  /\ disk' \in Disks /\ disk'.op = Leaf("navready", snap) /\ disk'.result = disk.result
  /\ pc' = "sapply"
AppliesSummary ==
  /\ Step /\ Uneffected /\ UNCHANGED <<gate, ids, disk>>
  /\ pc = "sapply" /\ pc' = "continue" /\ mem' = Leaf("navready", snap)

Ends(status) ==
  /\ Step /\ Uneffected /\ gate' \in BOOLEAN /\ ids' = ids
  /\ disk' \in Disks /\ disk'.op = NoOp /\ disk'.result = status /\ disk'.log = disk.log
  /\ mem' = NoOp /\ pc' = "idle"
  /\ gate' => gate \/ pc = "reconcile"
  /\ status = "completed" => (pc = "settle" /\ work.out = "completed") \/ pc = "navready"

DriveKinds ==
  \/ Takes \/ Goes \/ Stops \/ Reconciles \/ Completes \/ Sends
  \/ \E c \in Calls : Executes(c)
  \/ \E next \in Operations : Moves(next)
  \/ \E e \in LogEntries, next \in Operations : Commits(e, next)
  \/ \E e \in LogEntries : Concludes(e) \/ Summarises(e)
  \/ AppliesSummary
  \/ \E status \in Statuses : Ends(status)

-----------------------------------------------------------------------------
(* Types of the values. *)

LEMMA Bounds ==
  /\ NCalls \in Nat \ {0} /\ MaxAttempts \in Nat /\ MaxIds \in Nat /\ MaxQueued \in Nat
  /\ 0 \in 0..MaxAttempts /\ 1 \in 0..MaxAttempts /\ 0 \in 0..MaxIds /\ 1 \in Calls
BY HarnessDriveAssumption DEF Calls

LEMMA OpParts ==
  ASSUME NEW s \in States, s # NoOp \/ s.ctl # "none" \/ s.ctl = "running"
  PROVE  /\ s \in Operations /\ s.at \in Stages /\ s.ctl \in {"running", "cancel"}
         /\ s.att \in Nat /\ s.att <= MaxAttempts /\ s.id \in 0..MaxIds /\ s.calls \in Batches
         /\ s.ov \in Overflow
<1>1. s \in Operations
  BY DEF States, NoOp
<1>2. QED
  BY <1>1, Bounds DEF Operations, Batches

LEMMA OpMakes ==
  ASSUME NEW s \in Operations
  PROVE  /\ Cancelled(s) \in Operations /\ Cancelled(s).ctl = "cancel"
         /\ s.ctl # "none" /\ s # NoOp /\ s \in States
<1>1. s.ctl \in {"running", "cancel"}
  BY DEF Operations
<1>2. Cancelled(s) \in Operations /\ Cancelled(s).ctl = "cancel"
  BY DEF Operations, Cancelled
<1>3. s # NoOp
  BY <1>1 DEF NoOp
<1>4. QED
  BY <1>1, <1>2, <1>3 DEF States

LEMMA LeafIs ==
  ASSUME NEW s \in Operations, NEW stage \in Stages
  PROVE  /\ Leaf(stage, s) \in Operations
         /\ Leaf(stage, s).at = stage /\ Leaf(stage, s).ctl = s.ctl /\ Leaf(stage, s).att = 0
<1>1. 0 \in 0..MaxAttempts /\ 0 \in 0..MaxIds /\ Planned \in [Calls -> {"planned", "pending", "ready"}]
  BY Bounds DEF Planned
<1>2. s.ctl \in {"running", "cancel"}
  BY DEF Operations
<1>3. "no" \in Overflow
  BY DEF Overflow
<1>4. QED
  BY <1>1, <1>2, <1>3 DEF Leaf, Operations

LEMMA NoOpParts == NoOp \in States /\ NoOp.ctl = "none" /\ NoOp.at = "none"
BY DEF NoOp, States

LEMMA WorkParts ==
  ASSUME NEW w \in Works
  PROVE  /\ w.id \in 0..MaxIds /\ w.out \in Outcomes /\ w.next \in States
         /\ w.calls \in Batches /\ w.call \in Nat
         /\ w.todo \subseteq Calls /\ w.live \subseteq Calls
BY DEF Works

LEMMA NoWorkMakes ==
  /\ NoWork \in Works
  /\ \A out \in Outcomes : [NoWork EXCEPT !.out = out] \in Works /\ [NoWork EXCEPT !.out = out].out = out
  /\ \A id \in 0..MaxIds : [NoWork EXCEPT !.id = id] \in Works /\ [NoWork EXCEPT !.id = id].id = id
  /\ \A calls \in Batches : /\ [NoWork EXCEPT !.calls = calls] \in Works
                            /\ [NoWork EXCEPT !.calls = calls].calls = calls
                            /\ [NoWork EXCEPT !.calls = calls, !.todo = Calls] \in Works
                            /\ [NoWork EXCEPT !.calls = calls, !.todo = Calls].calls = calls
<1>1. Planned \in Batches /\ NoOp \in States /\ "none" \in Outcomes /\ 0 \in 0..MaxIds
  BY Bounds DEF Planned, Batches, States, Outcomes
<1>2. QED
  BY <1>1 DEF NoWork, Works

LEMMA TriggerMakes ==
  \A b \in BOOLEAN : [NoWork EXCEPT !.trigger = b] \in Works
<1>1. Planned \in Batches /\ NoOp \in States /\ "none" \in Outcomes /\ 0 \in 0..MaxIds
  BY Bounds DEF Planned, Batches, States, Outcomes
<1>2. QED
  BY <1>1 DEF NoWork, Works

(* The positions. *)
LEMMA Places ==
  ASSUME NEW s, NEW w
  PROVE  /\ \A p \in Stages : p \in Held /\ OriginsOf(p) = {p} /\ CurrentAt(p, s, w) = s
         /\ "need2" \in Held /\ OriginsOf("need2") = {"need"} /\ CurrentAt("need2", s, w) = s
         /\ \A p \in {"finish2", "hook", "redrain", "renew"} :
              p \in Held /\ OriginsOf(p) = {"finish"} /\ CurrentAt(p, s, w) = s
         /\ \A p \in Requesting : /\ p \in Held /\ OriginsOf(p) = {"ready", "suspended", "poll"}
                                  /\ CurrentAt(p, s, w) = Requested(s, w)
         /\ \A p \in Batch : /\ p \in Held /\ OriginsOf(p) = {"tools"}
                             /\ CurrentAt(p, s, w) = [s EXCEPT !.calls = w.calls]
         /\ \A p \in Summarising : /\ p \in Held /\ OriginsOf(p) = {"sready", "seffect"}
                                   /\ CurrentAt(p, s, w) = [s EXCEPT !.at = "seffect"]
         /\ \A p \in {"idle", "loop", "continue", "settle", "reconcile", "recover", "scheduled",
                      "sapply", "none"} : p \notin Held /\ p \notin Stages
BY DEF Held, Plain, Stages, Requesting, Batch, Sequential, Together, Summarising, OriginsOf, CurrentAt

(* Positions whose locals do not matter. *)
Free == Plain \union Summarising \union
  {"idle", "loop", "continue", "scheduled", "reconcile", "recover", "sapply", "sequence",
   "results"}
LEMMA FreeLocals == ASSUME pc' \in Free PROVE LocalInv'
BY DEF Free, LocalInv, Plain, Stages, Summarising, Together, Requesting

LEMMA Snapshot ==
  ASSUME TypeInv, HeldInv, GoneInv
  PROVE  /\ pc \in Held => /\ snap \in Operations /\ snap # NoOp /\ Running(snap)
                           /\ snap.at \in OriginsOf(pc)
         /\ pc # "idle" => mem \in Operations
<1>1. pc \in Held => snap.ctl = "running" /\ snap.at \in OriginsOf(pc)
  BY DEF HeldInv, Running
<1>2. snap \in States /\ mem \in States
  BY DEF TypeInv
<1>3. pc # "idle" => mem # NoOp
  BY DEF GoneInv
<1>4. QED
  BY <1>1, <1>2, <1>3, OpParts, OpMakes DEF Running

(* What the drive takes to be current. *)
LEMMA CurrentParts ==
  ASSUME TypeInv, HeldInv, GoneInv, pc \in Held
  PROVE  /\ Current \in Operations /\ Running(Current)
         /\ pc \in Stages => Current = snap /\ snap.at = pc
         /\ pc = "need2" => Current = snap /\ snap.at = "need"
         /\ pc \in {"finish2", "hook", "redrain", "renew"} => Current = snap /\ snap.at = "finish"
         /\ pc \in Requesting =>
              /\ Current = Requested(snap, work) /\ snap.at \in {"ready", "suspended", "poll"}
              /\ Current.id = work.id
              /\ snap.at = "ready" => Current.at = "effect" /\ Current.att = snap.att
              /\ snap.at # "ready" => Current.at = "poll"
         /\ pc \in Batch => /\ Current = [snap EXCEPT !.calls = work.calls] /\ snap.at = "tools"
                            /\ Current.at = "tools" /\ Current.id = snap.id
                            /\ Current.calls = work.calls
         /\ pc \in Summarising => /\ Current = [snap EXCEPT !.at = "seffect"]
                                  /\ Current.at = "seffect" /\ Current.id = snap.id
                                  /\ Current.att = snap.att
                                  /\ snap.at \in {"sready", "seffect"}
<1>1. snap \in Operations /\ snap.ctl = "running" /\ snap.at \in OriginsOf(pc)
  BY Snapshot DEF Running
<1>2. work.id \in 0..MaxIds /\ work.calls \in Batches
  BY WorkParts DEF TypeInv
<1>3. CASE pc \in Stages
  BY <1>1, <1>3, Places DEF Current, Running, Requesting, Batch, Summarising, Stages, Sequential, Together
<1>4. CASE pc = "need2"
  BY <1>1, <1>4, Places DEF Current, Running, Requesting, Batch, Summarising, Stages, Sequential, Together
<1>5. CASE pc \in {"finish2", "hook", "redrain", "renew"}
  BY <1>1, <1>5, Places DEF Current, Running, Requesting, Batch, Summarising, Stages, Sequential, Together
<1>6. CASE pc \in Requesting
  <2>1. Current = Requested(snap, work) /\ snap.at \in {"ready", "suspended", "poll"}
    BY <1>1, <1>6, Places DEF Current
  <2>2. "effect" \in Stages /\ "poll" \in Stages
    BY DEF Stages
  <2>3. CASE snap.at = "ready"
    <3>1. Current = [snap EXCEPT !.at = "effect", !.id = work.id]
      BY <2>1, <2>3 DEF Requested
    <3>2. Current \in Operations
      BY <3>1, <1>1, <1>2, <2>2 DEF Operations
    <3>3. Current.at = "effect" /\ Current.id = work.id /\ Current.att = snap.att /\ Running(Current)
      BY <3>1, <1>1 DEF Operations, Running
    <3>4. QED
      BY <1>6, <2>1, <2>3, <3>2, <3>3 DEF Requesting, Batch, Summarising, Stages, Sequential, Together
  <2>4. CASE snap.at # "ready"
    <3>1. Current = [Leaf("poll", snap) EXCEPT !.id = work.id]
      BY <2>1, <2>4 DEF Requested
    <3>2. Current \in Operations /\ Current.at = "poll" /\ Current.id = work.id /\ Running(Current)
      <4>1. Leaf("poll", snap) \in Operations /\ Leaf("poll", snap).at = "poll"
            /\ Leaf("poll", snap).ctl = "running"
        BY <1>1, <2>2, LeafIs
      <4>2. QED
        BY <3>1, <1>2, <4>1 DEF Operations, Running
    <3>3. QED
      BY <1>6, <2>1, <2>4, <3>2 DEF Requesting, Batch, Summarising, Stages, Sequential, Together
  <2>5. QED
    BY <2>3, <2>4
<1>7. CASE pc \in Batch
  <2>1. Current = [snap EXCEPT !.calls = work.calls] /\ snap.at = "tools"
    BY <1>1, <1>7, Places DEF Current
  <2>2. Current \in Operations /\ Current.at = "tools" /\ Current.id = snap.id
        /\ Current.calls = work.calls /\ Running(Current)
    BY <1>1, <1>2, <2>1 DEF Operations, Running, Batches
  <2>3. QED
    BY <1>7, <2>1, <2>2 DEF Requesting, Batch, Summarising, Stages, Sequential, Together
<1>8. CASE pc \in Summarising
  <2>1. Current = [snap EXCEPT !.at = "seffect"] /\ snap.at \in {"sready", "seffect"}
    BY <1>1, <1>8, Places DEF Current
  <2>2. /\ Current \in Operations /\ Current.at = "seffect" /\ Current.id = snap.id
        /\ Current.att = snap.att /\ Running(Current)
    BY <1>1, <2>1 DEF Operations, Running, Stages
  <2>3. QED
    BY <1>8, <2>1, <2>2 DEF Requesting, Batch, Summarising, Stages, Sequential, Together
<1>9. QED
  BY <1>3, <1>4, <1>5, <1>6, <1>7, <1>8 DEF Held, Plain

LEMMA DiskParts ==
  ASSUME TypeInv
  PROVE  /\ disk \in Disks /\ disk.op \in States /\ disk.result \in Statuses \union {"none"}
         /\ disk.log \in Seq(LogEntries) /\ disk.frames \subseteq 1..MaxIds
         /\ disk.staged \subseteq Calls
BY DEF TypeInv, Disks

-----------------------------------------------------------------------------
(* Every action of the drive is one of the steps. *)

CoreInv == TypeInv /\ GoneInv /\ HeldInv /\ LocalInv

(* Steps that write nothing. *)
LEMMA QuietIs ==
  ASSUME TypeInv, pc \notin {"idle", "sapply", "settle"}, snap' \in States, work' \in Works,
         queued' \in 0..MaxQueued,
         UNCHANGED <<intent, abort, crashed, aborts, disk, mem, gate, ids>>, UNCHANGED ghosts
  PROVE  Quiet
BY DiskParts DEF Quiet, Step, Kept, Uneffected, ghosts

LEMMA QuietGo ==
  ASSUME TypeInv, pc \notin {"idle", "sapply", "settle"}, UNCHANGED <<gate, snap>>, work' \in Works,
         UNCHANGED <<Lane, disk, mem, sealed, ids, ghosts>>
  PROVE  Quiet
BY QuietIs DEF TypeInv, Lane

LEMMA ReconcileIs ==
  ASSUME Quiet, pc' = "reconcile", gate \/ mem.ctl = "cancel", snap' # NoOp, gate \in BOOLEAN,
         snap'.at = "effect" => snap'.ctl = "cancel"
  PROVE  Reconciles
BY DEF Quiet, Reconciles

(* Steps that settle. *)
LEMMA EndIs ==
  ASSUME TypeInv, pc # "idle", NEW status \in Statuses, NEW s, disk' = Settled(s, status),
         mem' = NoOp, pc' = "idle", work' = NoWork, UNCHANGED snap, gate' \in BOOLEAN,
         gate' => gate \/ pc = "reconcile", UNCHANGED <<Lane, sealed, ids, ghosts>>,
         status = "completed" => pc = "settle" /\ work.out = "completed"
  PROVE  Ends(status)
<1>1. disk' \in Disks /\ disk'.op = NoOp /\ disk'.result = status /\ disk'.log = disk.log
  <2>1. NoOp \in States
    BY NoOpParts
  <2>2. QED
    BY <2>1, DiskParts DEF Settled, Disks
<1>2. Step /\ Uneffected
  BY NoWorkMakes DEF Step, Uneffected, TypeInv, Lane, ghosts
<1>3. QED
  BY <1>1, <1>2 DEF Ends

LEMMA SettleEnds ==
  ASSUME TypeInv, pc # "idle", NEW status \in Statuses, NEW s, Settle(s, status),
         status = "completed" => pc = "settle" /\ work.out = "completed"
  PROVE  Ends(status)
<1>1. gate' \in BOOLEAN /\ (gate' => gate)
  BY DEF Settle, Leave, TypeInv
<1>2. QED
  BY <1>1, EndIs DEF Settle, Leave

(* Steps that write a state. *)
LEMMA TransitionWrites ==
  ASSUME TypeInv, NEW next \in Operations, Transition(next)
  PROVE  /\ disk' \in Disks /\ disk'.op = next /\ mem' = next
         /\ disk'.result = disk.result /\ disk'.log = disk.log
<1>1. next \in States
  BY DEF States
<1>2. QED
  BY <1>1, DiskParts DEF Transition, Disks

LEMMA MoveIs ==
  ASSUME TypeInv, pc \in Held, pc # "idle", NEW next \in Operations, next.ctl = "running",
         disk' \in Disks, disk'.op = next, mem' = next, disk'.result = disk.result,
         disk'.log = disk.log, UNCHANGED <<Lane, sealed, ghosts>>, UNCHANGED <<gate, snap>>,
         work' \in Works, LocalInv', pc' \in Held => next = CurrentAt(pc', snap, work'),
         pc' \in Held => snap.ctl = "running" /\ snap.at \in OriginsOf(pc'),
         \/ Advances(next) \/ Readies(next) \/ Reserves(next) \/ Retries(next) \/ Resumes(next)
         \/ MarksCalls(next)
  PROVE  Moves(next)
<1>1. Step /\ Uneffected
  BY DEF Step, Uneffected, TypeInv, Lane, ghosts
<1>2. pc' \in Held => Holds(next)
  BY DEF Holds
<1>3. QED
  BY <1>1, <1>2 DEF Moves, Writes, Running

LEMMA LoopKinds ==
  ASSUME CoreInv
  PROVE  /\ ReadOperation => DriveKinds
         /\ Continue => DriveKinds
         /\ SettleStep => DriveKinds
         /\ Reconcile => DriveKinds
<1> USE DEF CoreInv
<1>1. ASSUME ReadOperation PROVE DriveKinds
  <2>1. /\ pc = "loop" /\ snap' = mem /\ work' = NoWork /\ mem \in Operations /\ mem # NoOp
        /\ pc' = IF mem.ctl = "cancel" THEN "reconcile" ELSE mem.at
    BY <1>1, Snapshot, OpMakes DEF ReadOperation, Active
  <2>2. Quiet
    BY <1>1, <2>1, QuietIs, NoWorkMakes, OpMakes DEF ReadOperation, TypeInv, Lane
  <2>3. CASE mem.ctl = "cancel"
    <3>1. Reconciles
      BY <2>1, <2>2, <2>3, ReconcileIs DEF TypeInv
    <3>2. QED
      BY <3>1 DEF DriveKinds
  <2>4. CASE mem.ctl # "cancel"
    <3>1. Takes
      BY <2>1, <2>2, <2>4, OpParts DEF TypeInv, Takes, Running
    <3>2. QED
      BY <3>1 DEF DriveKinds
  <2>5. QED
    BY <2>3, <2>4
<1>2. ASSUME Continue PROVE DriveKinds
  <2>1. pc = "continue" /\ pc' \in {"idle", "loop"}
    BY <1>2 DEF Continue, Active
  <2>2. Quiet
    BY <1>2, <2>1, DiskParts DEF Continue, Quiet, Step, Kept, Uneffected, TypeInv, Lane
  <2>3. QED
    BY <2>1, <2>2 DEF DriveKinds, Stops
<1>3. ASSUME SettleStep PROVE DriveKinds
  <2>1. pc = "settle" /\ Settle(snap, work.out) /\ work.out \in Statuses
    BY <1>3 DEF SettleStep, Active, LocalInv
  <2>2. Ends(work.out)
    BY <2>1, SettleEnds
  <2>3. QED
    BY <2>1, <2>2 DEF DriveKinds
<1>4. ASSUME Reconcile PROVE DriveKinds
  <2>1. pc = "reconcile" /\ snap # NoOp /\ (snap.at = "effect" => snap.ctl = "cancel") /\ gate' = TRUE
        /\ UNCHANGED <<Lane, snap, opts, sealed, ids, ghosts>>
    BY <1>4 DEF Reconcile, Active, HeldInv
  <2>2. CASE snap.at = "effect"
    <3>1. pc' = "recover" /\ UNCHANGED <<disk, mem, work>>
      BY <1>4, <2>2 DEF Reconcile
    <3>2. Reconciles
      BY <2>1, <2>2, <3>1, DiskParts DEF Reconciles, Step, Kept, Uneffected, TypeInv, Lane, ghosts
    <3>3. QED
      BY <3>2 DEF DriveKinds
  <2>3. CASE snap.at # "effect"
    <3>1. disk' = Settled(snap, "aborted") /\ mem' = NoOp /\ pc' = "idle" /\ work' = NoWork
      BY <1>4, <2>3 DEF Reconcile
    <3>2. "aborted" \in Statuses
      BY DEF Statuses
    <3>3. Ends("aborted")
      BY <2>1, <3>1, <3>2, EndIs
    <3>4. QED
      BY <3>2, <3>3 DEF DriveKinds
  <2>4. QED
    BY <2>2, <2>3
<1>5. QED
  BY <1>1, <1>2, <1>3, <1>4

LEMMA StopIs ==
  ASSUME Quiet, pc' \in {"idle", "loop", "continue"}
  PROVE  DriveKinds
BY DEF DriveKinds, Stops

LEMMA GoIs ==
  ASSUME Quiet, pc \in Held, Holds(Current), LocalInv', pc' \notin {"stream", "execute"},
         pc' \notin Together
  PROVE  DriveKinds
BY DEF DriveKinds, Goes

LEMMA ReconcileGo ==
  ASSUME TypeInv, Quiet, pc' = "reconcile", gate \/ mem.ctl = "cancel", UNCHANGED snap, snap # NoOp,
         snap.at # "effect"
  PROVE  DriveKinds
<1>1. Reconciles
  BY ReconcileIs DEF TypeInv
<1>2. QED
  BY <1>1 DEF DriveKinds

(* A state of the same scope. *)
LEMMA NextStage ==
  ASSUME NEW s \in Operations, s.ctl = "running"
  PROVE  /\ \A at \in Stages : /\ Leaf(at, s) \in Operations /\ Leaf(at, s).at = at
                               /\ Leaf(at, s).ctl = "running"
         /\ \A ov \in Overflow : /\ Need(s, ov) \in Operations /\ Need(s, ov).at = "need"
                                 /\ Need(s, ov).ctl = "running"
         /\ \A ov \in Overflow : /\ Ready(s, 1, ov) \in Operations /\ Ready(s, 1, ov).at = "ready"
                                 /\ Ready(s, 1, ov).ctl = "running" /\ Ready(s, 1, ov).att = 1
<1>1. \A at \in Stages : /\ Leaf(at, s) \in Operations /\ Leaf(at, s).at = at
                         /\ Leaf(at, s).ctl = "running"
  BY LeafIs
<1>2. "need" \in Stages /\ "ready" \in Stages /\ 1 \in 0..MaxAttempts
  BY Bounds DEF Stages
<1>3. \A ov \in Overflow : /\ Need(s, ov) \in Operations /\ Need(s, ov).at = "need"
                           /\ Need(s, ov).ctl = "running"
  <2>1. Leaf("need", s) \in Operations /\ Leaf("need", s).at = "need" /\ Leaf("need", s).ctl = "running"
    BY <1>1, <1>2
  <2>2. QED
    BY <2>1 DEF Need, Operations
<1>4. \A ov \in Overflow : /\ Ready(s, 1, ov) \in Operations /\ Ready(s, 1, ov).at = "ready"
                           /\ Ready(s, 1, ov).ctl = "running" /\ Ready(s, 1, ov).att = 1
  <2>1. /\ Leaf("ready", s) \in Operations /\ Leaf("ready", s).at = "ready"
        /\ Leaf("ready", s).ctl = "running"
    BY <1>1, <1>2
  <2>2. QED
    BY <1>2, <2>1 DEF Ready, Operations
<1>5. QED
  BY <1>1, <1>3, <1>4

(* A move after which the drive reads the operation again. *)
LEMMA ContinueMove ==
  ASSUME TypeInv, pc \in Held, NEW next \in Operations, next.ctl = "running", disk' \in Disks,
         disk'.op = next, mem' = next, disk'.result = disk.result, disk'.log = disk.log,
         UNCHANGED <<Lane, sealed, ghosts>>, Work("continue", NoWork),
         Advances(next) \/ Readies(next) \/ Reserves(next) \/ Resumes(next)
  PROVE  DriveKinds
<1>1. pc' = "continue" /\ UNCHANGED <<gate, snap>> /\ work' = NoWork /\ pc # "idle" /\ pc' \notin Held
  BY Places DEF Work, Go
<1>2. LocalInv'
  BY <1>1, FreeLocals DEF Free
<1>3. Moves(next)
  BY <1>1, <1>2, NoWorkMakes, MoveIs
<1>4. QED
  BY <1>3 DEF DriveKinds

LEMMA RenewKinds ==
  ASSUME CoreInv, pc \in {"finish2", "renew"}, RenewReady
  PROVE  DriveKinds
<1>1. TypeInv /\ GoneInv /\ HeldInv /\ pc \in Held /\ Current.at = "finish"
      /\ snap \in Operations /\ snap.ctl = "running"
  BY Places, CurrentParts, Snapshot DEF CoreInv, Running
<1>2. "no" \in Overflow
  BY DEF Overflow
<1>3. /\ Ready(snap, 1, "no") \in Operations /\ Ready(snap, 1, "no").at = "ready"
      /\ Ready(snap, 1, "no").ctl = "running" /\ Ready(snap, 1, "no").att = 1
  BY <1>1, <1>2, NextStage
<1>4. /\ disk' \in Disks /\ disk'.op = Ready(snap, 1, "no") /\ mem' = Ready(snap, 1, "no")
      /\ disk'.result = disk.result /\ disk'.log = disk.log
  BY <1>1, <1>3, TransitionWrites DEF RenewReady
<1>5. Readies(Ready(snap, 1, "no"))
  BY <1>1, <1>3 DEF Readies, RenewReady, Work, Go
<1>6. QED
  BY <1>1, <1>3, <1>4, <1>5, ContinueMove DEF RenewReady

LEMMA CheckpointKinds ==
  ASSUME CoreInv
  PROVE  /\ StartRun => DriveKinds
         /\ CheckpointNeed => DriveKinds
         /\ CheckpointFinish => DriveKinds
         /\ StartCompaction => DriveKinds
         /\ AssistantReady => DriveKinds
         /\ FinishBoundary => DriveKinds
         /\ BeforeRunEnd => DriveKinds
         /\ Redrain => DriveKinds
         /\ Renew => DriveKinds
<1> USE DEF CoreInv
<1>0. /\ \A p \in {"starting", "need", "finish"} : p \in Stages /\ p \in Held
      /\ \A p \in {"need2", "finish2", "hook", "redrain", "renew"} : p \in Held
      /\ "no" \in Overflow /\ "used" \in Overflow
  BY Places DEF Stages, Overflow
<1>1. ASSUME StartRun PROVE DriveKinds
  <2>1. /\ pc = "starting" /\ pc \in Held /\ snap \in Operations /\ snap.ctl = "running"
        /\ Current.at = "starting" /\ UNCHANGED <<Lane, sealed, ids, ghosts>>
    BY <1>0, <1>1, CurrentParts, Snapshot DEF StartRun, Active, Running
  <2>2. CASE Transition(Need(snap, "no")) /\ Work("continue", NoWork)
    <3>1. /\ Need(snap, "no") \in Operations /\ Need(snap, "no").at = "need"
          /\ Need(snap, "no").ctl = "running"
      BY <1>0, <2>1, NextStage
    <3>2. Advances(Need(snap, "no"))
      BY <2>1, <2>2, <3>1 DEF Advances, Work, Go
    <3>3. QED
      BY <2>1, <2>2, <3>1, <3>2, TransitionWrites, ContinueMove
  <2>3. CASE Leave /\ UNCHANGED <<disk, mem>>
    <3>1. Quiet
      BY <2>1, <2>3, QuietGo, NoWorkMakes DEF Leave
    <3>2. QED
      BY <2>3, <3>1, StopIs DEF Leave
  <2>4. QED
    BY <1>1, <2>2, <2>3 DEF StartRun
<1>2. ASSUME NEW from \in {"need", "finish"}, NEW to, to = IF from = "need" THEN "need2" ELSE "finish2",
             pc = from, Drain(to)
      PROVE  DriveKinds
  <2>1. /\ pc \in Held /\ pc \notin {"idle", "sapply", "settle"} /\ snap \in Operations
        /\ snap.ctl = "running" /\ Current = snap
        /\ snap.at = from
    BY <1>0, <1>2, CurrentParts, Snapshot DEF Running
  <2>2. /\ pc' = to /\ UNCHANGED <<gate, snap>> /\ queued' = 0
        /\ UNCHANGED <<intent, abort, crashed, aborts, disk, mem, sealed, ids, ghosts>>
    BY <1>2 DEF Drain, Work, Go
  <2>3. work' \in Works
    <3>1. (queued > 0) \in BOOLEAN
      OBVIOUS
    <3>2. QED
      BY <1>2, <3>1, TriggerMakes, Zenon DEF Drain, Work
  <2>4. Quiet
    <3>1. 0 \in 0..MaxQueued
      BY Bounds
    <3>2. QED
      BY <2>1, <2>2, <2>3, <3>1, QuietIs DEF TypeInv
  <2>5. Holds(Current)
    BY <1>0, <1>2, <2>1, <2>2, Places DEF Holds
  <2>6. LocalInv' /\ pc' \notin {"stream", "execute"} /\ pc' \notin Together
    BY <1>2, <2>2, FreeLocals DEF Free, Plain, Together
  <2>7. QED
    BY <2>1, <2>4, <2>5, <2>6, GoIs
<1>3. ASSUME CheckpointNeed \/ CheckpointFinish PROVE DriveKinds
  BY <1>2, <1>3 DEF CheckpointNeed, CheckpointFinish, Active
<1>4. ASSUME StartCompaction PROVE DriveKinds
  <2> DEFINE next == [Leaf("deciding", snap) EXCEPT !.ov = IF ForceCompaction THEN "used" ELSE "no"]
  <2>1. pc = "need2" /\ pc \in Held /\ snap \in Operations /\ snap.ctl = "running" /\ Current.at = "need"
    BY <1>0, <1>4, CurrentParts, Snapshot DEF StartCompaction, Active, Running
  <2>2. CASE Settle(snap, "failed")
    <3>1. Ends("failed")
      BY <2>1, <2>2, SettleEnds DEF Statuses
    <3>2. QED
      BY <3>1 DEF DriveKinds, Statuses
  <2>3. CASE /\ disk' = [disk EXCEPT !.op = next, !.prep = TRUE] /\ mem' = next
             /\ Work("continue", NoWork) /\ UNCHANGED <<Lane, sealed, ids, ghosts>>
    <3>1. next \in Operations /\ next.at = "deciding" /\ next.ctl = "running"
      <4>1. /\ Leaf("deciding", snap) \in Operations /\ Leaf("deciding", snap).at = "deciding"
            /\ Leaf("deciding", snap).ctl = "running"
        BY <2>1, NextStage DEF Stages
      <4>2. QED
        BY <1>0, <4>1 DEF Operations
    <3> HIDE DEF next
    <3>2. disk' \in Disks /\ disk'.op = next /\ disk'.result = disk.result /\ disk'.log = disk.log
      <4>1. next \in States
        BY <3>1 DEF States
      <4>2. QED
        BY <2>3, <4>1, DiskParts DEF Disks
    <3>3. Advances(next)
      BY <2>1, <2>3, <3>1 DEF Advances, Work, Go
    <3>4. QED
      BY <2>1, <2>3, <3>1, <3>2, <3>3, ContinueMove
  <2>4. QED
    BY <1>4, <2>2, <2>3 DEF StartCompaction
<1>5. ASSUME AssistantReady PROVE DriveKinds
  <2>1. /\ pc = "need2" /\ pc \in Held /\ snap \in Operations /\ snap.ctl = "running"
        /\ Current.at = "need" /\ UNCHANGED <<Lane, sealed, ids, ghosts>> /\ Work("continue", NoWork)
    BY <1>0, <1>5, CurrentParts, Snapshot DEF AssistantReady, Active, Running
  <2>2. PICK ov \in Overflow : Transition(Ready(snap, 1, ov))
    BY <1>0, <1>5 DEF AssistantReady
  <2>3. /\ Ready(snap, 1, ov) \in Operations /\ Ready(snap, 1, ov).at = "ready"
        /\ Ready(snap, 1, ov).ctl = "running" /\ Ready(snap, 1, ov).att = 1
    BY <2>1, NextStage
  <2>4. Readies(Ready(snap, 1, ov))
    BY <2>1, <2>3 DEF Readies, Work, Go
  <2>5. QED
    BY <2>1, <2>2, <2>3, <2>4, TransitionWrites, ContinueMove
<1>6. ASSUME FinishBoundary PROVE DriveKinds
  <2>1. pc = "finish2" /\ pc \in Held /\ snap \in Operations /\ snap.ctl = "running" /\ Current = snap
        /\ snap.at = "finish"
    BY <1>0, <1>6, CurrentParts, Snapshot DEF FinishBoundary, Active, Running
  <2>2. CASE RenewReady
    BY <2>1, <2>2, RenewKinds
  <2>3. CASE /\ Go(IF CancelSeen THEN "continue" ELSE "hook")
             /\ UNCHANGED <<Lane, disk, mem, work, sealed, ids, ghosts>>
    <3>1. Quiet
      BY <2>1, <2>3, QuietGo DEF Go, TypeInv
    <3>2. CASE pc' = "continue"
      BY <3>1, <3>2, StopIs
    <3>3. CASE pc' = "hook"
      <4>1. Holds(Current)
        BY <1>0, <2>1, <2>3, <3>3, Places DEF Holds, Go
      <4>2. LocalInv' /\ pc' \notin Together
        BY <3>3, FreeLocals DEF Free, Plain, Together
      <4>3. QED
        BY <2>1, <3>1, <3>3, <4>1, <4>2, GoIs
    <3>4. QED
      BY <2>3, <3>2, <3>3 DEF Go
  <2>4. QED
    BY <1>6, <2>2, <2>3 DEF FinishBoundary
<1>7. ASSUME BeforeRunEnd PROVE DriveKinds
  <2>1. /\ pc = "hook" /\ pc \in Held /\ snap \in Operations /\ snap.ctl = "running" /\ Current = snap
        /\ snap.at = "finish" /\ snap # NoOp /\ UNCHANGED <<Lane, disk, mem, sealed, ids, ghosts>>
    BY <1>0, <1>7, CurrentParts, Snapshot DEF BeforeRunEnd, Active, Running
  <2>2. CASE \E f \in BOOLEAN :
               Work(IF CancelSeen THEN "continue" ELSE "redrain", [NoWork EXCEPT !.trigger = f])
    <3>1. work' \in Works
      BY <2>2, TriggerMakes, Zenon DEF Work
    <3>2. pc' \in {"continue", "redrain"} /\ UNCHANGED <<gate, snap>>
      BY <2>2 DEF Work, Go
    <3>3. Quiet
      BY <2>1, <3>1, <3>2, QuietGo
    <3>4. CASE pc' = "continue"
      BY <3>3, <3>4, StopIs
    <3>5. CASE pc' = "redrain"
      <4>1. Holds(Current)
        BY <1>0, <2>1, <3>2, <3>5, Places DEF Holds
      <4>2. LocalInv' /\ pc' \notin Together
        BY <3>5, FreeLocals DEF Free, Plain, Together
      <4>3. QED
        BY <2>1, <3>3, <3>5, <4>1, <4>2, GoIs
    <3>6. QED
      BY <3>2, <3>4, <3>5
  <2>3. CASE gate /\ Work("reconcile", NoWork)
    <3>1. Quiet
      BY <2>1, <2>3, QuietGo, NoWorkMakes DEF Work, Go
    <3>2. QED
      BY <2>1, <2>3, <3>1, ReconcileGo DEF Work, Go
  <2>4. QED
    BY <1>7, <2>2, <2>3 DEF BeforeRunEnd
<1>8. ASSUME Redrain PROVE DriveKinds
  <2>1. /\ pc = "redrain" /\ pc \in Held /\ snap \in Operations /\ snap.ctl = "running" /\ Current = snap
        /\ snap.at = "finish" /\ queued' \in 0..MaxQueued
        /\ UNCHANGED <<intent, abort, crashed, aborts, disk, mem, sealed, ids, ghosts>>
    BY <1>0, <1>8, CurrentParts, Snapshot, Bounds DEF Redrain, Active, Running, TypeInv
  <2>2. CASE Work("renew", NoWork)
    <3>1. Quiet
      BY <2>1, <2>2, QuietIs, NoWorkMakes DEF Work, Go, TypeInv
    <3>2. Holds(Current)
      BY <1>0, <2>1, <2>2, Places DEF Holds, Work, Go
    <3>3. LocalInv' /\ pc' \notin Together /\ pc' \notin {"stream", "execute"}
      BY <2>2, FreeLocals DEF Free, Plain, Together, Work, Go
    <3>4. QED
      BY <2>1, <3>1, <3>2, <3>3, GoIs
  <2>3. CASE Work("settle", [NoWork EXCEPT !.out = "completed"])
    <3>1. "completed" \in Outcomes
      BY DEF Outcomes, Statuses
    <3>2. work' \in Works /\ work'.out = "completed"
      BY <2>3, <3>1, NoWorkMakes DEF Work
    <3>3. Quiet
      BY <2>1, <2>3, <3>2, QuietIs DEF Work, Go, TypeInv
    <3>4. Completes
      BY <2>1, <2>3, <3>2, <3>3 DEF Completes, Work, Go
    <3>5. QED
      BY <3>4 DEF DriveKinds
  <2>4. QED
    BY <1>8, <2>2, <2>3 DEF Redrain
<1>9. ASSUME Renew PROVE DriveKinds
  BY <1>9, RenewKinds DEF Renew, Active
<1>10. QED
  BY <1>1, <1>3, <1>4, <1>5, <1>6, <1>7, <1>8, <1>9

-----------------------------------------------------------------------------
(* Assistant generation. *)

(* The state a response leads to. *)
LEMMA ResponseLeads ==
  ASSUME NEW p \in Operations, p.ctl = "running", NEW out \in Responses
  PROVE  /\ AfterResponse(p, out) \in Operations /\ AfterResponse(p, out).ctl = "running"
         /\ AfterResponse(p, out).at \in {"retry", "finish", "need", "suspended", "tools"}
         /\ AfterResponse(p, out).at = "tools" => AfterResponse(p, out).id = p.id
         /\ AfterResponse(p, out).at = "finish" => out \in {"stop", "error", "length"}
<1>1. \A at \in Stages : Leaf(at, p) \in Operations /\ Leaf(at, p).at = at /\ Leaf(at, p).ctl = "running"
  BY NextStage
<1>2. p.att \in Nat /\ p.id \in 0..MaxIds /\ p.ov \in Overflow
  BY OpParts DEF States
<1>3. \A at \in {"retry", "finish", "need", "suspended", "tools"} : at \in Stages
  BY DEF Stages
<1>4. CASE out = "error"
  <2>1. AfterResponse(p, out) = AfterError(p)
    BY <1>4 DEF AfterResponse
  <2> DEFINE att == IF p.at = "effect" THEN p.att ELSE 1
  <2>2. CASE att < MaxAttempts
    <3>1. att + 1 \in 0..MaxAttempts
      BY <1>2, <2>2, Bounds
    <3>2. AfterError(p) = [Leaf("retry", p) EXCEPT !.att = att + 1, !.ov = p.ov]
      BY <2>2 DEF AfterError
    <3> HIDE DEF att
    <3>3. /\ Leaf("retry", p) \in Operations /\ Leaf("retry", p).at = "retry"
          /\ Leaf("retry", p).ctl = "running"
      BY <1>1, <1>3
    <3>4. AfterError(p) \in Operations /\ AfterError(p).at = "retry" /\ AfterError(p).ctl = "running"
      BY <1>2, <3>1, <3>2, <3>3 DEF Operations
    <3>5. QED
      BY <2>1, <3>4
  <2>3. CASE ~(att < MaxAttempts)
    <3>1. AfterError(p) = Leaf("finish", p)
      BY <2>3 DEF AfterError
    <3>2. QED
      BY <1>1, <1>3, <1>4, <2>1, <3>1
  <2>4. QED
    BY <2>2, <2>3
<1>5. CASE out = "length"
  <2>1. AfterResponse(p, out) \in {Leaf("finish", p), Need(p, "length")}
    BY <1>5 DEF AfterResponse, AfterLength
  <2>2. Need(p, "length") \in Operations /\ Need(p, "length").at = "need" /\ Need(p, "length").ctl = "running"
    BY NextStage DEF Overflow
  <2>3. QED
    BY <1>1, <1>3, <1>5, <2>1, <2>2
<1>6. ASSUME NEW at \in {"suspended", "tools"}, AfterResponse(p, out) = [Leaf(at, p) EXCEPT !.id = p.id]
      PROVE  /\ AfterResponse(p, out) \in Operations /\ AfterResponse(p, out).ctl = "running"
             /\ AfterResponse(p, out).at = at /\ AfterResponse(p, out).id = p.id
  <2>1. Leaf(at, p) \in Operations /\ Leaf(at, p).at = at /\ Leaf(at, p).ctl = "running"
    BY <1>1, <1>3
  <2>2. QED
    BY <1>2, <1>6, <2>1 DEF Operations
<1>7. CASE out = "deferred"
  <2>1. AfterResponse(p, out) = [Leaf("suspended", p) EXCEPT !.id = p.id]
    BY <1>7 DEF AfterResponse
  <2>2. QED
    BY <1>6, <2>1
<1>8. CASE out = "tools"
  <2>1. AfterResponse(p, out) = [Leaf("tools", p) EXCEPT !.id = p.id]
    BY <1>8 DEF AfterResponse
  <2>2. QED
    BY <1>6, <2>1
<1>9. CASE out = "stop"
  <2>1. AfterResponse(p, out) = Leaf("finish", p)
    BY <1>9 DEF AfterResponse
  <2>2. QED
    BY <1>1, <1>3, <1>9, <2>1
<1>10. QED
  BY <1>4, <1>5, <1>7, <1>8, <1>9 DEF Responses

(* A reserved id, and the request for it. *)
LEMMA ReserveIs ==
  ASSUME CoreInv, pc \in {"ready", "suspended", "poll"}, Room,
         NEW next \in Operations, next = Requested(snap, [NoWork EXCEPT !.id = ids + 1]),
         disk' \in Disks, disk'.op = next, mem' = next, disk'.result = disk.result,
         disk'.log = disk.log, ids' = ids + 1, UNCHANGED <<Lane, sealed, ghosts>>,
         Work("stream", [NoWork EXCEPT !.id = ids + 1])
  PROVE  DriveKinds
<1> USE DEF CoreInv
<1>1. ids + 1 \in 0..MaxIds /\ ids + 1 # 0
  BY Bounds DEF Room, TypeInv
<1>2. work' = [NoWork EXCEPT !.id = ids + 1] /\ work' \in Works /\ work'.id = ids + 1 /\ work'.id # 0
  BY <1>1, NoWorkMakes DEF Work
<1>3. /\ pc \in Stages /\ pc \in Held /\ pc # "idle" /\ snap \in Operations /\ snap.ctl = "running"
      /\ Current = snap /\ snap.at = pc
  <2>1. pc \in Stages
    BY DEF Stages
  <2>2. QED
    BY <2>1, Places, CurrentParts, Snapshot DEF Running
<1>4. /\ pc' = "stream" /\ UNCHANGED <<gate, snap>> /\ pc' \in Requesting
      /\ next = CurrentAt(pc', snap, work') /\ snap.at \in OriginsOf(pc')
  <2>1. pc' = "stream" /\ UNCHANGED <<gate, snap>> /\ "stream" \in Requesting
    BY DEF Work, Go, Requesting
  <2>2. QED
    BY <1>2, <1>3, <2>1, Places
<1>5. LocalInv'
  BY <1>2, <1>4 DEF LocalInv, Together
<1>6. next.id = ids + 1 /\ next.ctl = "running"
      /\ (pc = "ready" => next.at = "effect" /\ next.att = snap.att) /\ (pc # "ready" => next.at = "poll")
  <2>1. CASE pc = "ready"
    <3>1. next = [snap EXCEPT !.at = "effect", !.id = ids + 1]
      BY <1>2, <1>3, <2>1 DEF Requested
    <3>2. QED
      BY <1>3, <2>1, <3>1 DEF Operations
  <2>2. CASE pc # "ready"
    <3>1. next = [Leaf("poll", snap) EXCEPT !.id = ids + 1]
      BY <1>2, <1>3, <2>2 DEF Requested
    <3>2. /\ Leaf("poll", snap) \in Operations /\ Leaf("poll", snap).at = "poll"
          /\ Leaf("poll", snap).ctl = "running"
      BY <1>3, NextStage DEF Stages
    <3>3. QED
      BY <2>2, <3>1, <3>2 DEF Operations
  <2>3. QED
    BY <2>1, <2>2
<1>7. Reserves(next)
  BY <1>1, <1>3, <1>4, <1>6 DEF Reserves
<1>8. Moves(next)
  BY <1>2, <1>3, <1>4, <1>5, <1>6, <1>7, MoveIs
<1>9. QED
  BY <1>8 DEF DriveKinds

LEMMA RequestKinds ==
  ASSUME CoreInv
  PROVE  /\ Generation => DriveKinds
         /\ DeferredPoll => DriveKinds
<1> USE DEF CoreInv
<1>0. \A p \in {"ready", "suspended", "poll"} : p \in Stages /\ p \in Held
  BY Places DEF Stages
<1>1. ASSUME Generation PROVE DriveKinds
  <2>1. /\ pc = "ready" /\ pc \in Held /\ snap \in Operations /\ snap.ctl = "running"
        /\ snap.at = "ready" /\ snap # NoOp /\ "failed" \in Statuses
    BY <1>0, <1>1, CurrentParts, Snapshot DEF Generation, Active, Running, Statuses
  <2>2. CASE Settle(snap, "failed")
    BY <2>1, <2>2, SettleEnds DEF DriveKinds
  <2>3. CASE gate /\ Work("reconcile", NoWork) /\ UNCHANGED <<Lane, disk, mem, sealed, ids, ghosts>>
    <3>1. Quiet
      BY <2>1, <2>3, QuietGo, NoWorkMakes DEF Work, Go
    <3>2. QED
      BY <2>1, <2>3, <3>1, ReconcileGo DEF Work, Go
  <2>4. CASE /\ Room /\ ids' = ids + 1 /\ Transition([snap EXCEPT !.at = "effect", !.id = ids + 1])
             /\ Work("stream", [NoWork EXCEPT !.id = ids + 1]) /\ UNCHANGED <<Lane, sealed, ghosts>>
    <3> DEFINE next == [snap EXCEPT !.at = "effect", !.id = ids + 1]
    <3>1. ids + 1 \in 0..MaxIds
      BY <2>4, Bounds DEF Room, TypeInv
    <3>2. next \in Operations
      BY <2>1, <3>1 DEF Operations, Stages
    <3>3. next = Requested(snap, [NoWork EXCEPT !.id = ids + 1])
      BY <2>1, <3>1, NoWorkMakes DEF Requested
    <3> HIDE DEF next
    <3>4. Transition(next)
      BY <2>4 DEF next
    <3>5. QED
      BY <2>1, <2>4, <3>2, <3>3, <3>4, TransitionWrites, ReserveIs
  <2>5. QED
    BY <1>1, <2>2, <2>3, <2>4 DEF Generation
<1>2. ASSUME DeferredPoll PROVE DriveKinds
  <2>1. /\ pc \in {"suspended", "poll"} /\ pc \in Held /\ snap \in Operations /\ snap.ctl = "running"
        /\ snap.at \in {"suspended", "poll"} /\ snap # NoOp
    BY <1>0, <1>2, CurrentParts, Snapshot DEF DeferredPoll, Active, Running
  <2>2. CASE Leave /\ UNCHANGED <<Lane, disk, mem, sealed, ids, ghosts>>
    <3>1. Quiet
      BY <2>1, <2>2, QuietGo, NoWorkMakes DEF Leave
    <3>2. QED
      BY <2>2, <3>1, StopIs DEF Leave
  <2>3. CASE gate /\ Work("reconcile", NoWork) /\ UNCHANGED <<Lane, disk, mem, sealed, ids, ghosts>>
    <3>1. Quiet
      BY <2>1, <2>3, QuietGo, NoWorkMakes DEF Work, Go
    <3>2. QED
      BY <2>1, <2>3, <3>1, ReconcileGo DEF Work, Go
  <2> DEFINE next == [Leaf("poll", snap) EXCEPT !.id = ids + 1]
  <2>4. CASE /\ Room /\ ids' = ids + 1
             /\ disk' = [disk EXCEPT !.op = next, !.frames = @ \ ResponseIdOf(snap)] /\ mem' = next
             /\ Work("stream", [NoWork EXCEPT !.id = ids + 1]) /\ UNCHANGED <<Lane, sealed, ghosts>>
    <3>1. ids + 1 \in 0..MaxIds
      BY <2>4, Bounds DEF Room, TypeInv
    <3>2. next \in Operations
      <4>1. Leaf("poll", snap) \in Operations
        BY <2>1, NextStage DEF Stages
      <4>2. QED
        BY <3>1, <4>1 DEF Operations
    <3>3. next = Requested(snap, [NoWork EXCEPT !.id = ids + 1])
      BY <2>1, <3>1, NoWorkMakes DEF Requested
    <3> HIDE DEF next
    <3>4. disk' \in Disks /\ disk'.op = next /\ disk'.result = disk.result /\ disk'.log = disk.log
      <4>1. next \in States
        BY <3>2 DEF States
      <4>2. QED
        BY <2>4, <4>1, DiskParts DEF Disks
    <3>5. QED
      BY <2>1, <2>4, <3>2, <3>3, <3>4, ReserveIs
  <2>5. QED
    BY <1>2, <2>2, <2>3, <2>4 DEF DeferredPoll
<1>3. QED
  BY <1>1, <1>2

LEMMA SameRequest ==
  ASSUME NEW p \in Requesting, NEW q \in Requesting, NEW s, NEW v, NEW w, v.id = w.id
  PROVE  /\ CurrentAt(p, s, v) = CurrentAt(q, s, w)
         /\ p \in Held /\ OriginsOf(p) = {"ready", "suspended", "poll"}
<1>1. CurrentAt(p, s, v) = Requested(s, v) /\ CurrentAt(q, s, w) = Requested(s, w)
  BY Places
<1>2. Requested(s, v) = Requested(s, w)
  BY DEF Requested
<1>3. QED
  BY <1>1, <1>2, Places

LEMMA StreamKinds ==
  ASSUME CoreInv
  PROVE  /\ StreamRefused => DriveKinds
         /\ StreamStart => DriveKinds
         /\ StreamFrame => DriveKinds
         /\ StreamEnd => DriveKinds
<1> USE DEF CoreInv
<1>0. /\ \A p \in Requesting : p \in Held
      /\ \A p \in {"stream", "frames", "failure", "publish", "commit"} : p \in Requesting
      /\ \A p \in Requesting : p \notin Together
  BY Places DEF Requesting, Together
<1>1. ASSUME pc \in Requesting
      PROVE  /\ pc \in Held /\ pc \notin {"idle", "sapply", "settle"} /\ snap \in Operations /\ snap.ctl = "running" /\ snap # NoOp
             /\ snap.at \in {"ready", "suspended", "poll"} /\ work \in Works /\ work.id # 0
             /\ work.id \in 0..MaxIds
  BY <1>0, <1>1, CurrentParts, Snapshot, WorkParts DEF Running, TypeInv, LocalInv, Requesting
<1>2. ASSUME pc \in Requesting, pc' \in Requesting, UNCHANGED snap, work'.id = work.id
      PROVE  Holds(Current)
  BY <1>1, <1>2, SameRequest DEF Holds, Current
<1>3. ASSUME StreamRefused PROVE DriveKinds
  <2>1. pc \in Requesting /\ gate /\ UNCHANGED <<Lane, disk, mem, sealed, ids, ghosts>>
        /\ pc' = "reconcile" /\ UNCHANGED <<gate, snap>> /\ work' = NoWork
    BY <1>0, <1>3 DEF StreamRefused, Active, Work, Go
  <2>2. Quiet
    BY <1>1, <2>1, QuietGo, NoWorkMakes
  <2>3. QED
    BY <1>1, <2>1, <2>2, ReconcileGo
<1>4. ASSUME StreamStart PROVE DriveKinds
  <2>1. /\ pc = "stream" /\ pc \in Requesting /\ pc' = "frames" /\ pc' \in Requesting
        /\ UNCHANGED <<Lane, disk, mem, work, sealed, ids, ran, reran, rejected, cut, gate, snap>>
    BY <1>0, <1>4 DEF StreamStart, Active, Go
  <2>2. Step /\ Kept
    BY <1>1, <2>1, DiskParts DEF Step, Kept, TypeInv, Lane
  <2>3. CASE snap.at = "ready"
    <3>1. sent' = sent \union {Attempt} /\ resent' = (resent \/ Attempt \in sent)
      BY <1>4, <2>3, Zenon DEF StreamStart, Attempt
    <3>2. resent' => resent \/ Attempt \in sent
      BY ONLY <3>1
    <3>3. Sends
      BY <2>1, <2>2, <2>3, <3>1, <3>2 DEF Sends
    <3>4. QED
      BY <3>3 DEF DriveKinds
  <2>4. CASE snap.at # "ready"
    <3>1. UNCHANGED <<sent, resent>>
      BY <1>4, <2>4 DEF StreamStart
    <3>2. Quiet
      BY <2>1, <2>2, <3>1 DEF Quiet, Uneffected
    <3>3. LocalInv'
      BY <1>1, <2>1 DEF LocalInv, Together
    <3>4. QED
      BY <1>0, <1>1, <1>2, <2>1, <3>2, <3>3, GoIs
  <2>5. QED
    BY <2>3, <2>4
<1>5. ASSUME StreamFrame PROVE DriveKinds
  <2>1. /\ pc = "frames" /\ pc \in Requesting /\ pc' = "frames" /\ pc' \in Requesting
        /\ UNCHANGED <<Lane, mem, work, sealed, ids, ghosts, gate, snap>>
        /\ disk' = [disk EXCEPT !.frames = @ \union {work.id}]
    BY <1>0, <1>5 DEF StreamFrame, Active, Go
  <2>2. work.id \in 1..MaxIds
    BY <1>1, <2>1, Bounds
  <2>3. disk' \in Disks /\ disk'.op = disk.op /\ disk'.result = disk.result /\ disk'.log = disk.log
    BY <2>1, <2>2, DiskParts DEF Disks
  <2>4. Quiet
    BY <1>1, <2>1, <2>3 DEF Quiet, Step, Kept, Uneffected, TypeInv, Lane, ghosts
  <2>5. LocalInv'
    BY <1>1, <2>1 DEF LocalInv, Together
  <2>6. QED
    BY <1>0, <1>1, <1>2, <2>1, <2>4, <2>5, GoIs
<1>6. ASSUME StreamEnd PROVE DriveKinds
  <2>1. PICK out \in Responses \union {"provider", "preparation"} :
          Work(IF out \in Responses THEN "publish" ELSE "failure", [work EXCEPT !.out = out])
    BY <1>6 DEF StreamEnd
  <2>2. out \in Outcomes
    BY DEF Outcomes
  <2>3. /\ pc = "frames" /\ pc \in Requesting /\ pc' \in {"publish", "failure"} /\ pc' \in Requesting
        /\ (pc' = "publish" => out \in Responses)
        /\ UNCHANGED <<Lane, disk, mem, sealed, ids, ghosts, gate, snap>>
    BY <1>0, <1>6, <2>1 DEF StreamEnd, Active, Work, Go
  <2>4. work' \in Works /\ work'.out = out /\ work'.id = work.id
    <3>1. work' = [work EXCEPT !.out = out] /\ work \in Works
      BY <1>1, <2>1, <2>3 DEF Work
    <3>2. QED
      BY <2>2, <3>1 DEF Works
  <2>5. Quiet
    BY <1>1, <2>3, <2>4, QuietGo
  <2>6. LocalInv'
    BY <1>1, <2>3, <2>4 DEF LocalInv, Together
  <2>7. QED
    BY <1>0, <1>1, <1>2, <2>3, <2>4, <2>5, <2>6, GoIs
<1>7. QED
  BY <1>3, <1>4, <1>5, <1>6

LEMMA AnswerKinds ==
  ASSUME CoreInv
  PROVE  /\ StreamFailure => DriveKinds
         /\ DeferredFailure => DriveKinds
         /\ Publish => DriveKinds
         /\ RetryScheduled => DriveKinds
         /\ RetryWait => DriveKinds
<1> USE DEF CoreInv
<1>0. /\ \A p \in {"failure", "publish", "commit"} : p \in Requesting /\ p \in Held
      /\ \A p \in {"retry", "sretry"} : p \in Stages /\ p \in Held
      /\ "failed" \in Statuses /\ "aborted" \in Statuses
  BY Places DEF Requesting, Stages, Statuses
<1>1. ASSUME StreamFailure PROVE DriveKinds
  <2>1. /\ pc = "failure" /\ pc \in Held /\ snap \in Operations /\ snap.ctl = "running" /\ snap # NoOp
        /\ snap.at = "ready" /\ Current.at = "effect" /\ Current.att = snap.att
    BY <1>0, <1>1, CurrentParts, Snapshot DEF StreamFailure, Active, Running
  <2>2. CASE Settle(snap, "failed")
    BY <1>0, <2>1, <2>2, SettleEnds DEF DriveKinds
  <2>3. CASE CancelSeen /\ Work("reconcile", NoWork) /\ UNCHANGED <<Lane, disk, mem, sealed, ids, ghosts>>
    <3>1. Quiet
      BY <2>1, <2>3, QuietGo, NoWorkMakes DEF Work, Go
    <3>2. QED
      BY <2>1, <2>3, <3>1, ReconcileGo DEF Work, Go, CancelSeen
  <2>4. CASE /\ snap.att < MaxAttempts /\ Transition([snap EXCEPT !.at = "retry", !.att = @ + 1])
             /\ Leave /\ UNCHANGED <<Lane, sealed, ids, ghosts>>
    <3> DEFINE next == [snap EXCEPT !.at = "retry", !.att = snap.att + 1]
    <3>1. snap.att \in Nat /\ snap.att + 1 \in 0..MaxAttempts
      <4>1. snap.att \in Nat
        BY <2>1, OpParts DEF States
      <4>2. QED
        BY <2>4, <4>1, Bounds
    <3>2. next \in Operations /\ next.at = "retry" /\ next.att = snap.att + 1 /\ next.ctl = "running"
      BY <2>1, <3>1 DEF Operations, Stages
    <3>3. Transition(next)
      BY <2>4
    <3> HIDE DEF next
    <3>4. /\ pc' = "idle" /\ UNCHANGED <<gate, snap>> /\ work' \in Works /\ pc' \notin Held
      BY <2>4, NoWorkMakes, Places DEF Leave
    <3>5. LocalInv'
      BY <3>4, FreeLocals DEF Free
    <3>6. Retries(next)
      BY <2>1, <2>4, <3>2, <3>4 DEF Retries
    <3>7. Moves(next)
      BY <2>1, <2>4, <3>2, <3>3, <3>4, <3>5, <3>6, TransitionWrites, MoveIs
    <3>8. QED
      BY <3>2, <3>7 DEF DriveKinds
  <2>5. QED
    BY <1>1, <2>2, <2>3, <2>4 DEF StreamFailure
<1>2. ASSUME DeferredFailure PROVE DriveKinds
  <2>1. /\ pc = "failure" /\ Leave /\ UNCHANGED <<Lane, disk, mem, ids, ghosts>>
    BY <1>2 DEF DeferredFailure, Active, Fault
  <2>2. Quiet
    BY <2>1, QuietIs, NoWorkMakes DEF Leave, Lane, TypeInv
  <2>3. QED
    BY <2>1, <2>2, StopIs DEF Leave
<1>3. ASSUME Publish PROVE DriveKinds
  <2>1. /\ pc = "publish" /\ pc \in Held /\ UNCHANGED <<Lane, sealed, ids, ghosts>>
        /\ Current = Requested(snap, work) /\ Current.id = work.id /\ work \in Works
        /\ work.out \in Responses /\ work.id # 0 /\ mem \in Operations
        /\ snap.ctl = "running" /\ snap.at \in {"ready", "suspended", "poll"}
    BY <1>0, <1>3, CurrentParts, Snapshot DEF Publish, Active, LocalInv, TypeInv, Requesting, Running
  <2>2. CASE Leave /\ UNCHANGED <<disk, mem>>
    <3>1. Quiet
      BY <2>1, <2>2, QuietGo, NoWorkMakes DEF Leave
    <3>2. QED
      BY <2>2, <3>1, StopIs DEF Leave
  <2>3. CASE disk' = Settled(mem, "aborted") /\ mem' = NoOp /\ Leave
    <3>1. gate' \in BOOLEAN /\ (gate' => gate)
      BY <2>3 DEF Leave, TypeInv
    <3>2. Ends("aborted")
      BY <1>0, <2>1, <2>3, <3>1, EndIs DEF Leave
    <3>3. QED
      BY <1>0, <3>2 DEF DriveKinds
  <2>4. CASE /\ mem.ctl = "running" /\ UNCHANGED <<disk, mem>>
             /\ Work("commit", [work EXCEPT !.id = mem.id, !.next = AfterResponse(mem, work.out)])
    <3>1. mem = Current
      BY <2>1, <2>4 DEF HeldInv, Running
    <3> DEFINE next == AfterResponse(mem, work.out)
    <3>2. next \in Operations
      BY <2>1, <2>4, ResponseLeads
    <3>3. next \in States /\ work.id \in 0..MaxIds
      BY <2>1, <3>2, WorkParts DEF States
    <3>4. work' = [work EXCEPT !.id = work.id, !.next = next]
      BY <2>1, <2>4, <3>1 DEF Work
    <3> HIDE DEF next
    <3>5. work' \in Works /\ work'.id = work.id /\ work'.next = next /\ work'.out = work.out
      BY <2>1, <3>3, <3>4 DEF Works
    <3>6. /\ pc' = "commit" /\ UNCHANGED <<gate, snap>> /\ pc' \in Requesting
          /\ CurrentAt(pc', snap', work') = Current /\ snap'.at \in OriginsOf(pc') /\ pc' \in Held
      <4>1. pc' = "commit" /\ UNCHANGED <<gate, snap>> /\ pc' \in Requesting
        BY <1>0, <2>4 DEF Work, Go
      <4>2. QED
        BY <1>0, <2>1, <3>5, <4>1, SameRequest DEF Current
    <3>7. Holds(Current)
      BY <2>1, <3>6 DEF Holds
    <3>8. LocalInv'
      <4>1. Current' = mem
        BY <3>1, <3>6 DEF Current
      <4>2. QED
        BY <2>1, <3>5, <3>6, <4>1 DEF LocalInv, Together, next
    <3>9. Quiet
      BY <2>1, <2>4, <3>5, <3>6, QuietGo
    <3>10. QED
      BY <2>1, <3>6, <3>7, <3>8, <3>9, GoIs DEF Together
  <2>5. QED
    BY <1>3, <2>2, <2>3, <2>4 DEF Publish
<1>4. ASSUME RetryScheduled PROVE DriveKinds
  <2>1. /\ pc = "scheduled" /\ pc' \in {"idle", "continue"} /\ UNCHANGED <<gate, snap>>
        /\ work' = NoWork /\ UNCHANGED <<Lane, disk, mem, sealed, ids, ghosts>>
    BY <1>4 DEF RetryScheduled, Active, Leave, Work, Go
  <2>2. QED
    BY <2>1, NoWorkMakes, QuietGo, StopIs
<1>5. ASSUME RetryWait PROVE DriveKinds
  <2>1. /\ pc \in {"retry", "sretry"} /\ pc \in Held /\ snap \in Operations /\ snap.ctl = "running"
        /\ snap # NoOp /\ snap.at = pc /\ Current = snap /\ UNCHANGED <<Lane, sealed, ids, ghosts>>
    BY <1>0, <1>5, CurrentParts, Snapshot DEF RetryWait, Active, Running
  <2>2. CASE Leave /\ UNCHANGED <<disk, mem>>
    <3>1. Quiet
      BY <2>1, <2>2, QuietGo, NoWorkMakes DEF Leave
    <3>2. QED
      BY <2>2, <3>1, StopIs DEF Leave
  <2>3. CASE gate /\ Work("reconcile", NoWork) /\ UNCHANGED <<disk, mem>>
    <3>1. Quiet
      BY <2>1, <2>3, QuietGo, NoWorkMakes DEF Work, Go
    <3>2. QED
      BY <2>1, <2>3, <3>1, ReconcileGo DEF Work, Go
  <2>4. CASE /\ Transition([snap EXCEPT !.at = IF @ = "retry" THEN "ready" ELSE "sready"])
             /\ Work("continue", NoWork)
    <3> DEFINE stage == IF snap.at = "retry" THEN "ready" ELSE "sready"
               next == [snap EXCEPT !.at = stage]
    <3>1. Transition(next)
      BY <2>4
    <3>2. next \in Operations /\ next.at = stage /\ next.ctl = "running" /\ next.att = snap.att
          /\ next.id = snap.id
      BY <2>1 DEF Operations, Stages
    <3> HIDE DEF next
    <3>3. Resumes(next)
      BY <2>1, <2>4, <3>2 DEF Resumes, Work, Go
    <3>4. QED
      BY <2>1, <2>4, <3>1, <3>2, <3>3, TransitionWrites, ContinueMove
  <2>5. QED
    BY <1>5, <2>2, <2>3, <2>4 DEF RetryWait
<1>6. QED
  BY <1>1, <1>2, <1>3, <1>4, <1>5

-----------------------------------------------------------------------------
(* Tools. *)

LEMMA BatchFacts ==
  ASSUME CoreInv, pc \in Batch \union {"tools"}
  PROVE  /\ TypeInv /\ GoneInv /\ HeldInv /\ LocalInv
         /\ pc \in Held /\ pc # "idle" /\ snap \in Operations /\ snap.ctl = "running" /\ snap # NoOp
         /\ snap.at = "tools" /\ Current.at = "tools" /\ Current.id = snap.id /\ mem \in Operations
         /\ work \in Works /\ work.calls \in Batches /\ work.call \in Nat
         /\ work.todo \subseteq Calls /\ work.live \subseteq Calls
         /\ pc \in Batch => /\ Current = [snap EXCEPT !.calls = work.calls]
                            /\ Current.calls = work.calls
         /\ pc = "tools" => Current = snap /\ snap.calls \in Batches
<1>1. TypeInv /\ GoneInv /\ HeldInv /\ LocalInv /\ work \in Works
  BY DEF CoreInv, TypeInv
<1>2. "tools" \in Stages /\ pc \in Held /\ pc # "idle"
  BY Places DEF Stages
<1>3. snap \in Operations /\ snap.ctl = "running" /\ snap # NoOp /\ mem \in Operations
  BY <1>1, <1>2, Snapshot DEF Running
<1>4. snap.calls \in Batches
  BY <1>3 DEF Operations, Batches
<1>5. QED
  BY <1>1, <1>2, <1>3, <1>4, CurrentParts, WorkParts

LEMMA BatchPlace ==
  ASSUME NEW p \in Batch, NEW s, NEW w
  PROVE  /\ CurrentAt(p, s, w) = [s EXCEPT !.calls = w.calls]
         /\ p \in Held /\ OriginsOf(p) = {"tools"}
BY Places

LEMMA BatchNames ==
  /\ \A p \in {"sequence", "execute", "stage", "staged", "parallel", "pstaged", "pready", "results"} :
       p \in Batch /\ p \notin Requesting
  /\ \A p \in {"parallel", "pstaged", "pready"} : p \in Together
  /\ \A p \in {"sequence", "execute", "stage", "staged", "results"} : p \notin Together
BY DEF Batch, Sequential, Together, Requesting

LEMMA WorkMakes ==
  ASSUME NEW w \in Works
  PROVE  /\ \A calls \in Batches : /\ [w EXCEPT !.calls = calls] \in Works
                                   /\ [w EXCEPT !.calls = calls].calls = calls
                                   /\ [w EXCEPT !.calls = calls].call = w.call
                                   /\ [w EXCEPT !.calls = calls].todo = w.todo
         /\ \A n \in Nat : /\ [w EXCEPT !.call = n] \in Works /\ [w EXCEPT !.call = n].calls = w.calls
         /\ \A calls \in Batches, n \in Nat :
              /\ [w EXCEPT !.calls = calls, !.call = n] \in Works
              /\ [w EXCEPT !.calls = calls, !.call = n].calls = calls
         /\ \A todo, live \in SUBSET Calls :
              /\ [w EXCEPT !.todo = todo, !.live = live] \in Works
              /\ [w EXCEPT !.todo = todo, !.live = live].calls = w.calls
              /\ [w EXCEPT !.todo = todo, !.live = live].todo = todo
         /\ \A live \in SUBSET Calls, n \in Nat :
              /\ [w EXCEPT !.live = live, !.call = n] \in Works
              /\ [w EXCEPT !.live = live, !.call = n].calls = w.calls
              /\ [w EXCEPT !.live = live, !.call = n].todo = w.todo
              /\ [w EXCEPT !.live = live, !.call = n].call = n
BY DEF Works

LEMMA MarkedIs ==
  ASSUME work.calls \in Batches, NEW c \in Calls, NEW status \in {"pending", "ready"}
  PROVE  /\ Marked(c, status) \in Batches /\ Marked(c, status)[c] = status
         /\ \A d \in Calls : Marked(c, status)[d] = "planned" => work.calls[d] = "planned"
BY DEF Marked, Batches

LEMMA CallsMake ==
  ASSUME NEW s \in Operations, NEW calls \in Batches
  PROVE  /\ [s EXCEPT !.calls = calls] \in Operations /\ [s EXCEPT !.calls = calls].calls = calls
         /\ [s EXCEPT !.calls = calls].at = s.at /\ [s EXCEPT !.calls = calls].ctl = s.ctl
         /\ [s EXCEPT !.calls = calls].id = s.id
         /\ s.calls = calls => [s EXCEPT !.calls = calls] = s
BY DEF Operations, Batches

(* A batch that goes on with other marks. *)
LEMMA MarkMove ==
  ASSUME CoreInv, pc \in Batch \union {"tools"}, NEW calls \in Batches,
         Transition([snap EXCEPT !.calls = calls]), UNCHANGED <<Lane, sealed, ids, ghosts>>,
         UNCHANGED <<gate, snap>>, work' \in Works, work'.calls = calls, pc' \in Batch, LocalInv',
         \A c \in Calls : calls[c] = "planned" => Current.calls[c] = "planned",
         \/ pc = "sequence" /\ pc' = "execute" /\ Current.calls[work'.call] = "planned"
         \/ pc = "staged" /\ pc' = "sequence"
         \/ pc = "tools" /\ pc' = "parallel" /\ Current.calls = Planned
         \/ pc = "pready" /\ pc' = "parallel" /\ work'.todo = work.todo
  PROVE  DriveKinds
<1> DEFINE next == [snap EXCEPT !.calls = calls]
<1>1. next \in Operations /\ next.calls = calls /\ next.at = "tools" /\ next.ctl = "running"
      /\ next.id = snap.id
  BY BatchFacts, CallsMake
<1>2. next = CurrentAt(pc', snap, work') /\ snap.at \in OriginsOf(pc')
  BY BatchFacts, BatchPlace
<1>3. Transition(next)
  OBVIOUS
<1> HIDE DEF next
<1>4. /\ disk' \in Disks /\ disk'.op = next /\ mem' = next /\ disk'.result = disk.result
      /\ disk'.log = disk.log
  BY <1>1, <1>3, BatchFacts, TransitionWrites
<1>5. MarksCalls(next)
  BY <1>1, BatchFacts DEF MarksCalls
<1>6. Moves(next)
  BY <1>1, <1>2, <1>4, <1>5, BatchFacts, MoveIs
<1>7. QED
  BY <1>1, <1>6 DEF DriveKinds

(* A batch that goes on. *)
LEMMA BatchGo ==
  ASSUME CoreInv, pc \in Batch, Quiet, UNCHANGED snap, work'.calls = work.calls, pc' \in Batch, LocalInv',
         pc' # "execute", pc' \in Together => pc \in Together /\ work'.todo \subseteq work.todo
  PROVE  DriveKinds
<1>1. Holds(Current)
  BY BatchFacts, BatchPlace DEF Holds
<1>2. Goes
  BY <1>1, BatchFacts DEF Goes, Batch, Sequential, Together
<1>3. QED
  BY <1>2 DEF DriveKinds

LEMMA SequentialKinds ==
  ASSUME CoreInv
  PROVE  /\ ToolsStart => DriveKinds
         /\ ToolMark => DriveKinds
         /\ ToolRecover => DriveKinds
         /\ ToolExecute => DriveKinds
         /\ ToolStage => DriveKinds
         /\ ToolReady => DriveKinds
         /\ SequenceDone => DriveKinds
<1>1. ASSUME ToolsStart PROVE DriveKinds
  <2>1. pc = "tools" /\ UNCHANGED <<Lane, sealed, ids, ghosts>>
    BY <1>1 DEF ToolsStart, Active
  <2> DEFINE pending == [c \in Calls |-> "pending"]
  <2>2. CASE /\ MayRunTogether /\ Transition([snap EXCEPT !.calls = pending])
             /\ Work("parallel", [NoWork EXCEPT !.calls = pending, !.todo = Calls])
    <3>1. pending \in Batches /\ \A c \in Calls : pending[c] # "planned"
      BY DEF Batches
    <3>2. Current.calls = Planned
      BY <2>1, <2>2, BatchFacts DEF MayRunTogether
    <3> HIDE DEF pending
    <3>3. /\ work' \in Works /\ work'.calls = pending /\ pc' = "parallel" /\ UNCHANGED <<gate, snap>>
          /\ pc' \in Batch
      BY <2>2, <3>1, NoWorkMakes, BatchNames DEF Work, Go
    <3>4. LocalInv'
      BY <3>1, <3>3, BatchNames DEF LocalInv
    <3>5. QED
      BY <2>1, <2>2, <3>1, <3>2, <3>3, <3>4, MarkMove
  <2>3. CASE Work("sequence", [NoWork EXCEPT !.calls = snap.calls]) /\ UNCHANGED <<disk, mem>>
    <3>1. snap.calls \in Batches /\ snap \in Operations /\ Current = snap /\ TypeInv
          /\ pc \in Held /\ snap.at = "tools" /\ snap.ctl = "running"
      BY <2>1, BatchFacts
    <3>2. /\ work' \in Works /\ work'.calls = snap.calls /\ pc' = "sequence" /\ UNCHANGED <<gate, snap>>
          /\ pc' \in Batch
      BY <2>3, <3>1, NoWorkMakes, BatchNames DEF Work, Go
    <3>3. Quiet
      BY <2>1, <2>3, <3>1, <3>2, QuietGo
    <3>4. Holds(Current)
      BY <3>1, <3>2, BatchPlace, CallsMake DEF Holds
    <3>5. LocalInv'
      BY <3>2, FreeLocals DEF Free
    <3>6. QED
      BY <3>1, <3>2, <3>3, <3>4, <3>5, GoIs, BatchNames
  <2>4. QED
    BY <1>1, <2>2, <2>3 DEF ToolsStart
<1>2. ASSUME ToolMark PROVE DriveKinds
  <2> DEFINE calls == Marked(work.call, "pending")
  <2>1. /\ pc = "sequence" /\ pc \in Batch /\ work.call \in Calls /\ work.calls[work.call] = "planned"
        /\ UNCHANGED <<Lane, sealed, ids, ghosts>> /\ Transition([snap EXCEPT !.calls = calls])
        /\ Work("execute", [work EXCEPT !.calls = calls])
    BY <1>2, BatchNames DEF ToolMark, Active, Fresh
  <2>2. /\ calls \in Batches /\ calls[work.call] = "pending"
        /\ \A c \in Calls : calls[c] = "planned" => work.calls[c] = "planned"
    BY <2>1, MarkedIs, BatchFacts
  <2> HIDE DEF calls
  <2>3. /\ work' \in Works /\ work'.calls = calls /\ work'.call = work.call /\ pc' = "execute"
        /\ UNCHANGED <<gate, snap>> /\ pc' \in Batch
    <3>1. work' = [work EXCEPT !.calls = calls] /\ work \in Works
      BY <2>1, BatchFacts DEF Work
    <3>2. work' \in Works /\ work'.calls = calls /\ work'.call = work.call
      BY <2>2, <3>1 DEF Works
    <3>3. QED
      BY <2>1, <3>2, BatchNames DEF Work, Go
  <2>4. LocalInv'
    BY <2>1, <2>2, <2>3, BatchNames DEF LocalInv
  <2>5. QED
    BY <2>1, <2>2, <2>3, <2>4, BatchFacts, MarkMove
<1>3. ASSUME ToolRecover PROVE DriveKinds
  <2>1. pc = "sequence" /\ pc \in Batch
    BY <1>3, BatchNames DEF ToolRecover, Active
  <2>2. CASE /\ Work("sequence", [work EXCEPT !.call = @ + 1])
             /\ UNCHANGED <<Lane, disk, mem, sealed, ids, ghosts>>
    <3>1. work.call + 1 \in Nat
      BY <2>1, BatchFacts
    <3>2. /\ work' \in Works /\ work'.calls = work.calls /\ pc' = "sequence" /\ UNCHANGED <<gate, snap>>
          /\ pc' \in Batch
      BY <2>1, <2>2, <3>1, BatchFacts, WorkMakes, BatchNames DEF Work, Go
    <3>3. Quiet
      BY <2>1, <2>2, <3>2, BatchFacts, QuietGo
    <3>4. LocalInv'
      BY <3>2, FreeLocals DEF Free
    <3>5. QED
      BY <2>1, <3>2, <3>3, <3>4, BatchGo, BatchNames
  <2>3. CASE Settle(snap, "failed")
    <3>1. "failed" \in Statuses
      BY DEF Statuses
    <3>2. QED
      BY <2>1, <2>3, <3>1, SettleEnds, BatchFacts DEF DriveKinds
  <2>4. QED
    BY <1>3, <2>2, <2>3 DEF ToolRecover
<1>4. ASSUME ToolExecute PROVE DriveKinds
  <2>1. /\ pc = "execute" /\ pc \in Batch /\ pc' = "stage" /\ pc' \in Batch /\ Runs(work.call)
        /\ UNCHANGED <<Lane, disk, mem, work, sealed, ids, sent, resent, rejected, cut, gate, snap>>
    BY <1>4, BatchNames DEF ToolExecute, Active, Go
  <2>2. work.call \in Calls /\ work \in Works /\ TypeInv
    BY <2>1, BatchFacts DEF LocalInv
  <2>3. Step /\ Kept
    BY <2>1, <2>2, DiskParts DEF Step, Kept, TypeInv, Lane
  <2>4. CASE gate
    <3>1. Quiet
      BY <2>1, <2>3, <2>4 DEF Quiet, Uneffected, Runs
    <3>2. LocalInv'
      BY <2>1, <2>2, BatchNames DEF LocalInv
    <3>3. QED
      BY <2>1, <3>1, <3>2, BatchGo, BatchNames
  <2>5. CASE ~gate
    <3>1. /\ ran' = ran \union {<<snap.id, work.call>>}
          /\ reran' = (reran \/ <<snap.id, work.call>> \in ran)
      BY <2>1, <2>5, Zenon DEF Runs
    <3>2. reran' => reran \/ <<snap.id, work.call>> \in ran
      BY ONLY <3>1
    <3>3. Executes(work.call)
      BY <2>1, <2>2, <2>3, <3>1, <3>2 DEF Executes
    <3>4. QED
      BY <2>2, <3>3 DEF DriveKinds
  <2>6. QED
    BY <2>4, <2>5
<1>5. ASSUME ToolStage PROVE DriveKinds
  <2>1. /\ pc = "stage" /\ pc \in Batch /\ pc' = "staged" /\ pc' \in Batch
        /\ disk' = [disk EXCEPT !.staged = @ \union {work.call}]
        /\ UNCHANGED <<Lane, mem, work, sealed, ids, ghosts, gate, snap>>
    BY <1>5, BatchNames DEF ToolStage, Active, Go, Stage
  <2>2. work.call \in Calls /\ work \in Works /\ TypeInv
    BY <2>1, BatchFacts DEF LocalInv
  <2>3. disk' \in Disks /\ disk'.op = disk.op /\ disk'.result = disk.result /\ disk'.log = disk.log
    BY <2>1, <2>2, DiskParts DEF Disks
  <2>4. Quiet
    BY <2>1, <2>2, <2>3 DEF Quiet, Step, Kept, Uneffected, TypeInv, Lane, ghosts
  <2>5. LocalInv'
    BY <2>1, <2>2, BatchNames DEF LocalInv
  <2>6. QED
    BY <2>1, <2>4, <2>5, BatchGo, BatchNames
<1>6. ASSUME ToolReady PROVE DriveKinds
  <2> DEFINE calls == Marked(work.call, "ready")
  <2>1. /\ pc = "staged" /\ pc \in Batch /\ UNCHANGED <<Lane, sealed, ids, ghosts>>
        /\ Transition([snap EXCEPT !.calls = calls])
        /\ Work("sequence", [work EXCEPT !.calls = calls, !.call = @ + 1])
    BY <1>6, BatchNames DEF ToolReady, Active
  <2>2. work.call \in Calls /\ work.call + 1 \in Nat
    BY <2>1, BatchFacts DEF LocalInv
  <2>3. /\ calls \in Batches
        /\ \A c \in Calls : calls[c] = "planned" => work.calls[c] = "planned"
    BY <2>1, <2>2, MarkedIs, BatchFacts
  <2> HIDE DEF calls
  <2>4. /\ work' \in Works /\ work'.calls = calls /\ pc' = "sequence"
        /\ UNCHANGED <<gate, snap>> /\ pc' \in Batch
    <3>1. work' = [work EXCEPT !.calls = calls, !.call = work.call + 1] /\ work \in Works
      BY <2>1, BatchFacts DEF Work
    <3>2. work' \in Works /\ work'.calls = calls
      BY <2>2, <2>3, <3>1 DEF Works
    <3>3. QED
      BY <2>1, <3>2, BatchNames DEF Work, Go
  <2>5. LocalInv'
    BY <2>4, FreeLocals DEF Free
  <2>6. QED
    BY <2>1, <2>3, <2>4, <2>5, BatchFacts, MarkMove
<1>7. ASSUME SequenceDone PROVE DriveKinds
  <2>1. /\ pc = "sequence" /\ pc \in Batch /\ pc' = "results" /\ pc' \in Batch
        /\ UNCHANGED <<Lane, disk, mem, work, sealed, ids, ghosts, gate, snap>>
    BY <1>7, BatchNames DEF SequenceDone, Active, Go
  <2>2. Quiet
    BY <2>1, BatchFacts, QuietGo
  <2>3. LocalInv'
    BY <2>1, FreeLocals DEF Free
  <2>4. QED
    BY <2>1, <2>2, <2>3, BatchGo, BatchNames
<1>8. QED
  BY <1>1, <1>2, <1>3, <1>4, <1>5, <1>6, <1>7

LEMMA ParallelKinds ==
  ASSUME CoreInv
  PROVE  /\ \A c \in Calls : ParallelExecute(c) => DriveKinds
         /\ \A c \in Calls : ParallelResult(c) => DriveKinds
         /\ ParallelReread => DriveKinds
         /\ ParallelReady => DriveKinds
         /\ ParallelDone => DriveKinds
<1>1. ASSUME NEW c \in Calls, ParallelExecute(c) PROVE DriveKinds
  <2>1. /\ pc = "parallel" /\ pc \in Batch /\ pc' = "parallel" /\ pc' \in Batch /\ Runs(c)
        /\ c \in work.todo
        /\ work' = [work EXCEPT !.todo = work.todo \ {c}, !.live = work.live \union {c}]
        /\ UNCHANGED <<Lane, disk, mem, sealed, ids, sent, resent, rejected, cut, gate, snap>>
    BY <1>1, BatchNames DEF ParallelExecute, Active, Work, Go
  <2>2. /\ work \in Works /\ TypeInv /\ work.todo \ {c} \subseteq Calls /\ work.live \union {c} \subseteq Calls
        /\ \A d \in Calls : work.calls[d] # "planned"
    BY <2>1, BatchFacts, BatchNames DEF LocalInv
  <2>3. work' \in Works /\ work'.calls = work.calls /\ work'.todo = work.todo \ {c}
    BY <2>1, <2>2 DEF Works
  <2>4. Step /\ Kept
    BY <2>1, <2>2, <2>3, DiskParts DEF Step, Kept, TypeInv, Lane
  <2>5. CASE gate
    <3>1. Quiet
      BY <2>1, <2>4, <2>5 DEF Quiet, Uneffected, Runs
    <3>2. LocalInv'
      BY <2>1, <2>2, <2>3, BatchNames DEF LocalInv
    <3>3. QED
      BY <2>1, <2>3, <3>1, <3>2, BatchGo, BatchNames
  <2>6. CASE ~gate
    <3>1. ran' = ran \union {<<snap.id, c>>} /\ reran' = (reran \/ <<snap.id, c>> \in ran)
      BY <2>1, <2>6, Zenon DEF Runs
    <3>2. reran' => reran \/ <<snap.id, c>> \in ran
      BY ONLY <3>1
    <3>3. Executes(c)
      BY <2>1, <2>3, <2>4, <3>1, <3>2 DEF Executes
    <3>4. QED
      BY <3>3 DEF DriveKinds
  <2>7. QED
    BY <2>5, <2>6
<1>2. ASSUME NEW c \in Calls, ParallelResult(c) PROVE DriveKinds
  <2>1. /\ pc = "parallel" /\ pc \in Batch /\ UNCHANGED <<Lane, mem, sealed, ids, ghosts>>
        /\ TypeInv /\ snap # NoOp /\ snap.at = "tools" /\ work \in Works /\ work.live \ {c} \subseteq Calls
        /\ \A d \in Calls : work.calls[d] # "planned"
    BY <1>2, BatchNames, BatchFacts DEF ParallelResult, Active, LocalInv
  <2>2. CASE CancelSeen /\ Work("reconcile", NoWork) /\ UNCHANGED disk
    <3>1. Quiet
      BY <2>1, <2>2, QuietGo, NoWorkMakes DEF Work, Go
    <3>2. QED
      BY <2>1, <2>2, <3>1, ReconcileGo DEF Work, Go, CancelSeen
  <2>3. CASE Stage(c) /\ Work("pstaged", [work EXCEPT !.live = @ \ {c}, !.call = c])
    <3>1. /\ pc' = "pstaged" /\ pc' \in Batch /\ UNCHANGED <<gate, snap>>
          /\ work' = [work EXCEPT !.live = work.live \ {c}, !.call = c]
          /\ disk' = [disk EXCEPT !.staged = @ \union {c}]
      BY <2>3, BatchNames DEF Work, Go, Stage
    <3>2. c \in Nat
      BY Bounds DEF Calls
    <3>3. work' \in Works /\ work'.calls = work.calls /\ work'.call = c /\ work'.todo = work.todo
      BY <2>1, <3>1, <3>2 DEF Works
    <3>4. disk' \in Disks /\ disk'.op = disk.op /\ disk'.result = disk.result /\ disk'.log = disk.log
      BY <2>1, <3>1, DiskParts DEF Disks
    <3>5. Quiet
      BY <2>1, <3>1, <3>3, <3>4 DEF Quiet, Step, Kept, Uneffected, TypeInv, Lane, ghosts
    <3>6. LocalInv'
      BY <2>1, <3>1, <3>3, BatchNames DEF LocalInv
    <3>7. QED
      BY <2>1, <3>1, <3>3, <3>5, <3>6, BatchGo, BatchNames
  <2>4. QED
    BY <1>2, <2>2, <2>3 DEF ParallelResult
<1>3. ASSUME ParallelReread PROVE DriveKinds
  <2>1. /\ pc = "pstaged" /\ pc \in Batch /\ UNCHANGED <<Lane, disk, mem, gate, opts, work, sealed, ids, ghosts>>
        /\ TypeInv /\ work \in Works /\ work.call \in Calls /\ mem \in Operations
        /\ \A d \in Calls : work.calls[d] # "planned"
        /\ pc' = (IF mem.ctl = "cancel" THEN "reconcile" ELSE "pready")
        /\ snap' = (IF mem.ctl = "cancel" THEN mem ELSE snap)
    BY <1>3, BatchNames, BatchFacts DEF ParallelReread, Active, LocalInv
  <2>2. Quiet
    BY <2>1, QuietIs DEF Lane, TypeInv
  <2>3. CASE mem.ctl = "cancel"
    <3>1. Reconciles
      BY <2>1, <2>2, <2>3, OpMakes, ReconcileIs DEF TypeInv
    <3>2. QED
      BY <3>1 DEF DriveKinds
  <2>4. CASE mem.ctl # "cancel"
    <3>1. LocalInv'
      BY <2>1, <2>4, BatchNames DEF LocalInv
    <3>2. QED
      BY <2>1, <2>2, <2>4, <3>1, BatchGo, BatchNames
  <2>5. QED
    BY <2>3, <2>4
<1>4. ASSUME ParallelReady PROVE DriveKinds
  <2> DEFINE calls == Marked(work.call, "ready")
  <2>1. /\ pc = "pready" /\ pc \in Batch /\ UNCHANGED <<Lane, sealed, ids, ghosts>>
        /\ Transition([snap EXCEPT !.calls = calls])
        /\ Work("parallel", [work EXCEPT !.calls = calls])
    BY <1>4, BatchNames DEF ParallelReady, Active
  <2>2. work.call \in Calls /\ \A d \in Calls : work.calls[d] # "planned"
    BY <2>1, BatchFacts, BatchNames DEF LocalInv
  <2>3. /\ calls \in Batches
        /\ \A c \in Calls : calls[c] = "planned" => work.calls[c] = "planned"
    BY <2>1, <2>2, MarkedIs, BatchFacts
  <2> HIDE DEF calls
  <2>4. /\ work' \in Works /\ work'.calls = calls /\ work'.todo = work.todo /\ pc' = "parallel"
        /\ UNCHANGED <<gate, snap>> /\ pc' \in Batch
    <3>1. work' = [work EXCEPT !.calls = calls] /\ work \in Works
      BY <2>1, BatchFacts DEF Work
    <3>2. work' \in Works /\ work'.calls = calls /\ work'.todo = work.todo
      BY <2>3, <3>1 DEF Works
    <3>3. QED
      BY <2>1, <3>2, BatchNames DEF Work, Go
  <2>5. LocalInv'
    BY <2>2, <2>3, <2>4, BatchNames DEF LocalInv
  <2>6. QED
    BY <2>1, <2>3, <2>4, <2>5, BatchFacts, MarkMove
<1>5. ASSUME ParallelDone PROVE DriveKinds
  <2>1. /\ pc = "parallel" /\ pc \in Batch /\ UNCHANGED <<Lane, disk, mem, gate, opts, work, sealed, ids, ghosts>>
        /\ TypeInv /\ work \in Works /\ mem \in Operations /\ snap' = mem /\ Current.calls = work.calls
        /\ pc \in Held /\ Current.at = "tools"
        /\ pc' = (IF CancelSeen THEN "reconcile" ELSE "results")
    BY <1>5, BatchNames, BatchFacts DEF ParallelDone, Active
  <2>2. Quiet
    BY <2>1, OpMakes, QuietIs DEF Lane, TypeInv
  <2>3. mem.ctl \in {"running", "cancel"} /\ (mem.ctl = "running" => mem = Current)
    <3>1. mem.ctl \in {"running", "cancel"}
      BY <2>1 DEF Operations
    <3>2. mem.ctl = "running" => mem = Current
      BY <2>1 DEF HeldInv, Running, CoreInv
    <3>3. QED
      BY <3>1, <3>2
  <2>4. CASE CancelSeen
    <3>1. Reconciles
      BY <2>1, <2>2, <2>3, <2>4, OpMakes, ReconcileIs DEF TypeInv, CancelSeen
    <3>2. QED
      BY <3>1 DEF DriveKinds
  <2>5. CASE ~CancelSeen
    <3>1. mem = Current /\ mem.ctl = "running" /\ pc' = "results" /\ pc' \in Batch
      BY <2>1, <2>3, <2>5, BatchNames DEF CancelSeen
    <3>2. Holds(Current)
      <4>1. work'.calls = mem.calls /\ mem.calls \in Batches
        BY <2>1, <3>1 DEF Operations, Batches
      <4>2. QED
        BY <2>1, <3>1, <4>1, BatchPlace, CallsMake DEF Holds
    <3>3. LocalInv'
      BY <3>1, FreeLocals DEF Free
    <3>4. QED
      BY <2>1, <2>2, <3>1, <3>2, <3>3, GoIs, BatchNames
  <2>6. QED
    BY <2>4, <2>5
<1>6. QED
  BY <1>1, <1>2, <1>3, <1>4, <1>5


(* Commits of an entry. *)
LEMMA NotDuplicate ==
  ASSUME NEW e, ~Duplicate(e)
  PROVE  /\ e.kind # "results" => ~InLog(e.id)
         /\ e.kind = "results" => ~HasResults(e.id)
BY DEF Duplicate, Place, InLog, HasResults, Logged, Collected

LEMMA Entries ==
  ASSUME NEW id \in 0..MaxIds, NEW kind \in Kinds
  PROVE  Entry(id, kind) \in LogEntries /\ Entry(id, kind).id = id /\ Entry(id, kind).kind = kind
BY DEF Entry, LogEntries

LEMMA Appended ==
  ASSUME TypeInv, NEW e \in LogEntries
  PROVE  Append(disk.log, e) \in Seq(LogEntries)
<1>1. disk.log \in Seq(LogEntries)
  BY DiskParts
<1>2. QED
  BY <1>1

LEMMA CommitIs ==
  ASSUME TypeInv, pc # "idle", NEW e \in LogEntries, NEW next \in Operations, NEW frames, NEW staged,
         frames \subseteq 1..MaxIds, staged \subseteq Calls,
         disk' = [disk EXCEPT !.log = Append(disk.log, e), !.op = next, !.frames = frames,
                              !.staged = staged],
         mem' = next, UNCHANGED <<gate, snap>>, work' \in Works, UNCHANGED <<Lane, sealed, ids, ghosts>>,
         Responds(e, next) \/ Interrupts(e, next) \/ Collects(e, next) \/ Compacts(e, next)
  PROVE  DriveKinds
<1>1. next \in States /\ Append(disk.log, e) \in Seq(LogEntries)
  BY Appended DEF States
<1>2. /\ disk' \in Disks /\ disk'.op = next /\ disk'.result = disk.result
      /\ disk'.log = Append(disk.log, e)
  BY <1>1, DiskParts DEF Disks
<1>3. Step /\ Uneffected
  BY DEF Step, Uneffected, TypeInv, Lane, ghosts
<1>4. Writes(next) /\ Appends(e)
  BY <1>2, <1>3 DEF Writes, Appends
<1>5. Commits(e, next)
  BY <1>4 DEF Commits
<1>6. QED
  BY <1>5 DEF DriveKinds

LEMMA ResponseKinds ==
  ASSUME CoreInv
  PROVE  /\ CommitAssistant => DriveKinds
         /\ RecoverAssistantEffect => DriveKinds
<1>1. ASSUME CommitAssistant PROVE DriveKinds
  <2> DEFINE e == Entry(work.id, work.out)
             next == work.next
  <2>1. /\ pc = "commit" /\ pc \in Held /\ pc \in Requesting /\ work \in Works /\ work.out \in Responses
        /\ Current \in Operations /\ Current.ctl = "running" /\ next = AfterResponse(Current, work.out)
        /\ TypeInv
    BY <1>1, Places, CurrentParts DEF CommitAssistant, Active, CoreInv, LocalInv, TypeInv, Requesting, Running
  <2>2. /\ next \in Operations /\ (next.at = "finish" => work.out \in {"stop", "error", "length"})
    BY <2>1, ResponseLeads
  <2>3. e \in LogEntries /\ e.id = work.id /\ e.kind = work.out /\ e.kind # "results"
    <3>1. work.id \in 0..MaxIds /\ work.out \in Kinds /\ work.out # "results"
      BY <2>1, WorkParts DEF Kinds, Responses
    <3>2. QED
      BY <3>1, Entries
  <2>4. Offered = e /\ ~Duplicate(e)
    BY <1>1, <2>1 DEF CommitAssistant, Offered
  <2> HIDE DEF e
  <2>5. ~InLog(e.id)
    BY <2>3, <2>4, NotDuplicate
  <2>6. /\ disk' = [disk EXCEPT !.log = Append(disk.log, e), !.op = next,
                                !.frames = disk.frames \ {e.id}]
        /\ mem' = next /\ UNCHANGED <<Lane, sealed, ids, ghosts>>
    BY <1>1, <2>4 DEF CommitAssistant, CommitResponse
  <2>7. /\ UNCHANGED <<gate, snap>> /\ work' \in Works
        /\ \/ pc' = "settle" /\ work'.out = "failed"
           \/ pc' \in {"continue", "scheduled"} /\ (next.at = "finish" => work.out = "stop")
    <3>1. "failed" \in Outcomes
      BY DEF Outcomes, Statuses
    <3>2. CASE FailsRun
      <4>0. work.next.at # "retry"
        BY <3>2 DEF FailsRun
      <4>1. Work("settle", [NoWork EXCEPT !.out = "failed"])
        BY <1>1, <3>2, <4>0 DEF CommitAssistant
      <4>2. QED
        BY <3>1, <4>1, NoWorkMakes DEF Work, Go
    <3>3. CASE ~FailsRun /\ next.at = "retry"
      <4>1. Work("scheduled", NoWork)
        BY <1>1, <3>3 DEF CommitAssistant
      <4>2. QED
        BY <3>3, <4>1, NoWorkMakes DEF Work, Go
    <3>4. CASE ~FailsRun /\ next.at # "retry"
      <4>1. Work("continue", NoWork)
        BY <1>1, <3>4 DEF CommitAssistant
      <4>2. next.at = "finish" => work.out = "stop"
        BY <2>2, <3>4 DEF FailsRun
      <4>3. QED
        BY <4>1, <4>2, NoWorkMakes DEF Work, Go
    <3>5. QED
      BY <3>2, <3>3, <3>4
  <2>8. Responds(e, next)
    BY <2>1, <2>5, <2>7 DEF Responds, e
  <2>9. disk' = [disk EXCEPT !.log = Append(disk.log, e), !.op = next, !.frames = disk.frames \ {e.id},
                             !.staged = disk.staged]
    BY <2>1, <2>6, DiskParts DEF Disks
  <2>10. disk.frames \ {e.id} \subseteq 1..MaxIds /\ disk.staged \subseteq Calls
    BY <2>1, DiskParts
  <2>11. QED
    BY <2>1, <2>2, <2>3, <2>6, <2>7, <2>8, <2>9, <2>10, CommitIs
<1>2. ASSUME RecoverAssistantEffect PROVE DriveKinds
  <2> DEFINE e == Entry(snap.id, "interrupted")
             next == Leaf("finish", snap)
  <2>1. pc \in {"recover", "effect"} /\ snap \in Operations /\ TypeInv
    <3>1. CASE pc = "recover"
      BY <3>1, OpParts DEF CoreInv, HeldInv, TypeInv
    <3>2. CASE pc = "effect"
      BY <3>2, Places, Snapshot DEF CoreInv, Stages
    <3>3. QED
      BY <1>2, <3>1, <3>2 DEF RecoverAssistantEffect, Active
  <2>2. next \in Operations
    BY <2>1, LeafIs DEF Stages
  <2>3. e \in LogEntries /\ e.id = snap.id
    <3>1. snap.id \in 0..MaxIds /\ "interrupted" \in Kinds
      BY <2>1 DEF Kinds, Operations
    <3>2. QED
      BY <3>1, Entries
  <2>4. Offered = e
    BY <2>1 DEF Offered
  <2>5. /\ disk' = [disk EXCEPT !.log = Append(disk.log, e), !.op = next,
                                !.frames = disk.frames \ {e.id}]
        /\ mem' = next /\ UNCHANGED <<Lane, sealed, ids, ghosts>>
        /\ Work("settle", [NoWork EXCEPT !.out = "aborted"])
    BY <1>2, <2>4 DEF RecoverAssistantEffect, CommitResponse
  <2>6. "aborted" \in Outcomes
    BY DEF Outcomes, Statuses
  <2>7. UNCHANGED <<gate, snap>> /\ work' \in Works /\ pc' = "settle" /\ work'.out = "aborted"
    BY <2>5, <2>6, NoWorkMakes DEF Work, Go
  <2>8. Interrupts(e, next)
    BY <2>1, <2>7 DEF Interrupts
  <2> HIDE DEF e, next
  <2>9. disk' = [disk EXCEPT !.log = Append(disk.log, e), !.op = next, !.frames = disk.frames \ {e.id},
                             !.staged = disk.staged]
    BY <2>1, <2>5, DiskParts DEF Disks
  <2>10. disk.frames \ {e.id} \subseteq 1..MaxIds /\ disk.staged \subseteq Calls
    BY <2>1, DiskParts
  <2>11. QED
    BY <2>1, <2>2, <2>3, <2>5, <2>7, <2>8, <2>9, <2>10, CommitIs
<1>3. QED
  BY <1>1, <1>2

LEMMA ResultKinds ==
  ASSUME CoreInv
  PROVE  /\ CommitToolResults => DriveKinds
         /\ CommitRejected => DriveKinds
<1>1. ASSUME CommitToolResults PROVE DriveKinds
  <2> DEFINE e == Entry(snap.id, "results")
  <2>1. /\ pc = "results" /\ snap \in Operations /\ snap.ctl = "running" /\ TypeInv
        /\ Work("continue", NoWork) /\ UNCHANGED <<Lane, sealed, ids, ghosts>>
    BY <1>1, BatchNames, BatchFacts DEF CommitToolResults, Active
  <2>2. e \in LogEntries /\ e.id = snap.id /\ e.kind = "results"
    <3>1. snap.id \in 0..MaxIds /\ "results" \in Kinds
      BY <2>1 DEF Kinds, Operations
    <3>2. QED
      BY <3>1, Entries
  <2>3. Offered = e /\ ~HasResults(e.id)
    BY <1>1, <2>1, <2>2, NotDuplicate DEF Offered, CommitToolResults
  <2>4. PICK next \in {Leaf("finish", snap), Need(snap, "no")} :
          /\ disk' = [disk EXCEPT !.log = Append(disk.log, e), !.op = next, !.staged = {}]
          /\ mem' = next
    BY <1>1, <2>3 DEF CommitToolResults
  <2>5. next \in Operations /\ next.at \in {"finish", "need"} /\ next.ctl = "running"
    BY <2>1, NextStage DEF Stages, Overflow
  <2>6. Collects(e, next)
    BY <2>1, <2>3, <2>5 DEF Collects, Running, Work, Go
  <2> HIDE DEF e
  <2>7. disk' = [disk EXCEPT !.log = Append(disk.log, e), !.op = next, !.frames = disk.frames,
                             !.staged = {}]
    BY <2>1, <2>4, DiskParts DEF Disks
  <2>8. QED
    BY <2>1, <2>2, <2>4, <2>5, <2>6, <2>7, CommitIs, DiskParts, NoWorkMakes DEF Work, Go
<1>2. ASSUME CommitRejected PROVE DriveKinds
  <2>1. pc \notin {"idle", "sapply", "settle"} /\ pc' = "idle" /\ UNCHANGED <<gate, snap>> /\ work' = NoWork
        /\ UNCHANGED <<Lane, disk, mem, ids, ghosts>>
    BY <1>2 DEF CommitRejected, Committing, Fault, Leave
  <2>2. Quiet
    BY <2>1, QuietIs, NoWorkMakes DEF Lane, TypeInv, CoreInv
  <2>3. QED
    BY <2>1, <2>2, StopIs
<1>3. QED
  BY <1>1, <1>2

(* Summaries and navigation. *)
LEMMA SummaryNames ==
  /\ \A p \in {"deciding", "sready", "seffect", "navready"} : p \in Stages /\ p \in Held
  /\ \A p \in {"summary", "sfailed", "scommit"} : p \in Summarising /\ p \in Held /\ p \notin Together
  /\ \A p \in Summarising : p \notin Stages
BY Places DEF Stages, Summarising, Together

LEMMA SummaryKinds ==
  ASSUME CoreInv
  PROVE  /\ StartSummary => DriveKinds
         /\ SummaryRequest => DriveKinds
         /\ SummaryAnswer => DriveKinds
         /\ SummaryFailure => DriveKinds
         /\ Navigation => DriveKinds
<1> USE DEF CoreInv
<1>0. "failed" \in Statuses /\ "completed" \in Statuses
  BY DEF Statuses
<1>1. ASSUME StartSummary PROVE DriveKinds
  <2>1. /\ pc = "deciding" /\ pc \in Held /\ snap \in Operations /\ snap.ctl = "running" /\ Current = snap
        /\ snap.at = "deciding"
    BY <1>1, SummaryNames, CurrentParts, Snapshot DEF StartSummary, Active, Running
  <2>2. CASE Settle(snap, "failed")
    BY <1>0, <2>1, <2>2, SettleEnds DEF DriveKinds
  <2>3. CASE /\ Room /\ ids' = ids + 1 /\ Transition([snap EXCEPT !.at = "sready", !.att = 1, !.id = ids + 1])
             /\ Work("continue", NoWork) /\ UNCHANGED <<Lane, sealed, ghosts>>
    <3> DEFINE next == [snap EXCEPT !.at = "sready", !.att = 1, !.id = ids + 1]
    <3>1. ids + 1 \in 0..MaxIds /\ 1 \in 0..MaxAttempts
      BY <2>3, Bounds DEF Room, TypeInv
    <3>2. next \in Operations /\ next.at = "sready" /\ next.id = ids + 1 /\ next.ctl = "running"
      BY <2>1, <3>1 DEF Operations, Stages
    <3>3. Transition(next)
      BY <2>3
    <3> HIDE DEF next
    <3>4. Reserves(next)
      BY <2>1, <2>3, <3>1, <3>2 DEF Reserves, Work, Go
    <3>5. QED
      BY <2>1, <2>3, <3>2, <3>3, <3>4, TransitionWrites, ContinueMove
  <2>4. QED
    BY <1>1, <2>2, <2>3 DEF StartSummary
<1>2. ASSUME SummaryRequest PROVE DriveKinds
  <2>1. /\ pc \in {"sready", "seffect"} /\ pc \in Held /\ pc # "idle" /\ snap \in Operations /\ snap.ctl = "running"
        /\ Current = snap /\ snap.at = pc /\ UNCHANGED <<Lane, sealed, ids, ghosts>>
        /\ Work("summary", NoWork)
    BY <1>2, SummaryNames, CurrentParts, Snapshot DEF SummaryRequest, Active, Running
  <2>2. /\ pc' = "summary" /\ UNCHANGED <<gate, snap>> /\ work' \in Works
        /\ pc' \in Held /\ OriginsOf(pc') = {"sready", "seffect"}
        /\ CurrentAt(pc', snap, work') = [snap EXCEPT !.at = "seffect"]
    <3>1. pc' = "summary" /\ UNCHANGED <<gate, snap>> /\ work' \in Works
      BY <2>1, NoWorkMakes DEF Work, Go
    <3>2. QED
      BY <3>1, Places, SummaryNames
  <2>3. LocalInv'
    BY <2>2, FreeLocals DEF Free, Summarising
  <2>4. CASE snap.at = "sready"
    <3> DEFINE next == [snap EXCEPT !.at = "seffect"]
    <3>1. next \in Operations /\ next.at = "seffect" /\ next.id = snap.id /\ next.ctl = "running"
      BY <2>1 DEF Operations, Stages
    <3>2. Transition(next)
      BY <1>2, <2>4 DEF SummaryRequest
    <3> HIDE DEF next
    <3>3. next = CurrentAt(pc', snap, work')
      BY <2>2 DEF next
    <3>4. Resumes(next)
      BY <2>1, <2>2, <2>4, <3>1 DEF Resumes
    <3>5. Moves(next)
      BY <2>1, <2>2, <2>3, <3>1, <3>2, <3>3, <3>4, TransitionWrites, MoveIs
    <3>6. QED
      BY <3>1, <3>5 DEF DriveKinds
  <2>5. CASE snap.at = "seffect"
    <3>1. UNCHANGED <<disk, mem>>
      BY <1>2, <2>5 DEF SummaryRequest
    <3>2. [snap EXCEPT !.at = "seffect"] = snap
      BY <2>1, <2>5 DEF Operations
    <3>3. Holds(Current)
      BY <2>1, <2>2, <3>2 DEF Holds
    <3>4. Quiet
      BY <2>1, <2>2, <3>1, QuietGo
    <3>5. QED
      BY <2>1, <2>2, <2>3, <3>3, <3>4, GoIs, SummaryNames
  <2>6. QED
    BY <2>1, <2>4, <2>5
<1>3. ASSUME SummaryAnswer PROVE DriveKinds
  <2>1. /\ pc = "summary" /\ pc \in Held /\ snap \in Operations /\ snap.ctl = "running"
        /\ Current = [snap EXCEPT !.at = "seffect"] /\ snap.at \in {"sready", "seffect"}
        /\ UNCHANGED <<Lane, disk, mem, sealed, ids, ghosts>>
    BY <1>3, SummaryNames, CurrentParts, Snapshot DEF SummaryAnswer, Active, Running
  <2>2. /\ pc' \in {"sfailed", "scommit"} /\ UNCHANGED <<gate, snap>> /\ work' = NoWork
    BY <1>3 DEF SummaryAnswer, Work, Go
  <2>3. Holds(Current)
    <3>1. pc' \in Summarising
      BY <2>2, SummaryNames
    <3>2. /\ pc' \in Held /\ OriginsOf(pc') = {"sready", "seffect"}
          /\ CurrentAt(pc', snap', work') = [snap' EXCEPT !.at = "seffect"]
      BY <3>1, Places
    <3>3. QED
      BY <2>1, <2>2, <3>2 DEF Holds
  <2>4. LocalInv'
    BY <2>2, FreeLocals DEF Free, Summarising
  <2>5. Quiet
    BY <2>1, <2>2, QuietGo, NoWorkMakes
  <2>6. QED
    BY <2>1, <2>2, <2>3, <2>4, <2>5, GoIs, SummaryNames
<1>4. ASSUME SummaryFailure PROVE DriveKinds
  <2>1. /\ pc = "sfailed" /\ pc \in Held /\ snap \in Operations /\ snap.ctl = "running" /\ snap # NoOp
        /\ snap.at \in {"sready", "seffect"} /\ Current.at = "seffect" /\ Current.id = snap.id
    BY <1>4, SummaryNames, CurrentParts, Snapshot DEF SummaryFailure, Active, Running
  <2>2. CASE CancelSeen /\ Work("reconcile", NoWork) /\ UNCHANGED <<Lane, disk, mem, sealed, ids, ghosts>>
    <3>1. Quiet
      BY <2>1, <2>2, QuietGo, NoWorkMakes DEF Work, Go
    <3>2. QED
      BY <2>1, <2>2, <3>1, ReconcileGo DEF Work, Go, CancelSeen
  <2>3. CASE /\ snap.att < MaxAttempts /\ Transition(Rescheduled(snap)) /\ Leave
             /\ UNCHANGED <<Lane, sealed, ids, ghosts>>
    <3> DEFINE next == [snap EXCEPT !.at = "sretry", !.att = snap.att + 1]
    <3>1. snap.att + 1 \in 0..MaxAttempts
      <4>1. snap.att \in Nat
        BY <2>1, OpParts DEF States
      <4>2. QED
        BY <2>3, <4>1, Bounds
    <3>2. next \in Operations /\ next.at = "sretry" /\ next.id = snap.id /\ next.ctl = "running"
      BY <2>1, <3>1 DEF Operations, Stages
    <3>3. Transition(next)
      BY <2>3 DEF Rescheduled
    <3> HIDE DEF next
    <3>4. /\ pc' = "idle" /\ UNCHANGED <<gate, snap>> /\ work' \in Works /\ pc' \notin Held
      BY <2>3, NoWorkMakes, Places DEF Leave
    <3>5. LocalInv'
      BY <3>4, FreeLocals DEF Free
    <3>6. Resumes(next)
      BY <2>1, <2>3, <3>2, <3>4 DEF Resumes
    <3>7. Moves(next)
      BY <2>1, <2>3, <3>2, <3>3, <3>4, <3>5, <3>6, TransitionWrites, MoveIs
    <3>8. QED
      BY <3>2, <3>7 DEF DriveKinds
  <2>4. CASE Settle(snap, "failed")
    BY <1>0, <2>1, <2>4, SettleEnds DEF DriveKinds
  <2>5. QED
    BY <1>4, <2>2, <2>3, <2>4 DEF SummaryFailure
<1>5. ASSUME Navigation PROVE DriveKinds
  <2>1. /\ pc = "navready" /\ pc' = "idle" /\ UNCHANGED <<gate, snap>> /\ work' = NoWork /\ mem' = NoOp
        /\ disk' = [disk EXCEPT !.op = NoOp, !.result = "completed"]
        /\ UNCHANGED <<Lane, sealed, ids, ghosts>>
    BY <1>5 DEF Navigation, Active, Leave
  <2>2. disk' \in Disks /\ disk'.op = NoOp /\ disk'.result = "completed" /\ disk'.log = disk.log
    BY <1>0, <2>1, NoOpParts, DiskParts DEF Disks
  <2>3. Step /\ Uneffected
    BY <2>1, NoWorkMakes DEF Step, Uneffected, TypeInv, Lane, ghosts
  <2>4. gate' \in BOOLEAN /\ (gate' => gate)
    BY <2>1 DEF TypeInv
  <2>5. Ends("completed")
    BY <2>1, <2>2, <2>3, <2>4 DEF Ends
  <2>6. QED
    BY <1>0, <2>5 DEF DriveKinds
<1>6. QED
  BY <1>1, <1>2, <1>3, <1>4, <1>5

LEMMA SummaryCommitKinds ==
  ASSUME CoreInv
  PROVE  /\ CommitCompactionResume => DriveKinds
         /\ CommitCompactionFinish => DriveKinds
         /\ CommitBranchSummary => DriveKinds
         /\ ApplyBranchSummary => DriveKinds
<1> USE DEF CoreInv
<1> DEFINE e == Entry(snap.id, "summary")
<1>1. ASSUME pc = "scommit"
      PROVE  /\ snap \in Operations /\ snap.ctl = "running" /\ Offered = e /\ e \in LogEntries
             /\ snap.ov \in Overflow /\ Append(disk.log, e) \in Seq(LogEntries)
  <2>1. snap \in Operations /\ snap.ctl = "running"
    BY <1>1, SummaryNames, Snapshot DEF Running
  <2>2. snap.id \in 0..MaxIds /\ "summary" \in Kinds /\ snap.ov \in Overflow
    BY <2>1 DEF Kinds, Operations
  <2>3. e \in LogEntries
    BY <2>2, Entries
  <2>4. QED
    BY <1>1, <2>1, <2>2, <2>3, Appended DEF Offered
<1>2. ASSUME CommitCompactionResume PROVE DriveKinds
  <2> DEFINE next == Need(snap, snap.ov)
  <2>1. /\ pc = "scommit" /\ Work("continue", NoWork) /\ UNCHANGED <<Lane, sealed, ids, ghosts>>
        /\ mem' = next /\ disk' = [disk EXCEPT !.log = Append(disk.log, Offered), !.op = next]
    BY <1>2 DEF CommitCompactionResume, Active
  <2>2. next \in Operations /\ next.at = "need" /\ next.ctl = "running"
    BY <1>1, <2>1, NextStage
  <2>3. Compacts(e, next)
    BY <2>1, <2>2 DEF Compacts, Running, Work, Go
  <2> HIDE DEF e, next
  <2>4. disk' = [disk EXCEPT !.log = Append(disk.log, e), !.op = next, !.frames = disk.frames,
                             !.staged = disk.staged]
    BY <1>1, <2>1, DiskParts DEF Disks
  <2>5. QED
    BY <1>1, <2>1, <2>2, <2>3, <2>4, CommitIs, DiskParts, NoWorkMakes DEF Work, Go
<1>3. ASSUME CommitCompactionFinish PROVE DriveKinds
  <2>1. /\ pc = "scommit" /\ intent = "compaction" /\ UNCHANGED <<Lane, mem, sealed, ids, ghosts>>
        /\ Work("settle", [NoWork EXCEPT !.out = "completed"])
        /\ disk' = [disk EXCEPT !.log = Append(disk.log, Offered)]
    BY <1>3 DEF CommitCompactionFinish, Active
  <2>2. /\ disk' \in Disks /\ disk'.op = disk.op /\ disk'.result = disk.result
        /\ disk'.log = Append(disk.log, e)
    <3> HIDE DEF e
    <3> QED
      BY <1>1, <2>1, DiskParts DEF Disks
  <2>3. "completed" \in Outcomes
    BY DEF Outcomes, Statuses
  <2>4. pc' = "settle" /\ work' \in Works /\ work'.out = "completed" /\ UNCHANGED <<gate, snap>>
    BY <2>1, <2>3, NoWorkMakes DEF Work, Go
  <2>5. Step /\ Uneffected
    BY <2>1, <2>4 DEF Step, Uneffected, TypeInv, Lane, ghosts
  <2>6. Concludes(e)
    BY <1>1, <2>1, <2>2, <2>4, <2>5 DEF Concludes, Appends
  <2>7. QED
    BY <1>1, <2>1, <2>6 DEF DriveKinds
<1>4. ASSUME CommitBranchSummary PROVE DriveKinds
  <2>1. /\ pc = "scommit" /\ intent = "summary" /\ UNCHANGED <<Lane, mem, sealed, ids, ghosts>>
        /\ Work("sapply", NoWork)
        /\ disk' = [disk EXCEPT !.log = Append(disk.log, Offered), !.op = Leaf("navready", snap)]
    BY <1>4 DEF CommitBranchSummary, Active
  <2>2. Leaf("navready", snap) \in States
    BY <1>1, <2>1, NextStage DEF Stages, States
  <2>3. /\ disk' \in Disks /\ disk'.op = Leaf("navready", snap) /\ disk'.result = disk.result
        /\ disk'.log = Append(disk.log, e)
    <3> HIDE DEF e
    <3> QED
      BY <1>1, <2>1, <2>2, DiskParts DEF Disks
  <2>4. pc' = "sapply" /\ work' \in Works /\ UNCHANGED <<gate, snap>>
    BY <2>1, NoWorkMakes DEF Work, Go
  <2>5. Step /\ Uneffected
    BY <2>1, <2>4 DEF Step, Uneffected, TypeInv, Lane, ghosts
  <2>6. Summarises(e)
    BY <1>1, <2>1, <2>3, <2>4, <2>5 DEF Summarises, Appends
  <2>7. QED
    BY <1>1, <2>1, <2>6 DEF DriveKinds
<1>5. ASSUME ApplyBranchSummary PROVE DriveKinds
  <2>1. /\ pc = "sapply" /\ UNCHANGED <<Lane, disk, sealed, ids, ghosts>> /\ mem' = Leaf("navready", snap)
        /\ pc' = "continue" /\ UNCHANGED <<gate, snap>> /\ work' = NoWork
    BY <1>5 DEF ApplyBranchSummary, Active, Work, Go
  <2>2. Step /\ Uneffected
    BY <2>1, NoWorkMakes DEF Step, Uneffected, TypeInv, Lane, ghosts
  <2>3. AppliesSummary
    BY <2>1, <2>2 DEF AppliesSummary
  <2>4. QED
    BY <2>3 DEF DriveKinds
<1>6. QED
  BY <1>2, <1>3, <1>4, <1>5

LEMMA DriveStepKinds ==
  ASSUME CoreInv, DriveStep
  PROVE  DriveKinds
BY LoopKinds, CheckpointKinds, RequestKinds, StreamKinds, AnswerKinds, SequentialKinds, ParallelKinds,
   ResponseKinds, ResultKinds, SummaryKinds, SummaryCommitKinds, Zenon DEF DriveStep

-----------------------------------------------------------------------------
(* Types, the records of a settled operation, and the copies of its state: every step keeps them. *)

LEMMA PositionNames ==
  /\ Held \subseteq Positions /\ Stages \subseteq Positions
  /\ {"idle", "loop", "continue", "settle", "reconcile", "recover", "scheduled", "sapply"} \subseteq Positions
BY DEF Held, Plain, Requesting, Batch, Sequential, Together, Summarising, Positions, Stages

(* Where a move and a commit end. *)
LEMMA MoveEnds ==
  ASSUME NEW next, Moves(next)
  PROVE  /\ pc' \in {"continue", "idle", "stream", "summary", "execute", "sequence", "parallel"}
         /\ ids' = ids \/ (ids' = ids + 1 /\ ids' \in 0..MaxIds)
BY DEF Moves, Advances, Readies, Reserves, Retries, Resumes, MarksCalls
LEMMA CommitEnds ==
  ASSUME NEW e, NEW next, Commits(e, next)
  PROVE  pc' \in {"settle", "continue", "scheduled"}
BY DEF Commits, Responds, Interrupts, Collects, Compacts

LEMMA KindTypes ==
  ASSUME CoreInv, DriveKinds
  PROVE  /\ Step /\ disk' \in Disks /\ mem' \in States /\ gate' \in BOOLEAN /\ ids' \in 0..MaxIds
         /\ pc' \in Positions /\ sent' \subseteq Nat \X Nat /\ ran' \subseteq (0..MaxIds) \X Calls
<1> USE DEF CoreInv
<1>0. /\ gate \in BOOLEAN /\ mem \in States /\ ids \in 0..MaxIds /\ ids \in Nat
      /\ sent \subseteq Nat \X Nat /\ ran \subseteq (0..MaxIds) \X Calls
      /\ disk.log \in Seq(LogEntries)
  BY DiskParts, Bounds DEF TypeInv
<1>1. CASE Takes
  <2>1. Quiet /\ pc' = mem.at /\ mem.at \in Stages
    BY <1>0, <1>1, OpParts DEF Takes, Running
  <2>2. QED
    BY <1>0, <2>1, PositionNames DEF Quiet, Kept, Uneffected
<1>2. CASE Goes
  BY <1>0, <1>2, PositionNames DEF Goes, Holds, Quiet, Kept, Uneffected
<1>3. CASE Stops
  BY <1>0, <1>3, PositionNames DEF Stops, Quiet, Kept, Uneffected
<1>4. CASE Reconciles
  BY <1>0, <1>4, PositionNames DEF Reconciles, Kept, Uneffected
<1>5. CASE Completes
  BY <1>0, <1>5, PositionNames DEF Completes, Quiet, Kept, Uneffected
<1>6. CASE Sends
  <2>1. "stream" \in Held /\ "frames" \in Held
    BY Places DEF Requesting
  <2>2. snap \in Operations
    BY <1>6, <2>1, Snapshot DEF Sends
  <2>3. snap.att \in Nat /\ Len(disk.log) \in Nat
    <3>1. snap.att \in Nat
      BY <2>2, OpMakes, OpParts
    <3>2. Len(disk.log) \in Nat
      BY <1>0
    <3>3. QED
      BY <3>1, <3>2
  <2>4. sent' \subseteq Nat \X Nat
    BY <1>0, <1>6, <2>3 DEF Sends, Attempt
  <2>5. QED
    BY <1>0, <1>6, <2>1, <2>4, PositionNames DEF Sends, Kept
<1>7. ASSUME NEW c \in Calls, Executes(c) PROVE ran' \subseteq (0..MaxIds) \X Calls /\ pc' \in Positions
  <2>1. pc \in Held /\ pc' \in Held
    BY <1>7, BatchNames, Places DEF Executes
  <2>2. snap \in Operations
    BY <2>1, Snapshot
  <2>3. snap.id \in 0..MaxIds
    BY <2>2 DEF Operations
  <2>4. QED
    BY <1>0, <1>7, <2>1, <2>3, PositionNames DEF Executes
<1>8. CASE \E c \in Calls : Executes(c)
  BY <1>0, <1>7, <1>8 DEF Executes, Kept
<1>9. CASE \E next \in Operations : Moves(next)
  <2>1. PICK next \in Operations : Moves(next)
    BY <1>9
  <2>2. pc' \in Positions
    BY <2>1, MoveEnds, PositionNames DEF Positions
  <2>3. ids' \in 0..MaxIds
    BY <1>0, <2>1, MoveEnds
  <2>4. QED
    BY <1>0, <2>1, <2>2, <2>3 DEF Moves, Writes, Uneffected, States
<1>10. CASE \E e \in LogEntries, next \in Operations : Commits(e, next)
  <2>1. PICK e \in LogEntries, next \in Operations : Commits(e, next)
    BY <1>10
  <2>2. pc' \in Positions
    BY <2>1, CommitEnds, PositionNames
  <2>3. QED
    BY <1>0, <2>1, <2>2 DEF Commits, Writes, Appends, Uneffected, States
<1>11. CASE \E e \in LogEntries : Concludes(e) \/ Summarises(e)
  BY <1>0, <1>11, PositionNames DEF Concludes, Summarises, Appends, Uneffected
<1>12. CASE AppliesSummary
  <2>1. snap \in Operations /\ snap.ctl = "running"
    BY <1>12, OpParts DEF AppliesSummary, HeldInv, TypeInv, Running
  <2>2. Leaf("navready", snap) \in States
    BY <2>1, LeafIs DEF Stages, States
  <2>3. QED
    BY <1>0, <1>12, <2>2, PositionNames, DiskParts DEF AppliesSummary, Uneffected
<1>13. CASE \E status \in Statuses : Ends(status)
  BY <1>0, <1>13, PositionNames, NoOpParts DEF Ends, Uneffected
<1>14. QED
  BY <1>1, <1>2, <1>3, <1>4, <1>5, <1>6, <1>8, <1>9, <1>10, <1>11, <1>12, <1>13 DEF DriveKinds

LEMMA DriveKeepsTypes ==
  ASSUME CoreInv, DriveKinds
  PROVE  TypeInv'
BY KindTypes DEF TypeInv, CoreInv, Step

LEMMA DriveKeepsGone ==
  ASSUME CoreInv, DriveKinds
  PROVE  GoneInv'
<1> USE DEF CoreInv
<1>1. /\ pc # "idle" /\ mem # NoOp /\ disk.op # NoOp /\ disk.result = "none" /\ Alive
      /\ Alive' /\ TypeInv
  BY KindTypes DEF Step, GoneInv, Alive
<1>2. CASE Kept
  BY <1>1, <1>2 DEF Kept, GoneInv
<1>3. CASE \E next \in Operations : Moves(next)
  BY <1>1, <1>3, OpMakes DEF Moves, Writes, GoneInv
<1>4. CASE \E e \in LogEntries, next \in Operations : Commits(e, next)
  BY <1>1, <1>4, OpMakes DEF Commits, Writes, GoneInv
<1>5. CASE \E e \in LogEntries : Concludes(e)
  BY <1>1, <1>5 DEF Concludes, GoneInv
<1>6. CASE \E e \in LogEntries : Summarises(e)
  <2>1. snap \in Operations
    BY <1>6, SummaryNames, Snapshot DEF Summarises
  <2>2. Leaf("navready", snap) # NoOp
    BY <2>1, LeafIs, OpMakes DEF Stages
  <2>3. QED
    BY <1>1, <1>6, <2>2 DEF Summarises, GoneInv
<1>7. CASE AppliesSummary
  <2>1. snap \in Operations
    BY <1>7, OpParts DEF AppliesSummary, HeldInv, TypeInv, Running
  <2>2. Leaf("navready", snap) # NoOp
    BY <2>1, LeafIs, OpMakes DEF Stages
  <2>3. QED
    BY <1>1, <1>7, <2>2 DEF AppliesSummary, GoneInv
<1>8. CASE \E status \in Statuses : Ends(status)
  BY <1>8 DEF Ends, GoneInv
<1>9. QED
  BY <1>2, <1>3, <1>4, <1>5, <1>6, <1>7, <1>8
     DEF DriveKinds, Takes, Goes, Stops, Completes, Quiet, Reconciles, Sends, Executes

(* The position is in no procedure. *)
Outside == {"idle", "loop", "continue", "settle", "scheduled"}
LEMMA HeldOutside ==
  ASSUME pc' \in Outside, mem' = disk'.op \/ ~Running(mem') \/ ~Running(disk'.op)
  PROVE  HeldInv'
<1>1. pc' \notin Held
  BY Places DEF Outside
<1>2. QED
  BY <1>1 DEF HeldInv, Outside, Running

LEMMA HeldThere ==
  ASSUME NEW s, Holds(s), Running(mem') => mem' = s, Running(disk'.op) => disk'.op = s
  PROVE  HeldInv'
<1>1. pc' \in Held /\ s = Current' /\ snap'.ctl = "running" /\ snap'.at \in OriginsOf(pc')
  BY DEF Holds, Current
<1>2. pc' \notin {"reconcile", "recover", "sapply"}
  BY <1>1, Places
<1>3. QED
  BY <1>1, <1>2 DEF HeldInv, Running

LEMMA NotSummary ==
  \A p \in Held : p # "sapply" /\ p # "settle" /\ p # "idle"
BY Places

LEMMA DriveKeepsHeld ==
  ASSUME CoreInv, DriveKinds
  PROVE  HeldInv'
<1> USE DEF CoreInv
<1>1. ASSUME pc # "sapply", Running(mem), Running(disk.op) PROVE mem = disk.op
  BY <1>1 DEF HeldInv
<1>2. ASSUME pc \in Held PROVE (Running(mem) => mem = Current) /\ (Running(disk.op) => disk.op = Current)
  BY <1>2 DEF HeldInv
<1>3. CASE Takes
  <2>1. mem \in Operations /\ mem.at \in Stages /\ mem.ctl = "running"
    BY <1>3, OpParts DEF Takes, Running, TypeInv
  <2>2. Holds(mem)
    <3>1. pc' \in Stages /\ snap' = mem /\ pc' = mem.at
      BY <1>3, <2>1 DEF Takes
    <3>2. pc' \in Held /\ OriginsOf(pc') = {pc'} /\ CurrentAt(pc', snap', work') = snap'
      BY <3>1, Places
    <3>3. QED
      BY <2>1, <3>1, <3>2 DEF Holds
  <2>3. Running(disk'.op) => disk'.op = mem
    BY <1>1, <1>3, <2>1 DEF Takes, Quiet, Kept, Running
  <2>4. QED
    BY <1>3, <2>2, <2>3, HeldThere DEF Takes, Quiet, Kept
<1>4. CASE Goes
  BY <1>2, <1>4, HeldThere DEF Goes, Quiet, Kept
<1>5. CASE Stops \/ Completes
  BY <1>1, <1>5, HeldOutside DEF Stops, Completes, Quiet, Kept, Outside
<1>6. CASE Reconciles
  <2>1. pc' \notin Held /\ pc' # "sapply"
    BY <1>6, Places DEF Reconciles
  <2>2. QED
    BY <1>1, <1>6, <2>1 DEF Reconciles, Kept, HeldInv, Running
<1>7. CASE Sends
  <2>1. pc \in Requesting /\ pc' \in Requesting /\ pc \in Held
    BY <1>7, Places DEF Sends, Requesting
  <2>2. Holds(Current)
    BY <1>7, <2>1, SameRequest, Snapshot, CurrentParts DEF Sends, Holds, Current, Running
  <2>3. QED
    BY <1>2, <1>7, <2>1, <2>2, HeldThere DEF Sends, Kept
<1>8. ASSUME NEW c \in Calls, Executes(c) PROVE HeldInv'
  <2>1. pc \in Batch /\ pc' \in Batch /\ work'.calls = work.calls /\ UNCHANGED snap
    BY <1>8, BatchNames DEF Executes
  <2>2. Holds(Current)
    BY <2>1, BatchFacts, BatchPlace DEF Holds
  <2>3. QED
    BY <1>2, <1>8, <2>1, <2>2, HeldThere, BatchFacts DEF Executes, Kept
<1>9. ASSUME NEW next \in Operations, Moves(next) PROVE HeldInv'
  <2>1. mem' = next /\ disk'.op = next
    BY <1>9 DEF Moves, Writes
  <2>2. CASE pc' \in Held
    BY <1>9, <2>1, <2>2, HeldThere DEF Moves
  <2>3. CASE pc' \notin Held
    <3>1. pc' \notin {"stream", "summary", "execute", "sequence", "parallel"}
      BY <2>3, Places, BatchNames DEF Requesting, Summarising
    <3>2. pc' \in Outside
      BY <1>9, <3>1, MoveEnds DEF Outside
    <3>3. QED
      BY <2>1, <3>2, HeldOutside
  <2>4. QED
    BY <2>2, <2>3
<1>10. ASSUME NEW e \in LogEntries, NEW next \in Operations, Commits(e, next) PROVE HeldInv'
  BY <1>10, CommitEnds, HeldOutside DEF Commits, Writes, Outside
<1>11. ASSUME NEW e \in LogEntries, Concludes(e) PROVE HeldInv'
  BY <1>1, <1>11, HeldOutside DEF Concludes, Outside
<1>12. ASSUME NEW e \in LogEntries, Summarises(e) PROVE HeldInv'
  <2>1. Running(snap) /\ pc' \notin Held
    BY <1>12, SummaryNames, Snapshot, Places DEF Summarises
  <2>2. QED
    BY <1>12, <2>1 DEF Summarises, HeldInv, Running, Step
<1>13. CASE AppliesSummary
  BY <1>13, HeldOutside DEF AppliesSummary, Outside, HeldInv, Running
<1>14. CASE \E status \in Statuses : Ends(status)
  BY <1>14, HeldOutside DEF Ends, Outside
<1>15. QED
  BY <1>3, <1>4, <1>5, <1>6, <1>7, <1>8, <1>9, <1>10, <1>11, <1>12, <1>13, <1>14, Zenon DEF DriveKinds

LEMMA DriveKeepsLocals ==
  ASSUME CoreInv, DriveKinds
  PROVE  LocalInv'
<1> USE DEF CoreInv
<1>0. ASSUME pc' = "settle", work'.out \in Statuses PROVE LocalInv'
  BY <1>0 DEF LocalInv, Requesting, Together
<1>1. CASE Takes
  <2>1. pc' \in Stages
    BY <1>1, OpParts DEF Takes, Running, TypeInv
  <2>2. QED
    BY <2>1, FreeLocals DEF Free, Plain
<1>2. CASE Goes
  BY <1>2 DEF Goes
<1>3. CASE Stops
  BY <1>3, FreeLocals DEF Stops, Free
<1>4. CASE Reconciles
  BY <1>4, FreeLocals DEF Reconciles, Free
<1>5. CASE Completes
  BY <1>0, <1>5 DEF Completes, Statuses
<1>6. CASE Sends
  BY <1>6 DEF Sends, LocalInv, Requesting, Together
<1>7. ASSUME NEW c \in Calls, Executes(c) PROVE LocalInv'
  <2>1. CASE pc = "execute"
    BY <1>7, <2>1, BatchNames DEF Executes, LocalInv
  <2>2. CASE pc = "parallel"
    BY <1>7, <2>2, BatchNames DEF Executes, LocalInv
  <2>3. QED
    BY <1>7, <2>1, <2>2 DEF Executes
<1>8. ASSUME NEW next \in Operations, Moves(next) PROVE LocalInv'
  BY <1>8 DEF Moves
<1>9. ASSUME NEW e \in LogEntries, NEW next \in Operations, Commits(e, next) PROVE LocalInv'
  <2>1. \/ pc' = "settle" /\ work'.out \in Statuses
        \/ pc' \in {"continue", "scheduled"}
    BY <1>9 DEF Commits, Responds, Interrupts, Collects, Compacts, Statuses
  <2>2. QED
    BY <1>0, <2>1, FreeLocals DEF Free
<1>10. ASSUME NEW e \in LogEntries, Concludes(e) PROVE LocalInv'
  BY <1>0, <1>10 DEF Concludes, Statuses
<1>11. ASSUME NEW e \in LogEntries, Summarises(e) PROVE LocalInv'
  BY <1>11, FreeLocals DEF Summarises, Free
<1>12. CASE AppliesSummary
  BY <1>12, FreeLocals DEF AppliesSummary, Free
<1>13. CASE \E status \in Statuses : Ends(status)
  BY <1>13, FreeLocals DEF Ends, Free
<1>14. QED
  BY <1>1, <1>2, <1>3, <1>4, <1>5, <1>6, <1>7, <1>8, <1>9, <1>10, <1>11, <1>12, <1>13, Zenon DEF DriveKinds

-----------------------------------------------------------------------------
(* Effects. *)

LEMMA LogGrows ==
  ASSUME NEW log \in Seq(LogEntries), NEW e \in LogEntries
  PROVE  /\ Len(log) \in Nat /\ Len(Append(log, e)) = Len(log) + 1
         /\ DOMAIN log = 1..Len(log) /\ DOMAIN Append(log, e) = 1..(Len(log) + 1)
         /\ \A k \in DOMAIN log : k \in DOMAIN Append(log, e) /\ Append(log, e)[k] = log[k]
         /\ Append(log, e)[Len(log) + 1] = e /\ Len(log) + 1 \in DOMAIN Append(log, e)
         /\ \A k \in DOMAIN Append(log, e) : k \in DOMAIN log \/ k = Len(log) + 1
<1>1. Len(log) \in Nat /\ DOMAIN log = 1..Len(log) /\ Len(Append(log, e)) = Len(log) + 1
  OBVIOUS
<1>2. DOMAIN Append(log, e) = 1..(Len(log) + 1)
  BY <1>1
<1>3. \A k \in 1..Len(log) : Append(log, e)[k] = log[k]
  OBVIOUS
<1>4. Append(log, e)[Len(log) + 1] = e
  OBVIOUS
<1>5. QED
  BY <1>1, <1>2, <1>3, <1>4

LEMMA LoggedGrows ==
  ASSUME NEW log \in Seq(LogEntries), NEW e \in LogEntries, NEW id
  PROVE  /\ Logged(log, id) => Logged(Append(log, e), id)
         /\ Logged(Append(log, e), id) => Logged(log, id) \/ (e.id = id /\ e.kind # "results")
         /\ e.id = id /\ e.kind # "results" => Logged(Append(log, e), id)
         /\ Collected(Append(log, e), id) => Collected(log, id) \/ (e.id = id /\ e.kind = "results")
<1>1. Logged(log, id) => Logged(Append(log, e), id)
  BY LogGrows DEF Logged
<1>2. Logged(Append(log, e), id) => Logged(log, id) \/ (e.id = id /\ e.kind # "results")
  BY LogGrows DEF Logged
<1>3. e.id = id /\ e.kind # "results" => Logged(Append(log, e), id)
  BY LogGrows DEF Logged
<1>4. Collected(Append(log, e), id) => Collected(log, id) \/ (e.id = id /\ e.kind = "results")
  BY LogGrows DEF Collected
<1>5. QED
  BY <1>1, <1>2, <1>3, <1>4

(* After a new entry no request of the next position has gone out. *)
LEMMA RequestsFresh ==
  ASSUME TypeInv, EffectInv, NEW e \in LogEntries
  PROVE  /\ \A n : Unsent(Append(disk.log, e), sent, n)
         /\ \A s : RequestsMarked(Append(disk.log, e), sent, s)
         /\ \A a \in sent : a[1] <= Len(Append(disk.log, e))
         /\ \A r \in ran : Logged(Append(disk.log, e), r[1])
         /\ \A s : Marks(disk.log, sent, ran, s) => Marks(Append(disk.log, e), sent, ran, s)
<1>1. disk.log \in Seq(LogEntries) /\ sent \subseteq Nat \X Nat
  BY DiskParts DEF TypeInv
<1>2. Len(disk.log) \in Nat /\ Len(Append(disk.log, e)) = Len(disk.log) + 1
  BY <1>1, LogGrows
<1>3. \A a \in sent : a[1] \in Nat /\ a[1] <= Len(disk.log)
  BY <1>1 DEF EffectInv
<1>4. \A n : Unsent(Append(disk.log, e), sent, n)
  BY <1>2, <1>3 DEF Unsent
<1>5. \A s : RequestsMarked(Append(disk.log, e), sent, s)
  BY <1>4 DEF RequestsMarked
<1>6. \A s : CallsMarked(disk.log, ran, s) => CallsMarked(Append(disk.log, e), ran, s)
  BY <1>1, LoggedGrows DEF CallsMarked
<1>7. \A r \in ran : Logged(Append(disk.log, e), r[1])
  BY <1>1, LoggedGrows DEF EffectInv
<1>8. \A a \in sent : a[1] <= Len(Append(disk.log, e))
  BY <1>2, <1>3
<1>9. QED
  BY <1>4, <1>5, <1>6, <1>7, <1>8 DEF Marks

LEMMA EffectOutside ==
  ASSUME pc' \notin Held, pc' # "sapply", ~reran', ~resent',
         \A a \in sent' : a[1] <= Len(disk'.log),
         \A r \in ran' : Logged(disk'.log, r[1]),
         Running(mem') => Marks(disk'.log, sent', ran', mem'),
         Running(disk'.op) => Marks(disk'.log, sent', ran', disk'.op)
  PROVE  EffectInv'
<1>1. pc' \notin {"stream", "execute"} /\ pc' \notin Together
  BY BatchNames, Places DEF Requesting, Together
<1>2. QED
  BY <1>1 DEF EffectInv, Running

LEMMA EffectThere ==
  ASSUME NEW s, Holds(s), Running(mem') => mem' = s, Running(disk'.op) => disk'.op = s, ~reran', ~resent',
         \A a \in sent' : a[1] <= Len(disk'.log),
         \A r \in ran' : Logged(disk'.log, r[1]),
         Marks(disk'.log, sent', ran', s),
         pc' = "stream" /\ snap'.at = "ready" => Unsent(disk'.log, sent', snap'.att),
         pc' = "execute" => <<snap'.id, work'.call>> \notin ran',
         pc' \in Together => \A c \in work'.todo : <<snap'.id, c>> \notin ran'
  PROVE  EffectInv'
<1>1. pc' \in Held /\ Current' = s /\ pc' # "sapply"
  BY NotSummary DEF Holds, Current
<1>2. QED
  BY <1>1 DEF EffectInv, Running

(* A state that a move leads to. *)
LEMMA MoveMarks ==
  ASSUME CoreInv, EffectInv, NEW next \in Operations, Moves(next)
  PROVE  Marks(disk.log, sent, ran, next)
<1>1. /\ TypeInv /\ GoneInv /\ HeldInv /\ pc \in Held /\ Current \in Operations
      /\ CallsMarked(disk.log, ran, Current) /\ RequestsMarked(disk.log, sent, Current)
      /\ Current.att \in Nat /\ next.att \in Nat
  BY CurrentParts, OpMakes, OpParts DEF Moves, EffectInv, CoreInv, Marks
<1>2. \A a \in sent : a[2] \in Nat
  BY <1>1 DEF TypeInv
<1>3. ASSUME NEW n \in Nat, NEW m \in Nat, n <= m, Unsent(disk.log, sent, n)
      PROVE  Unsent(disk.log, sent, m)
  BY <1>2, <1>3 DEF Unsent
<1>4. CASE Advances(next)
  BY <1>1, <1>4 DEF Advances, Marks, CallsMarked, RequestsMarked
<1>5. CASE Readies(next)
  <2>1. Unsent(disk.log, sent, 0)
    BY <1>1, <1>5 DEF Readies, RequestsMarked
  <2>2. Unsent(disk.log, sent, 1)
    BY <1>3, <2>1
  <2>3. QED
    BY <1>5, <2>2 DEF Readies, Marks, CallsMarked, RequestsMarked
<1>6. CASE Reserves(next)
  <2>1. CASE Current.at = "ready" /\ next.at = "effect" /\ next.att = Current.att
    <3>1. Unsent(disk.log, sent, Current.att)
      BY <1>1, <2>1 DEF RequestsMarked
    <3>2. Unsent(disk.log, sent, next.att + 1)
      BY <1>1, <1>3, <2>1, <3>1
    <3>3. QED
      BY <2>1, <3>2 DEF Marks, CallsMarked, RequestsMarked
  <2>2. CASE Current.at \in {"suspended", "poll"} /\ next.at = "poll"
    BY <1>1, <2>2 DEF Marks, CallsMarked, RequestsMarked
  <2>3. CASE Current.at = "deciding" /\ next.at = "sready"
    BY <1>1, <2>3 DEF Marks, CallsMarked, RequestsMarked
  <2>4. QED
    BY <1>6, <2>1, <2>2, <2>3 DEF Reserves
<1>7. CASE Retries(next)
  BY <1>1, <1>7 DEF Retries, Marks, CallsMarked, RequestsMarked
<1>8. CASE Resumes(next)
  BY <1>1, <1>8 DEF Resumes, Marks, CallsMarked, RequestsMarked
<1>9. CASE MarksCalls(next)
  BY <1>1, <1>9 DEF MarksCalls, Marks, CallsMarked, RequestsMarked
<1>10. QED
  BY <1>4, <1>5, <1>6, <1>7, <1>8, <1>9 DEF Moves

(* The calls that a move is about to start. *)
LEMMA MoveStarts ==
  ASSUME CoreInv, EffectInv, NEW next \in Operations, Moves(next), work' \in Works
  PROVE  /\ pc' = "stream" /\ snap'.at = "ready" => Unsent(disk.log, sent, snap'.att)
         /\ pc' = "execute" => <<snap'.id, work'.call>> \notin ran
         /\ pc' \in Together => \A c \in work'.todo : <<snap'.id, c>> \notin ran
<1>1. /\ TypeInv /\ GoneInv /\ HeldInv /\ pc \in Held
      /\ CallsMarked(disk.log, ran, Current) /\ RequestsMarked(disk.log, sent, Current)
  BY DEF Moves, EffectInv, CoreInv, Marks
<1>2. ASSUME pc' = "stream", snap'.at = "ready" PROVE Unsent(disk.log, sent, snap'.att)
  <2>1. Reserves(next) /\ pc \in {"ready", "suspended", "poll"} /\ snap' = snap
    BY <1>2 DEF Moves, Advances, Readies, Reserves, Retries, Resumes, MarksCalls
  <2>2. Current = snap
    BY <1>1, <2>1, CurrentParts DEF Stages
  <2>3. QED
    BY <1>1, <1>2, <2>1, <2>2 DEF RequestsMarked
<1>3. ASSUME pc' \in {"execute", "parallel"}
      PROVE  MarksCalls(next) /\ snap' = snap /\ pc \in Batch \union {"tools"} /\ Current.id = snap.id
  <2>1. MarksCalls(next)
    BY <1>3 DEF Moves, Advances, Readies, Reserves, Retries, Resumes
  <2>2. pc \in Batch \union {"tools"} /\ snap' = snap
    BY <2>1, BatchNames DEF MarksCalls
  <2>3. QED
    BY <2>1, <2>2, BatchFacts
<1>4. ASSUME pc' = "execute" PROVE <<snap'.id, work'.call>> \notin ran
  <2>1. Current.calls[work'.call] = "planned" /\ Current.at = "tools"
    BY <1>3, <1>4 DEF MarksCalls
  <2>2. work'.call \in Calls
    BY <1>4 DEF Moves, LocalInv
  <2>3. QED
    BY <1>1, <1>3, <1>4, <2>1, <2>2 DEF CallsMarked
<1>5. ASSUME pc' \in Together, NEW c \in work'.todo PROVE <<snap'.id, c>> \notin ran
  <2>1. pc' = "parallel"
    BY <1>5, MoveEnds DEF Together
  <2>2. c \in Calls
    BY <1>5, WorkParts
  <2>3. CASE pc = "tools" /\ Current.calls = Planned
    <3>1. Current.calls[c] = "planned" /\ Current.at = "tools"
      BY <1>3, <2>1, <2>2, <2>3 DEF MarksCalls, Planned
    <3>2. QED
      BY <1>1, <1>3, <2>1, <2>2, <3>1 DEF CallsMarked
  <2>4. CASE pc = "pready" /\ work'.todo = work.todo
    BY <1>3, <1>5, <2>1, <2>4, BatchNames DEF EffectInv
  <2>5. QED
    BY <1>3, <2>1, <2>3, <2>4 DEF MarksCalls
<1>6. QED
  BY <1>2, <1>4, <1>5

LEMMA CommitMarks ==
  ASSUME CoreInv, EffectInv, NEW e \in LogEntries, NEW next \in Operations, Commits(e, next)
  PROVE  Marks(Append(disk.log, e), sent, ran, next)
<1>1. TypeInv /\ disk.log \in Seq(LogEntries) /\ RequestsMarked(Append(disk.log, e), sent, next)
  BY DiskParts, RequestsFresh DEF CoreInv
<1>2. CASE next.at # "tools"
  BY <1>1, <1>2 DEF Marks, CallsMarked
<1>3. CASE next.at = "tools"
  <2>1. Responds(e, next)
    <3>1. ~Interrupts(e, next)
      <4>1. SUFFICES ASSUME Interrupts(e, next) PROVE FALSE
        OBVIOUS
      <4>2. next.at = "finish"
        BY <4>1 DEF Interrupts, Leaf
      <4>3. QED
        BY <1>3, <4>2
    <3>2. QED
      BY <1>3, <3>1 DEF Commits, Collects, Compacts
  <2>2. /\ pc = "commit" /\ pc \in Held /\ Current \in Operations /\ Current.ctl = "running"
        /\ Current.id = work.id /\ work.out \in Responses /\ next = AfterResponse(Current, work.out)
    BY <2>1, Places, CurrentParts DEF Responds, CoreInv, LocalInv, Requesting, Running
  <2>3. next.id = work.id
    BY <1>3, <2>2, ResponseLeads
  <2>4. e.id = work.id /\ e.kind # "results" /\ ~Logged(disk.log, e.id)
    BY <2>1, <2>2 DEF Responds, Entry, Responses, InLog
  <2>5. Logged(Append(disk.log, e), next.id)
    BY <1>1, <2>3, <2>4, LoggedGrows
  <2>6. \A c \in Calls : <<next.id, c>> \notin ran
    BY <2>3, <2>4 DEF EffectInv
  <2>7. QED
    BY <1>1, <2>5, <2>6 DEF Marks, CallsMarked
<1>4. QED
  BY <1>2, <1>3

LEMMA DriveKeepsEffects ==
  ASSUME CoreInv, EffectInv, DriveKinds, HeldInv'
  PROVE  EffectInv'
<1> USE DEF CoreInv
<1>0. /\ ~reran /\ ~resent
      /\ \A a \in sent : a[1] <= Len(disk.log)
      /\ \A r \in ran : Logged(disk.log, r[1])
      /\ Running(mem) => Marks(disk.log, sent, ran, mem)
      /\ Running(disk.op) => Marks(disk.log, sent, ran, disk.op)
      /\ pc \in Held => Marks(disk.log, sent, ran, Current)
      /\ pc \in Held => (Running(mem) => mem = Current) /\ (Running(disk.op) => disk.op = Current)
  BY DEF EffectInv, HeldInv
<1>1. CASE Takes
  <2>1. /\ mem.at \in Stages /\ mem.ctl = "running" /\ Running(mem) /\ pc' = mem.at /\ snap' = mem
        /\ Quiet /\ pc = "loop"
    BY <1>1, OpParts DEF Takes, Running, TypeInv
  <2>2. Holds(mem)
    <3>1. pc' \in Stages
      BY <2>1
    <3>2. pc' \in Held /\ OriginsOf(pc') = {pc'} /\ CurrentAt(pc', snap', work') = snap'
      BY <3>1, Places
    <3>3. QED
      BY <2>1, <3>1, <3>2 DEF Holds
  <2>3. pc' \notin {"stream", "execute"} /\ pc' \notin Together
    BY <2>1 DEF Stages, Together
  <2>4. Running(disk'.op) => disk'.op = mem
    BY <2>1 DEF HeldInv, Quiet, Kept
  <2>5. QED
    BY <1>0, <2>1, <2>2, <2>3, <2>4, EffectThere DEF Quiet, Kept, Uneffected
<1>2. CASE Goes
  <2>1. pc' \in Together => \A c \in work'.todo : <<snap'.id, c>> \notin ran'
    BY <1>2 DEF Goes, EffectInv, Quiet, Uneffected
  <2>2. QED
    BY <1>0, <1>2, <2>1, EffectThere DEF Goes, Quiet, Kept, Uneffected
<1>3. CASE Stops \/ Completes
  <2>1. pc' \notin Held /\ pc' # "sapply" /\ Quiet
    BY <1>3, Places DEF Stops, Completes
  <2>2. QED
    BY <1>0, <2>1, EffectOutside DEF Quiet, Kept, Uneffected
<1>4. CASE Reconciles
  <2>1. pc' \notin Held /\ pc' # "sapply"
    BY <1>4, Places DEF Reconciles
  <2>2. QED
    BY <1>0, <1>4, <2>1, EffectOutside DEF Reconciles, Kept, Uneffected
<1>5. CASE Sends
  <2>1. /\ pc = "stream" /\ pc' = "frames" /\ snap.at = "ready" /\ pc \in Requesting /\ pc' \in Requesting
        /\ pc \in Held /\ UNCHANGED <<snap, work, ran, reran, mem>> /\ disk'.log = disk.log
        /\ disk'.op = disk.op /\ sent' = sent \union {Attempt} /\ (resent' => resent \/ Attempt \in sent)
    BY <1>5, Places DEF Sends, Requesting, Kept
  <2>2. Holds(Current)
    BY <2>1, SameRequest, Snapshot, CurrentParts DEF Holds, Current, Running
  <2>3. Current.at = "effect" /\ Current.att = snap.att /\ snap.att \in Nat
    <3>1. Current.at = "effect" /\ Current.att = snap.att
      BY <2>1, CurrentParts
    <3>2. snap.att \in Nat
      BY <2>1, Snapshot, OpParts DEF TypeInv
    <3>3. QED
      BY <3>1, <3>2
  <2>4. Unsent(disk.log, sent, snap.att) /\ Unsent(disk.log, sent, snap.att + 1)
    BY <1>0, <2>1, <2>3 DEF EffectInv, Marks, RequestsMarked
  <2>5. Attempt[1] = Len(disk.log) /\ Attempt[2] = snap.att /\ Len(disk.log) \in Nat
    BY DiskParts DEF Attempt
  <2>6. Attempt \notin sent
    BY <2>3, <2>4, <2>5 DEF Unsent
  <2>7. Unsent(disk.log, sent', snap.att + 1)
    BY <2>1, <2>3, <2>4, <2>5 DEF Unsent
  <2>8. Marks(disk.log, sent', ran, Current)
    BY <1>0, <2>1, <2>3, <2>7 DEF Marks, RequestsMarked, CallsMarked
  <2>9. \A a \in sent' : a[1] <= Len(disk.log)
    BY <1>0, <2>1, <2>5
  <2>10. ~resent'
    BY <1>0, <2>1, <2>6
  <2>11. pc' \notin Together
    BY <2>1 DEF Together
  <2>12. QED
    BY <1>0, <2>1, <2>2, <2>8, <2>9, <2>10, <2>11, EffectThere
<1>6. ASSUME NEW c \in Calls, Executes(c) PROVE EffectInv'
  <2>1. /\ pc \in Batch /\ pc' \in Batch /\ work'.calls = work.calls /\ pc \in Held
        /\ UNCHANGED <<snap, sent, resent, mem>> /\ disk'.log = disk.log /\ disk'.op = disk.op
        /\ ran' = ran \union {<<snap.id, c>>} /\ (reran' => reran \/ <<snap.id, c>> \in ran)
    BY <1>6, BatchNames, BatchPlace DEF Executes, Kept
  <2>2. Holds(Current)
    BY <2>1, BatchFacts, BatchPlace DEF Holds
  <2>3. /\ Current.at = "tools" /\ Current.id = snap.id /\ Current.calls = work.calls
        /\ Logged(disk.log, snap.id)
    BY <1>0, <2>1, BatchFacts DEF Marks, CallsMarked
  <2>4. <<snap.id, c>> \notin ran /\ work.calls[c] # "planned"
    BY <1>6, BatchNames DEF Executes, EffectInv, LocalInv
  <2>5. Marks(disk.log, sent, ran', Current)
    <3>1. CallsMarked(disk.log, ran', Current)
      <4>1. SUFFICES ASSUME NEW d \in Calls, <<snap.id, d>> \in ran' PROVE work.calls[d] # "planned"
        BY <2>3 DEF CallsMarked
      <4>2. CASE d = c
        BY <2>4, <4>2
      <4>3. CASE d # c
        BY <1>0, <2>1, <2>3, <4>1, <4>3 DEF Marks, CallsMarked
      <4>4. QED
        BY <4>2, <4>3
    <3>2. QED
      BY <1>0, <2>1, <3>1 DEF Marks
  <2>6. \A r \in ran' : Logged(disk.log, r[1])
    BY <1>0, <2>1, <2>3
  <2>7. pc' # "stream" /\ pc' # "execute"
    BY <1>6 DEF Executes
  <2>8. pc' \in Together => \A d \in work'.todo : <<snap.id, d>> \notin ran'
    <3>1. SUFFICES ASSUME pc' \in Together, NEW d \in work'.todo PROVE <<snap.id, d>> \notin ran'
      OBVIOUS
    <3>2. pc = "parallel" /\ work'.todo = work.todo \ {c}
      BY <1>6, <3>1, BatchNames DEF Executes
    <3>3. d # c /\ <<snap.id, d>> \notin ran
      BY <3>1, <3>2, BatchNames DEF EffectInv
    <3>4. QED
      BY <2>1, <3>3
  <2>9. ~reran'
    BY <1>0, <2>1, <2>4
  <2>10. QED
    BY <1>0, <2>1, <2>2, <2>5, <2>6, <2>7, <2>8, <2>9, EffectThere
<1>7. ASSUME NEW next \in Operations, Moves(next) PROVE EffectInv'
  <2>1. mem' = next /\ disk'.op = next /\ disk'.log = disk.log /\ UNCHANGED <<sent, resent, ran, reran>>
        /\ work' \in Works
    BY <1>7 DEF Moves, Writes, Uneffected, Step
  <2>2. Marks(disk.log, sent, ran, next)
    BY <1>7, MoveMarks
  <2>3. /\ pc' = "stream" /\ snap'.at = "ready" => Unsent(disk.log, sent, snap'.att)
        /\ pc' = "execute" => <<snap'.id, work'.call>> \notin ran
        /\ pc' \in Together => \A c \in work'.todo : <<snap'.id, c>> \notin ran
    BY <1>7, <2>1, MoveStarts
  <2>4. CASE pc' \in Held
    BY <1>0, <1>7, <2>1, <2>2, <2>3, <2>4, EffectThere DEF Moves
  <2>5. CASE pc' \notin Held
    BY <1>0, <1>7, <2>1, <2>2, <2>5, MoveEnds, EffectOutside
  <2>6. QED
    BY <2>4, <2>5
<1>8. ASSUME NEW e \in LogEntries, NEW next \in Operations, Commits(e, next) PROVE EffectInv'
  <2>1. /\ mem' = next /\ disk'.op = next /\ disk'.log = Append(disk.log, e)
        /\ UNCHANGED <<sent, resent, ran, reran>>
    BY <1>8 DEF Commits, Writes, Uneffected, Appends
  <2>2. pc' \notin Held /\ pc' # "sapply"
    BY <1>8, CommitEnds, Places
  <2>3. QED
    BY <1>0, <1>8, <2>1, <2>2, CommitMarks, RequestsFresh, EffectOutside
<1>9. ASSUME NEW e \in LogEntries, Concludes(e) PROVE EffectInv'
  <2>1. /\ mem' = mem /\ disk'.op = disk.op /\ disk'.log = Append(disk.log, e)
        /\ UNCHANGED <<sent, resent, ran, reran>> /\ pc' \notin Held /\ pc' # "sapply"
    BY <1>9, Places DEF Concludes, Uneffected, Appends
  <2>2. QED
    BY <1>0, <2>1, RequestsFresh, EffectOutside
<1>10. ASSUME NEW e \in LogEntries, Summarises(e) PROVE EffectInv'
  <2>1. /\ mem' = mem /\ disk'.op = Leaf("navready", snap) /\ disk'.log = Append(disk.log, e)
        /\ UNCHANGED <<sent, resent, ran, reran>> /\ pc' \notin Held /\ pc' = "sapply"
    BY <1>10, Places DEF Summarises, Uneffected, Appends
  <2>2. pc' \notin Together
    BY <2>1 DEF Together
  <2>3. disk'.op.at # "tools"
    BY <2>1 DEF Leaf
  <2>4. Marks(disk'.log, sent, ran, disk'.op)
    BY <2>1, <2>3, RequestsFresh DEF Marks, CallsMarked
  <2>5. QED
    BY <1>0, <2>1, <2>2, <2>4, RequestsFresh DEF EffectInv, Running
<1>11. CASE AppliesSummary
  <2>1. /\ mem' = Leaf("navready", snap) /\ disk' = disk /\ UNCHANGED <<sent, resent, ran, reran>>
        /\ pc' \notin Held /\ pc' # "sapply" /\ pc = "sapply"
    BY <1>11, Places DEF AppliesSummary, Uneffected
  <2>2. mem'.at = "navready"
    BY <2>1 DEF Leaf
  <2>3. Unsent(disk.log, sent, 0)
    BY <2>1 DEF EffectInv
  <2>4. Marks(disk.log, sent, ran, mem')
    BY <2>2, <2>3 DEF Marks, CallsMarked, RequestsMarked
  <2>5. QED
    BY <1>0, <2>1, <2>4, EffectOutside
<1>12. CASE \E status \in Statuses : Ends(status)
  <2>1. /\ mem' = NoOp /\ disk'.op = NoOp /\ disk'.log = disk.log /\ UNCHANGED <<sent, resent, ran, reran>>
        /\ pc' \notin Held /\ pc' # "sapply"
    BY <1>12, Places DEF Ends, Uneffected
  <2>2. QED
    BY <1>0, <2>1, NoOpParts, EffectOutside DEF Running
<1>13. QED
  BY <1>1, <1>2, <1>3, <1>4, <1>5, <1>6, <1>7, <1>8, <1>9, <1>10, <1>11, <1>12, Zenon DEF DriveKinds

-----------------------------------------------------------------------------
(* Ids. *)

LEMMA IdsOutside ==
  ASSUME pc' \notin Held, pc' \notin {"reconcile", "recover"}, abort'.at = "idle", ~gate',
         mem'.ctl # "cancel", disk'.op.ctl # "cancel",
         \A k \in DOMAIN disk'.log : disk'.log[k].id <= ids' /\ Logged(disk'.log, disk'.log[k].id),
         (intent' = "compaction" /\ pc' = "settle") \/
           ((pc' # "sapply" => Unused(disk'.log, ids', mem')) /\ Unused(disk'.log, ids', disk'.op))
  PROVE  IdInv'
BY DEF IdInv

LEMMA IdsThere ==
  ASSUME NEW s, Holds(s), abort'.at = "idle", ~gate', mem'.ctl # "cancel", disk'.op.ctl # "cancel",
         \A k \in DOMAIN disk'.log : disk'.log[k].id <= ids' /\ Logged(disk'.log, disk'.log[k].id),
         Unused(disk'.log, ids', s), Unused(disk'.log, ids', mem'), Unused(disk'.log, ids', disk'.op)
  PROVE  IdInv'
<1>1. pc' \in Held /\ s = Current' /\ pc' \notin {"reconcile", "recover", "settle"}
  BY Places DEF Holds, Current
<1>2. QED
  BY <1>1 DEF IdInv

(* A state that a move leads to. *)
LEMMA MoveUnused ==
  ASSUME CoreInv, IdInv, Undisturbed, NEW next \in Operations, Moves(next)
  PROVE  Unused(disk.log, ids', next)
<1>1. TypeInv /\ pc \in Held /\ Unused(disk.log, ids, Current) /\ Current \in Operations /\ ids \in Nat
      /\ \A k \in DOMAIN disk.log : disk.log[k].id <= ids
  BY CurrentParts, Bounds DEF Moves, IdInv, CoreInv, TypeInv
<1>2. CASE Advances(next) \/ Readies(next) \/ Retries(next)
  BY <1>2 DEF Advances, Readies, Retries, Unused
<1>3. CASE Reserves(next)
  <2>1. next.id = ids + 1 /\ ids' = ids + 1 /\ next.at # "tools"
    BY <1>3 DEF Reserves
  <2>2. ~Logged(disk.log, ids + 1)
    <3>1. SUFFICES ASSUME NEW k \in DOMAIN disk.log, disk.log[k].id = ids + 1 PROVE FALSE
      BY DEF Logged
    <3>2. QED
      BY <1>1, <3>1
  <2>3. QED
    BY <1>1, <2>1, <2>2 DEF Unused
<1>4. CASE Resumes(next)
  BY <1>1, <1>4 DEF Resumes, Unused
<1>5. CASE MarksCalls(next)
  BY <1>1, <1>5 DEF MarksCalls, Unused
<1>6. QED
  BY <1>2, <1>3, <1>4, <1>5 DEF Moves

(* An entry of the operation, and the state it leads to. *)
LEMMA EntryUnused ==
  ASSUME CoreInv, IdInv, EffectInv, Undisturbed, NEW e \in LogEntries, e.id <= ids,
         e.kind = "results" => Logged(disk.log, e.id)
  PROVE  \A k \in DOMAIN Append(disk.log, e) :
           /\ Append(disk.log, e)[k].id <= ids
           /\ Logged(Append(disk.log, e), Append(disk.log, e)[k].id)
<1>1. disk.log \in Seq(LogEntries)
  BY DiskParts DEF CoreInv
<1>2. SUFFICES ASSUME NEW k \in DOMAIN Append(disk.log, e)
               PROVE  /\ Append(disk.log, e)[k].id <= ids
                      /\ Logged(Append(disk.log, e), Append(disk.log, e)[k].id)
  OBVIOUS
<1>3. CASE k \in DOMAIN disk.log
  <2>1. Append(disk.log, e)[k] = disk.log[k]
    BY <1>1, <1>3, LogGrows
  <2>2. disk.log[k].id <= ids /\ Logged(disk.log, disk.log[k].id)
    BY <1>3 DEF IdInv
  <2>3. QED
    BY <1>1, <2>1, <2>2, LoggedGrows
<1>4. CASE k = Len(disk.log) + 1
  <2>1. Append(disk.log, e)[k] = e
    BY <1>1, <1>4, LogGrows
  <2>2. QED
    BY <1>1, <2>1, LoggedGrows
<1>5. QED
  BY <1>1, <1>2, <1>3, <1>4, LogGrows

LEMMA CommitUnused ==
  ASSUME CoreInv, IdInv, EffectInv, Undisturbed, NEW e \in LogEntries, NEW next \in Operations,
         Commits(e, next)
  PROVE  /\ e.id <= ids /\ (e.kind = "results" => Logged(disk.log, e.id)) /\ next.ctl = "running"
         /\ Unused(Append(disk.log, e), ids, next)
<1> USE DEF CoreInv
<1>1. CASE Responds(e, next)
  <2>1. /\ pc = "commit" /\ pc \in Held /\ Current \in Operations /\ Current.ctl = "running"
        /\ Current.id = work.id /\ work.out \in Responses /\ next = AfterResponse(Current, work.out)
        /\ Current.at \in {"effect", "poll"}
    BY <1>1, Places, CurrentParts DEF Responds, LocalInv, Requesting, Running
  <2>2. e.id = work.id /\ e.kind # "results" /\ ~Logged(disk.log, e.id)
    BY <1>1, <2>1 DEF Responds, Entry, Responses, InLog
  <2>3. e.id <= ids
    BY <2>1, <2>2 DEF IdInv, Unused
  <2>4. /\ next.ctl = "running" /\ next.at \in {"retry", "finish", "need", "suspended", "tools"}
        /\ (next.at = "tools" => next.id = e.id)
    BY <2>1, <2>2, ResponseLeads
  <2>5. ~Collected(disk.log, e.id)
    BY <2>2 DEF IdInv, Collected
  <2>6. ~Collected(Append(disk.log, e), e.id)
    BY <2>2, <2>5, LoggedGrows, DiskParts
  <2>7. QED
    BY <2>2, <2>3, <2>4, <2>6 DEF Unused
<1>2. CASE Interrupts(e, next)
  <2>1. /\ pc = "effect" /\ e = Entry(snap.id, "interrupted") /\ next = Leaf("finish", snap)
    BY <1>2 DEF Interrupts, IdInv
  <2>2. /\ snap \in Operations /\ snap.ctl = "running" /\ Current = snap /\ snap.at = "effect"
        /\ pc \in Held
    BY <2>1, Places, CurrentParts, Snapshot DEF Running, Stages
  <2>3. e.id = snap.id /\ e.kind = "interrupted"
    BY <2>1 DEF Entry
  <2>4. next.at = "finish" /\ next.ctl = "running"
    BY <2>1, <2>2, LeafIs DEF Stages
  <2>5. e.id <= ids
    BY <2>2, <2>3 DEF IdInv, Unused
  <2>6. QED
    BY <2>3, <2>4, <2>5 DEF Unused
<1>3. CASE Collects(e, next)
  <2>1. /\ pc = "results" /\ pc \in Batch /\ e = Entry(snap.id, "results")
        /\ next.at \in {"finish", "need"} /\ next.ctl = "running"
    BY <1>3, BatchNames DEF Collects, Running
  <2>2. Current.at = "tools" /\ Current.id = snap.id /\ pc \in Held
    BY <2>1, BatchFacts
  <2>3. e.id = snap.id
    BY <2>1 DEF Entry
  <2>4. e.id <= ids /\ Logged(disk.log, e.id)
    BY <2>2, <2>3 DEF IdInv, Unused, EffectInv, Marks, CallsMarked
  <2>5. QED
    BY <2>1, <2>4 DEF Unused
<1>4. CASE Compacts(e, next)
  <2>1. /\ pc = "scommit" /\ e = Entry(snap.id, "summary") /\ next.at = "need" /\ next.ctl = "running"
    BY <1>4 DEF Compacts, Running
  <2>2. Current.at = "seffect" /\ Current.id = snap.id /\ pc \in Held
    BY <2>1, SummaryNames, CurrentParts
  <2>3. e.id = snap.id /\ e.kind = "summary"
    BY <2>1 DEF Entry
  <2>4. e.id <= ids
    BY <2>2, <2>3 DEF IdInv, Unused
  <2>5. QED
    BY <2>1, <2>3, <2>4 DEF Unused
<1>5. QED
  BY <1>1, <1>2, <1>3, <1>4 DEF Commits

LEMMA SummaryUnused ==
  ASSUME CoreInv, IdInv, Undisturbed, NEW e \in LogEntries, pc = "scommit", e = Entry(snap.id, "summary")
  PROVE  e.id <= ids /\ e.kind # "results"
<1>1. Current.at = "seffect" /\ Current.id = snap.id /\ pc \in Held
  BY SummaryNames, CurrentParts DEF CoreInv
<1>2. QED
  BY <1>1 DEF IdInv, Unused, Entry

LEMMA DriveKeepsIds ==
  ASSUME CoreInv, EffectInv, IdInv, DriveKinds
  PROVE  IdInv'
<1> USE DEF CoreInv
<1>0. SUFFICES ASSUME Undisturbed' PROVE IdInv'
  BY DEF IdInv
<1>1. /\ Undisturbed /\ abort.at = "idle" /\ abort'.at = "idle" /\ ~gate /\ mem.ctl # "cancel"
      /\ disk.op.ctl # "cancel" /\ pc \notin {"reconcile", "recover"}
      /\ \A k \in DOMAIN disk.log : disk.log[k].id <= ids /\ Logged(disk.log, disk.log[k].id)
      /\ pc \in Held => Unused(disk.log, ids, Current)
      /\ pc # "settle" => (pc # "sapply" => Unused(disk.log, ids, mem)) /\ Unused(disk.log, ids, disk.op)
  <2>1. Undisturbed /\ UNCHANGED abort
    BY <1>0, KindTypes DEF Step, Undisturbed
  <2>2. QED
    BY <2>1 DEF IdInv
<1>2. CASE Takes
  <2>1. /\ mem.at \in Stages /\ mem.ctl = "running" /\ pc' = mem.at /\ snap' = mem /\ Quiet /\ pc = "loop"
    BY <1>2, OpParts DEF Takes, Running, TypeInv
  <2>2. Holds(mem)
    <3>1. pc' \in Stages
      BY <2>1
    <3>2. pc' \in Held /\ OriginsOf(pc') = {pc'} /\ CurrentAt(pc', snap', work') = snap'
      BY <3>1, Places
    <3>3. QED
      BY <2>1, <3>1, <3>2 DEF Holds
  <2>3. QED
    BY <1>1, <2>1, <2>2, IdsThere DEF Quiet, Kept
<1>3. CASE Goes
  BY <1>1, <1>3, NotSummary, IdsThere DEF Goes, Quiet, Kept
<1>4. CASE Stops \/ Completes
  <2>1. pc' \notin Held /\ pc' \notin {"reconcile", "recover"} /\ Quiet
    BY <1>4, Places DEF Stops, Completes
  <2>2. QED
    BY <1>1, <2>1, IdsOutside DEF Quiet, Kept
<1>5. CASE Reconciles
  BY <1>1, <1>5 DEF Reconciles
<1>6. CASE Sends
  <2>1. pc \in Requesting /\ pc' \in Requesting /\ pc \in Held
    BY <1>6, Places DEF Sends, Requesting
  <2>2. Holds(Current)
    BY <1>6, <2>1, SameRequest, Snapshot, CurrentParts DEF Sends, Holds, Current, Running
  <2>3. QED
    BY <1>1, <1>6, <2>1, <2>2, NotSummary, IdsThere DEF Sends, Kept
<1>7. ASSUME NEW c \in Calls, Executes(c) PROVE IdInv'
  <2>1. pc \in Batch /\ pc' \in Batch /\ work'.calls = work.calls /\ UNCHANGED snap /\ pc \in Held
    BY <1>7, BatchNames, BatchPlace DEF Executes
  <2>2. Holds(Current)
    BY <2>1, BatchFacts, BatchPlace DEF Holds
  <2>3. QED
    BY <1>1, <1>7, <2>1, <2>2, NotSummary, IdsThere DEF Executes, Kept
<1>8. ASSUME NEW next \in Operations, Moves(next) PROVE IdInv'
  <2>1. /\ mem' = next /\ disk'.op = next /\ disk'.log = disk.log /\ UNCHANGED gate /\ next.ctl = "running"
    BY <1>8 DEF Moves, Writes, Running
  <2>2. Unused(disk.log, ids', next)
    BY <1>1, <1>8, MoveUnused
  <2>3. \A k \in DOMAIN disk.log : disk.log[k].id <= ids'
    <3>1. disk.log \in Seq(LogEntries) /\ ids \in Nat
      BY DiskParts, Bounds DEF TypeInv
    <3>2. \A k \in DOMAIN disk.log : disk.log[k].id \in 0..MaxIds
      <4>1. \A k \in DOMAIN disk.log : disk.log[k] \in LogEntries
        BY <3>1
      <4>2. QED
        BY <4>1 DEF LogEntries
    <3>3. ids' = ids \/ ids' = ids + 1
      BY <1>8, MoveEnds
    <3>4. QED
      BY <1>1, <3>1, <3>2, <3>3, Bounds
  <2>4. CASE pc' \in Held
    BY <1>1, <1>8, <2>1, <2>2, <2>3, <2>4, IdsThere DEF Moves
  <2>5. CASE pc' \notin Held
    BY <1>1, <1>8, <2>1, <2>2, <2>3, <2>5, MoveEnds, IdsOutside
  <2>6. QED
    BY <2>4, <2>5
<1>9. ASSUME NEW e \in LogEntries, NEW next \in Operations, Commits(e, next) PROVE IdInv'
  <2>1. /\ mem' = next /\ disk'.op = next /\ disk'.log = Append(disk.log, e) /\ UNCHANGED <<gate, ids>>
    BY <1>9 DEF Commits, Writes, Appends
  <2>2. pc' \notin Held /\ pc' \notin {"reconcile", "recover"}
    BY <1>9, CommitEnds, Places
  <2>3. /\ e.id <= ids /\ (e.kind = "results" => Logged(disk.log, e.id)) /\ next.ctl = "running"
        /\ Unused(Append(disk.log, e), ids, next)
    BY <1>1, <1>9, CommitUnused
  <2>4. \A k \in DOMAIN Append(disk.log, e) :
           /\ Append(disk.log, e)[k].id <= ids
           /\ Logged(Append(disk.log, e), Append(disk.log, e)[k].id)
    BY <1>1, <2>3, EntryUnused
  <2>5. QED
    BY <1>1, <2>1, <2>2, <2>3, <2>4, IdsOutside
<1>10. ASSUME NEW e \in LogEntries, Concludes(e) PROVE IdInv'
  <2>1. /\ mem' = mem /\ disk'.op = disk.op /\ disk'.log = Append(disk.log, e) /\ UNCHANGED <<gate, ids, intent>>
        /\ pc' = "settle" /\ intent = "compaction" /\ pc' \notin Held
    BY <1>10, Places DEF Concludes, Appends, Step
  <2>2. \A k \in DOMAIN Append(disk.log, e) :
           /\ Append(disk.log, e)[k].id <= ids
           /\ Logged(Append(disk.log, e), Append(disk.log, e)[k].id)
    BY <1>1, <1>10, SummaryUnused, EntryUnused DEF Concludes
  <2>3. QED
    BY <1>1, <2>1, <2>2, IdsOutside
<1>11. ASSUME NEW e \in LogEntries, Summarises(e) PROVE IdInv'
  <2>1. /\ mem' = mem /\ disk'.op = Leaf("navready", snap) /\ disk'.log = Append(disk.log, e)
        /\ UNCHANGED <<gate, ids>> /\ pc' = "sapply" /\ pc' \notin Held
    BY <1>11, Places DEF Summarises, Appends
  <2>2. \A k \in DOMAIN Append(disk.log, e) :
           /\ Append(disk.log, e)[k].id <= ids
           /\ Logged(Append(disk.log, e), Append(disk.log, e)[k].id)
    BY <1>1, <1>11, SummaryUnused, EntryUnused DEF Summarises
  <2>3. snap.ctl = "running"
    BY <1>11, SummaryNames, Snapshot DEF Summarises, Running
  <2>4. disk'.op.at = "navready" /\ disk'.op.ctl = "running"
    BY <2>1, <2>3 DEF Leaf
  <2>5. QED
    BY <1>1, <2>1, <2>2, <2>4, IdsOutside DEF Unused
<1>12. CASE AppliesSummary
  <2>1. /\ mem' = Leaf("navready", snap) /\ disk' = disk /\ UNCHANGED <<gate, ids>> /\ snap.ctl = "running"
        /\ pc' = "continue" /\ pc = "sapply" /\ pc' \notin Held
    BY <1>12, Places DEF AppliesSummary, HeldInv, Running
  <2>2. mem'.at = "navready" /\ mem'.ctl = "running"
    BY <2>1 DEF Leaf
  <2>3. Unused(disk.log, ids, mem')
    BY <2>2 DEF Unused
  <2>4. QED
    BY <1>1, <2>1, <2>2, <2>3, IdsOutside
<1>13. ASSUME NEW status \in Statuses, Ends(status) PROVE IdInv'
  <2>1. /\ mem' = NoOp /\ disk'.op = NoOp /\ disk'.log = disk.log /\ ids' = ids
        /\ pc' = "idle" /\ pc' \notin Held /\ ~gate'
    BY <1>1, <1>13, Places DEF Ends
  <2>2. Unused(disk.log, ids, NoOp)
    BY NoOpParts DEF Unused
  <2>3. QED
    BY <1>1, <2>1, <2>2, NoOpParts, IdsOutside
<1>14. QED
  BY <1>2, <1>3, <1>4, <1>5, <1>6, <1>7, <1>8, <1>9, <1>10, <1>11, <1>12, <1>13, Zenon DEF DriveKinds

-----------------------------------------------------------------------------
(* Answers. *)

LEMMA AnswerGrows ==
  ASSUME NEW log \in Seq(LogEntries), NEW e \in LogEntries, e.kind \in {"stop", "results"}
  PROVE  Answered(Append(log, e))
<1>1. Len(log) + 1 \in AnswersOf(Append(log, e)) /\ Append(log, e)[Len(log) + 1] = e
  BY LogGrows DEF AnswersOf
<1>2. \A j \in AnswersOf(Append(log, e)) : j <= Len(log) + 1
  BY LogGrows DEF AnswersOf
<1>3. QED
  BY <1>1, <1>2 DEF Answered

LEMMA AnswerOutside ==
  ASSUME pc' \notin Held, disk'.result = "completed" => Answered(disk'.log),
         pc' = "settle" \/ ((Running(mem') => Finishes(disk'.log, mem'))
                            /\ (Running(disk'.op) => Finishes(disk'.log, disk'.op))),
         pc' = "settle" /\ work'.out = "completed" => Answered(disk'.log)
  PROVE  AnswerInv'
BY DEF AnswerInv, Running

LEMMA AnswerThere ==
  ASSUME NEW s, Holds(s), disk'.result = "completed" => Answered(disk'.log),
         Running(mem') => mem' = s, Running(disk'.op) => disk'.op = s, Finishes(disk'.log, s)
  PROVE  AnswerInv'
<1>1. pc' \in Held /\ s = Current' /\ pc' # "settle"
  BY Places DEF Holds, Current
<1>2. QED
  BY <1>1 DEF AnswerInv, Running

LEMMA DriveKeepsAnswers ==
  ASSUME CoreInv, AnswerInv, DriveKinds
  PROVE  AnswerInv'
<1> USE DEF CoreInv
<1>0. SUFFICES ASSUME ~cut', intent' = "run" PROVE AnswerInv'
  BY DEF AnswerInv
<1>1. /\ ~cut /\ intent = "run" /\ disk.result = "none" /\ TypeInv /\ disk.log \in Seq(LogEntries)
      /\ pc = "settle" /\ work.out = "completed" => Answered(disk.log)
      /\ pc \in Held => /\ Finishes(disk.log, Current)
                        /\ Running(mem) => mem = Current
                        /\ Running(disk.op) => disk.op = Current
      /\ pc # "settle" => /\ Running(mem) => Finishes(disk.log, mem)
                          /\ Running(disk.op) => Finishes(disk.log, disk.op)
  <2>1. ~cut /\ intent = "run" /\ pc # "idle"
    BY <1>0, KindTypes DEF Step
  <2>2. disk.result = "none"
    BY <2>1 DEF GoneInv
  <2>3. QED
    BY <2>1, <2>2, DiskParts DEF AnswerInv, HeldInv
<1>2. CASE Takes
  <2>1. /\ mem.at \in Stages /\ mem.ctl = "running" /\ Running(mem) /\ pc' = mem.at /\ snap' = mem
        /\ Quiet /\ pc = "loop"
    BY <1>2, OpParts DEF Takes, Running, TypeInv
  <2>2. Holds(mem)
    <3>1. pc' \in Stages
      BY <2>1
    <3>2. pc' \in Held /\ OriginsOf(pc') = {pc'} /\ CurrentAt(pc', snap', work') = snap'
      BY <3>1, Places
    <3>3. QED
      BY <2>1, <3>1, <3>2 DEF Holds
  <2>3. Running(disk'.op) => disk'.op = mem
    BY <2>1 DEF HeldInv, Quiet, Kept
  <2>4. QED
    BY <1>1, <2>1, <2>2, <2>3, AnswerThere DEF Quiet, Kept
<1>3. CASE Goes
  BY <1>1, <1>3, AnswerThere DEF Goes, Quiet, Kept
<1>4. CASE Stops
  <2>1. pc' \notin Held /\ pc' # "settle" /\ Quiet
    BY <1>4, Places DEF Stops
  <2>2. QED
    BY <1>1, <2>1, AnswerOutside DEF Quiet, Kept
<1>5. CASE Completes
  <2>1. pc = "redrain" /\ pc' = "settle" /\ pc' \notin Held /\ pc \in Held /\ Quiet
    BY <1>5, Places DEF Completes
  <2>2. Current.at = "finish"
    BY <2>1, CurrentParts
  <2>3. Answered(disk.log)
    BY <1>1, <2>1, <2>2 DEF Finishes
  <2>4. QED
    BY <2>1, <2>3, AnswerOutside DEF Quiet, Kept
<1>6. CASE Reconciles
  <2>1. pc' \notin Held /\ pc' # "settle" /\ pc # "settle" /\ Kept
    BY <1>6, Places DEF Reconciles
  <2>2. QED
    BY <1>1, <2>1, AnswerOutside DEF Kept
<1>7. CASE Sends
  <2>1. pc \in Requesting /\ pc' \in Requesting /\ pc \in Held
    BY <1>7, Places DEF Sends, Requesting
  <2>2. Holds(Current)
    BY <1>7, <2>1, SameRequest, Snapshot, CurrentParts DEF Sends, Holds, Current, Running
  <2>3. QED
    BY <1>1, <1>7, <2>1, <2>2, AnswerThere DEF Sends, Kept
<1>8. ASSUME NEW c \in Calls, Executes(c) PROVE AnswerInv'
  <2>1. pc \in Batch /\ pc' \in Batch /\ work'.calls = work.calls /\ UNCHANGED snap /\ pc \in Held
    BY <1>8, BatchNames, BatchPlace DEF Executes
  <2>2. Holds(Current)
    BY <2>1, BatchFacts, BatchPlace DEF Holds
  <2>3. QED
    BY <1>1, <1>8, <2>1, <2>2, AnswerThere DEF Executes, Kept
<1>9. ASSUME NEW next \in Operations, Moves(next) PROVE AnswerInv'
  <2>1. mem' = next /\ disk'.op = next /\ disk'.log = disk.log /\ disk'.result = disk.result
    BY <1>9 DEF Moves, Writes
  <2>2. next.at \notin {"navready", "finish"}
    BY <1>9 DEF Moves, Advances, Readies, Reserves, Retries, Resumes, MarksCalls
  <2>3. Finishes(disk.log, next)
    BY <2>2 DEF Finishes
  <2>4. CASE pc' \in Held
    BY <1>1, <1>9, <2>1, <2>3, <2>4, AnswerThere DEF Moves
  <2>5. CASE pc' \notin Held
    BY <1>1, <1>9, <2>1, <2>3, <2>5, MoveEnds, AnswerOutside
  <2>6. QED
    BY <2>4, <2>5
<1>10. ASSUME NEW e \in LogEntries, NEW next \in Operations, Commits(e, next) PROVE AnswerInv'
  <2>1. /\ mem' = next /\ disk'.op = next /\ disk'.log = Append(disk.log, e) /\ disk'.result = disk.result
    BY <1>10 DEF Commits, Writes, Appends
  <2>2. pc' \notin Held
    BY <1>10, CommitEnds, Places
  <2>3. pc' = "settle" => work'.out # "completed"
    BY <1>10 DEF Commits, Responds, Interrupts, Collects, Compacts
  <2>4. pc' # "settle" => Finishes(disk'.log, next)
    <3>1. SUFFICES ASSUME pc' # "settle" PROVE Finishes(disk'.log, next)
      OBVIOUS
    <3>2. CASE Responds(e, next)
      <4>1. /\ pc = "commit" /\ pc \in Held /\ Current \in Operations /\ Current.ctl = "running"
            /\ work.out \in Responses /\ next = AfterResponse(Current, work.out)
        BY <3>2, Places, CurrentParts DEF Responds, LocalInv, Requesting, Running
      <4>2. next.at # "navready"
        BY <4>1, ResponseLeads
      <4>3. next.at = "finish" => e.kind = "stop"
        BY <3>1, <3>2 DEF Responds, Entry
      <4>4. QED
        BY <1>1, <2>1, <4>2, <4>3, AnswerGrows DEF Finishes
    <3>3. CASE Collects(e, next)
      <4>1. next.at # "navready" /\ e.kind = "results"
        BY <3>3 DEF Collects, Entry
      <4>2. QED
        BY <1>1, <2>1, <4>1, AnswerGrows DEF Finishes
    <3>4. CASE Compacts(e, next)
      BY <3>4 DEF Compacts, Finishes
    <3>5. QED
      BY <1>10, <3>1, <3>2, <3>3, <3>4 DEF Commits, Interrupts
  <2>5. QED
    BY <1>1, <2>1, <2>2, <2>3, <2>4, AnswerOutside
<1>11. ASSUME NEW e \in LogEntries, Concludes(e) \/ Summarises(e) PROVE AnswerInv'
  BY <1>1, <1>11 DEF Concludes, Summarises
<1>12. CASE AppliesSummary
  BY <1>1, <1>12 DEF AppliesSummary, HeldInv
<1>13. ASSUME NEW status \in Statuses, Ends(status) PROVE AnswerInv'
  <2>1. /\ mem' = NoOp /\ disk'.op = NoOp /\ disk'.log = disk.log /\ disk'.result = status
        /\ pc' = "idle" /\ pc' \notin Held
    BY <1>13, Places DEF Ends
  <2>2. pc # "navready"
    <3>1. SUFFICES ASSUME pc = "navready" PROVE FALSE
      OBVIOUS
    <3>2. pc \in Held /\ Current.at = "navready"
      BY <3>1, Places, CurrentParts DEF Stages
    <3>3. QED
      BY <1>1, <3>2 DEF Finishes
  <2>3. status = "completed" => Answered(disk.log)
    BY <1>1, <1>13, <2>2 DEF Ends
  <2>4. QED
    BY <2>1, <2>3, NoOpParts, AnswerOutside DEF Running
<1>14. QED
  BY <1>2, <1>3, <1>4, <1>5, <1>6, <1>7, <1>8, <1>9, <1>10, <1>11, <1>12, <1>13, Zenon DEF DriveKinds

-----------------------------------------------------------------------------
(* The copies. *)

LEMMA DriveKeepsCopies ==
  ASSUME CoreInv, CopyInv, DriveKinds
  PROVE  CopyInv'
<1> USE DEF CoreInv
<1>1. /\ UNCHANGED <<aborts, abort, crashed, rejected, cut>> /\ (Alive' <=> Alive)
      /\ aborts = 0 => abort.at = "idle"
  BY KindTypes DEF Step, Alive, CopyInv
<1>2. ASSUME pc # "sapply" PROVE aborts = 0 /\ Alive /\ ~rejected => mem = disk.op
  BY <1>2 DEF CopyInv
<1>3. ASSUME pc' # "sapply", ((mem = disk.op => mem' = disk'.op) /\ pc # "sapply") \/ mem' = disk'.op
      PROVE  CopyInv'
  BY <1>1, <1>2, <1>3 DEF CopyInv
<1>4. CASE Takes
  <2>1. pc' \in Stages
    BY <1>4, OpParts DEF Takes, Running, TypeInv
  <2>2. QED
    BY <1>3, <1>4, <2>1, Places DEF Takes, Quiet, Kept
<1>5. CASE Goes
  BY <1>3, <1>5, NotSummary DEF Goes, Holds, Quiet, Kept
<1>6. CASE Stops \/ Completes
  BY <1>3, <1>6 DEF Stops, Completes, Quiet, Kept
<1>7. CASE Reconciles
  BY <1>3, <1>7 DEF Reconciles, Kept
<1>8. CASE Sends
  BY <1>3, <1>8 DEF Sends, Kept
<1>9. ASSUME NEW c \in Calls, Executes(c) PROVE CopyInv'
  BY <1>3, <1>9 DEF Executes, Kept
<1>10. ASSUME NEW next \in Operations, Moves(next) PROVE CopyInv'
  BY <1>3, <1>10, MoveEnds DEF Moves, Writes
<1>11. ASSUME NEW e \in LogEntries, NEW next \in Operations, Commits(e, next) PROVE CopyInv'
  BY <1>3, <1>11, CommitEnds DEF Commits, Writes
<1>12. ASSUME NEW e \in LogEntries, Concludes(e) PROVE CopyInv'
  BY <1>3, <1>12 DEF Concludes
<1>13. ASSUME NEW e \in LogEntries, Summarises(e) PROVE CopyInv'
  BY <1>1, <1>13 DEF Summarises, CopyInv
<1>14. CASE AppliesSummary
  BY <1>1, <1>14 DEF AppliesSummary, CopyInv
<1>15. ASSUME NEW status \in Statuses, Ends(status) PROVE CopyInv'
  BY <1>3, <1>15 DEF Ends
<1>16. QED
  BY <1>4, <1>5, <1>6, <1>7, <1>8, <1>9, <1>10, <1>11, <1>12, <1>13, <1>14, <1>15, Zenon DEF DriveKinds

-----------------------------------------------------------------------------
(* The other actions. *)

LEMMA Parity ==
  ASSUME NEW n \in Nat
  PROVE  n % 2 = 0 => (n + 1) % 2 # 0
OBVIOUS

LEMMA InitInv == ASSUME Init PROVE DriveInv
<1> DEFINE start == Leaf(First, [ctl |-> "running"])
<1>1. start \in Operations /\ start.ctl = "running" /\ start.at = First /\ First \in Stages
      /\ First \notin {"tools", "effect", "ready", "retry", "poll", "sready", "seffect", "sretry", "finish"}
      /\ (intent = "run" => First # "navready")
  <2>1. First \in {"starting", "navready", "deciding"} /\ (intent = "run" => First # "navready")
    BY DEF First
  <2>2. 0 \in 0..MaxAttempts /\ 0 \in 0..MaxIds /\ Planned \in [Calls -> {"planned", "pending", "ready"}]
    BY Bounds DEF Planned
  <2>3. "no" \in Overflow /\ First \in Stages
    BY <2>1 DEF Overflow, Stages
  <2>4. start = [at |-> First, ctl |-> "running", att |-> 0, ov |-> "no", id |-> 0, calls |-> Planned]
    BY DEF Leaf
  <2>5. start \in Operations
    BY <2>2, <2>3, <2>4 DEF Operations
  <2>6. QED
    BY <2>1, <2>3, <2>4, <2>5
<1> HIDE DEF start
<1>2. /\ mem = start /\ disk.op = start /\ disk.result = "none" /\ disk.log = <<>>
      /\ pc = "idle" /\ snap = NoOp /\ gate = FALSE /\ work = NoWork /\ abort.at = "idle" /\ abort.op = NoOp
      /\ crashed = 0 /\ ids = 0 /\ aborts = 0 /\ queued = 0
      /\ sent = {} /\ ran = {} /\ resent = FALSE /\ reran = FALSE
  BY DEF Init, start
<1>3. disk \in Disks
  <2>1. disk = [op |-> start, result |-> "none", log |-> <<>>, frames |-> {}, staged |-> {},
                prep |-> First = "deciding"]
    BY DEF Init, start
  <2>2. (First = "deciding") \in BOOLEAN /\ <<>> \in Seq(LogEntries) /\ start \in States
    BY <1>1 DEF States
  <2>3. QED
    BY <2>1, <2>2 DEF Disks
<1>4. TypeInv
  <2>1. abort \in [at: {"idle", "commit", "apply", "signal"}, op: States]
    BY NoOpParts DEF Init
  <2>2. pc \in Positions
    BY <1>2, PositionNames
  <2>3. mem \in States
    BY <1>1, <1>2 DEF States
  <2>4. work \in Works /\ snap \in States
    BY <1>2, NoOpParts, NoWorkMakes
  <2>5. queued \in 0..MaxQueued /\ ids \in 0..MaxIds /\ aborts \in Nat /\ crashed \in Nat
    BY <1>2, Bounds
  <2>6. intent \in Intents
    BY DEF Init
  <2>7. QED
    BY <1>2, <1>3, <2>1, <2>2, <2>3, <2>4, <2>5, <2>6 DEF TypeInv
<1>5. pc \notin Held
  BY <1>2, Places
<1>6. GoneInv
  BY <1>1, <1>2, OpMakes DEF GoneInv
<1>7. HeldInv
  BY <1>2, <1>5 DEF HeldInv
<1>8. LocalInv
  BY <1>2 DEF LocalInv, Requesting, Together
<1>9. EffectInv
  <2>1. Marks(disk.log, sent, ran, start)
    BY <1>1, <1>2 DEF Marks, CallsMarked, RequestsMarked, Unsent
  <2>2. QED
    BY <1>2, <1>5, <2>1, BatchNames DEF EffectInv, Together
<1>10. IdInv
  <2>1. Unused(disk.log, ids, start)
    BY <1>1 DEF Unused
  <2>2. QED
    BY <1>1, <1>2, <1>5, <2>1 DEF IdInv
<1>11. AnswerInv
  <2>1. intent = "run" => Finishes(disk.log, start)
    BY <1>1 DEF Finishes
  <2>2. QED
    BY <1>2, <1>5, <2>1 DEF AnswerInv
<1>12. CopyInv
  BY <1>2 DEF CopyInv
<1>13. QED
  BY <1>4, <1>6, <1>7, <1>8, <1>9, <1>10, <1>11, <1>12 DEF DriveInv

(* Steps that leave the drive where it is. *)
LEMMA Stays ==
  ASSUME UNCHANGED <<pc, snap, work>>
  PROVE  Current' = Current
BY DEF Current

LEMMA StutterInv ==
  ASSUME DriveInv, UNCHANGED vars
  PROVE  DriveInv'
<1>1. UNCHANGED <<intent, disk, mem, queued, pc, snap, gate, work, abort, crashed, ids, aborts,
                  sent, resent, ran, reran, rejected, cut>>
  BY DEF vars, driveVars, ghosts
<1>2. Current' = Current /\ (Alive' <=> Alive)
  BY <1>1, Stays DEF Alive
<1>3. TypeInv' /\ GoneInv' /\ CopyInv'
  BY <1>1, <1>2 DEF DriveInv, TypeInv, GoneInv, CopyInv
<1>4. HeldInv' /\ LocalInv'
  BY <1>1, <1>2 DEF DriveInv, HeldInv, LocalInv, Running
<1>5. EffectInv'
  BY <1>1, <1>2 DEF DriveInv, EffectInv, Running
<1>6. IdInv' /\ AnswerInv'
  BY <1>1, <1>2 DEF DriveInv, IdInv, AnswerInv, Undisturbed, Running
<1>7. QED
  BY <1>3, <1>4, <1>5, <1>6 DEF DriveInv

LEMMA DriveActionInv ==
  ASSUME DriveInv, Drive
  PROVE  DriveInv'
<1>1. /\ pc = "idle" /\ pc' = "loop" /\ gate' = FALSE /\ work' = NoWork /\ mem # NoOp /\ Alive /\ (Alive' <=> Alive)
      /\ UNCHANGED <<intent, queued, abort, crashed, aborts, disk, mem, snap, ids, sent, resent, ran, reran, rejected, cut>>
  BY DEF Drive, Lane, ghosts, Alive
<1>2. pc' \notin Held /\ pc' \in Positions /\ pc' \notin Together
  BY <1>1, Places, PositionNames DEF Together
<1>3. TypeInv' /\ GoneInv' /\ CopyInv'
  BY <1>1, <1>2, NoWorkMakes DEF DriveInv, TypeInv, GoneInv, CopyInv
<1>4. HeldInv' /\ LocalInv'
  BY <1>1, <1>2, FreeLocals DEF DriveInv, HeldInv, Running, Free
<1>5. EffectInv'
  BY <1>1, <1>2 DEF DriveInv, EffectInv, Running
<1>6. IdInv' /\ AnswerInv'
  BY <1>1, <1>2 DEF DriveInv, IdInv, AnswerInv, Undisturbed, Running
<1>7. QED
  BY <1>3, <1>4, <1>5, <1>6 DEF DriveInv

LEMMA EnqueueInv ==
  ASSUME DriveInv, Enqueue
  PROVE  DriveInv'
<1>1. /\ queued < MaxQueued /\ queued' = queued + 1
      /\ UNCHANGED <<intent, disk, mem, pc, snap, gate, work, abort, crashed, ids, aborts,
                     sent, resent, ran, reran, rejected, cut>>
  BY DEF Enqueue, driveVars, ghosts
<1>2. Current' = Current /\ (Alive' <=> Alive)
  BY <1>1, Stays DEF Alive
<1>3. queued' \in 0..MaxQueued
  BY <1>1, Bounds DEF DriveInv, TypeInv
<1>4. TypeInv' /\ GoneInv' /\ CopyInv'
  BY <1>1, <1>2, <1>3 DEF DriveInv, TypeInv, GoneInv, CopyInv
<1>5. HeldInv' /\ LocalInv'
  BY <1>1, <1>2 DEF DriveInv, HeldInv, LocalInv, Running
<1>6. EffectInv'
  BY <1>1, <1>2 DEF DriveInv, EffectInv, Running
<1>7. IdInv' /\ AnswerInv'
  BY <1>1, <1>2 DEF DriveInv, IdInv, AnswerInv, Undisturbed, Running
<1>8. QED
  BY <1>4, <1>5, <1>6, <1>7 DEF DriveInv

LEMMA AbortReadInv ==
  ASSUME DriveInv, AbortRead
  PROVE  DriveInv'
<1>1. /\ mem # NoOp /\ abort' = [at |-> "commit", op |-> mem] /\ aborts' = aborts + 1
      /\ UNCHANGED <<intent, disk, mem, queued, pc, snap, gate, work, crashed, ids,
                     sent, resent, ran, reran, rejected, cut>>
  BY DEF AbortRead, driveVars, ghosts
<1>2. Current' = Current /\ (Alive' <=> Alive)
  BY <1>1, Stays DEF Alive
<1>3. aborts' \in Nat /\ aborts' # 0
  BY <1>1 DEF DriveInv, TypeInv
<1>4. abort' \in [at: {"idle", "commit", "apply", "signal"}, op: States] /\ abort'.op # NoOp
  BY <1>1 DEF DriveInv, TypeInv
<1>5. TypeInv' /\ GoneInv' /\ CopyInv'
  BY <1>1, <1>2, <1>3, <1>4 DEF DriveInv, TypeInv, GoneInv, CopyInv
<1>6. HeldInv' /\ LocalInv'
  BY <1>1, <1>2 DEF DriveInv, HeldInv, LocalInv, Running
<1>7. EffectInv'
  BY <1>1, <1>2 DEF DriveInv, EffectInv, Running
<1>8. IdInv' /\ AnswerInv'
  BY <1>1, <1>2, <1>3 DEF DriveInv, IdInv, AnswerInv, Undisturbed, Running
<1>9. QED
  BY <1>5, <1>6, <1>7, <1>8 DEF DriveInv

(* An abort under way was requested. *)
LEMMA AbortRequested ==
  ASSUME DriveInv, abort.at # "idle"
  PROVE  aborts # 0 /\ ~Undisturbed /\ abort.op \in Operations
<1>1. aborts # 0
  BY DEF DriveInv, CopyInv
<1>2. abort.op \in States /\ abort.op # NoOp
  BY DEF DriveInv, TypeInv
<1>3. QED
  BY <1>1, <1>2, OpParts DEF Undisturbed

LEMMA AbortCommitInv ==
  ASSUME DriveInv, AbortCommit
  PROVE  DriveInv'
<1>1. /\ abort.at = "commit"
      /\ UNCHANGED <<intent, mem, pc, snap, gate, work, crashed, ids, aborts,
                     sent, resent, ran, reran, rejected, cut>>
  BY DEF AbortCommit, driveVars, ghosts
<1>2. Current' = Current /\ (Alive' <=> Alive)
  BY <1>1, Stays DEF Alive
<1>3. aborts' # 0 /\ ~Undisturbed' /\ abort.op \in Operations
  BY <1>1, AbortRequested DEF Undisturbed
<1>4. /\ disk' \in Disks /\ disk'.log = disk.log /\ disk'.result = disk.result
      /\ disk'.op = disk.op \/ (disk.op # NoOp /\ disk'.op # NoOp /\ ~Running(disk'.op))
      /\ queued' \in 0..MaxQueued
      /\ abort' \in [at: {"idle", "commit", "apply", "signal"}, op: States]
      /\ abort'.at # "idle" => abort'.op # NoOp
  <2>2. CASE AbortIdle /\ UNCHANGED <<disk, queued>>
    BY <2>2, DiskParts, NoOpParts DEF AbortIdle, DriveInv, TypeInv
  <2>3. CASE /\ Abortable /\ disk' = [disk EXCEPT !.op = Cancelled(abort.op)] /\ queued' = 0
             /\ abort' = [abort EXCEPT !.at = "apply"]
    <3>1. /\ disk' = [disk EXCEPT !.op = Cancelled(abort.op)] /\ queued' = 0
          /\ abort' = [abort EXCEPT !.at = "apply"] /\ disk.op # NoOp
      BY <2>3 DEF Abortable
    <3>2. Cancelled(abort.op) \in States /\ Cancelled(abort.op) # NoOp /\ Cancelled(abort.op).ctl = "cancel"
      BY <1>3, OpMakes
    <3>3. /\ disk' \in Disks /\ disk'.log = disk.log /\ disk'.result = disk.result
          /\ disk'.op = Cancelled(abort.op)
      BY <3>1, <3>2, DiskParts DEF DriveInv, Disks
    <3>4. /\ abort' \in [at: {"idle", "commit", "apply", "signal"}, op: States]
          /\ abort'.at # "idle" => abort'.op # NoOp
      BY <1>1, <3>1 DEF DriveInv, TypeInv
    <3>5. QED
      BY <3>1, <3>2, <3>3, <3>4, Bounds DEF Running
  <2>4. QED
    BY <2>2, <2>3 DEF AbortCommit
<1>5. TypeInv'
  BY <1>1, <1>4 DEF DriveInv, TypeInv
<1>6. GoneInv' /\ CopyInv'
  BY <1>1, <1>2, <1>3, <1>4 DEF DriveInv, GoneInv, CopyInv
<1>7. HeldInv' /\ LocalInv'
  BY <1>1, <1>2, <1>4 DEF DriveInv, HeldInv, LocalInv, Running
<1>8. EffectInv'
  BY <1>1, <1>2, <1>4 DEF DriveInv, EffectInv, Running
<1>9. IdInv' /\ AnswerInv'
  BY <1>1, <1>2, <1>3, <1>4 DEF DriveInv, IdInv, AnswerInv, Running
<1>10. QED
  BY <1>5, <1>6, <1>7, <1>8, <1>9 DEF DriveInv

LEMMA AbortApplyInv ==
  ASSUME DriveInv, AbortApply
  PROVE  DriveInv'
<1>1. /\ abort.at = "apply" /\ mem' = (IF mem = NoOp THEN NoOp ELSE Cancelled(abort.op))
      /\ abort' = [abort EXCEPT !.at = "signal"]
      /\ UNCHANGED <<intent, disk, queued, pc, snap, gate, work, crashed, ids, aborts,
                     sent, resent, ran, reran, rejected, cut>>
  BY DEF AbortApply, driveVars, ghosts
<1>2. Current' = Current /\ (Alive' <=> Alive)
  BY <1>1, Stays DEF Alive
<1>3. aborts' # 0 /\ ~Undisturbed' /\ abort.op \in Operations
  BY <1>1, AbortRequested DEF Undisturbed
<1>4. mem' \in States /\ (mem' = NoOp <=> mem = NoOp) /\ ~Running(mem')
  BY <1>1, <1>3, OpMakes, NoOpParts DEF Running
<1>5. abort' \in [at: {"idle", "commit", "apply", "signal"}, op: States] /\ abort'.op # NoOp
  BY <1>1 DEF DriveInv, TypeInv
<1>6. TypeInv'
  BY <1>1, <1>4, <1>5 DEF DriveInv, TypeInv
<1>7. GoneInv' /\ CopyInv'
  BY <1>1, <1>2, <1>3, <1>4 DEF DriveInv, GoneInv, CopyInv
<1>8. HeldInv' /\ LocalInv'
  BY <1>1, <1>2, <1>4 DEF DriveInv, HeldInv, LocalInv, Running
<1>9. EffectInv'
  BY <1>1, <1>2, <1>4 DEF DriveInv, EffectInv, Running
<1>10. IdInv' /\ AnswerInv'
  BY <1>1, <1>2, <1>3, <1>4 DEF DriveInv, IdInv, AnswerInv, Running
<1>11. QED
  BY <1>6, <1>7, <1>8, <1>9, <1>10 DEF DriveInv

LEMMA AbortSignalInv ==
  ASSUME DriveInv, AbortSignal
  PROVE  DriveInv'
<1>1. /\ abort.at = "signal" /\ abort' = [at |-> "idle", op |-> NoOp]
      /\ UNCHANGED <<intent, disk, mem, queued, pc, snap, work, crashed, ids, aborts,
                     sent, resent, ran, reran, rejected, cut>>
  BY DEF AbortSignal, AbortIdle
<1>2. Current' = Current /\ (Alive' <=> Alive)
  BY <1>1, Stays DEF Alive
<1>3. aborts' # 0 /\ ~Undisturbed'
  BY <1>1, AbortRequested DEF Undisturbed
<1>4. gate' \in BOOLEAN
  BY Zenon DEF AbortSignal
<1>5. TypeInv'
  BY <1>1, <1>4, NoOpParts DEF DriveInv, TypeInv
<1>6. GoneInv' /\ CopyInv'
  BY <1>1, <1>2, <1>3 DEF DriveInv, GoneInv, CopyInv
<1>7. HeldInv' /\ LocalInv'
  BY <1>1, <1>2 DEF DriveInv, HeldInv, LocalInv, Running
<1>8. EffectInv'
  BY <1>1, <1>2 DEF DriveInv, EffectInv, Running
<1>9. IdInv' /\ AnswerInv'
  BY <1>1, <1>2, <1>3 DEF DriveInv, IdInv, AnswerInv, Running
<1>10. QED
  BY <1>5, <1>6, <1>7, <1>8, <1>9 DEF DriveInv

LEMMA CrashInv ==
  ASSUME DriveInv, Crash
  PROVE  DriveInv'
<1>1. /\ Alive /\ crashed' = crashed + 1 /\ mem' = NoOp /\ snap' = NoOp /\ pc' = "idle" /\ gate' = FALSE
      /\ work' = NoWork /\ abort' = [at |-> "idle", op |-> NoOp]
      /\ UNCHANGED <<intent, queued, aborts, disk, ids, sent, resent, ran, reran, rejected>>
  BY DEF Crash, AbortIdle
<1>0. ~cut' => ~cut /\ pc # "settle"
  BY Zenon DEF Crash
<1>2. crashed \in Nat /\ crashed' \in Nat /\ crashed' # 0
  BY <1>1 DEF DriveInv, TypeInv
<1>3. ~Alive'
  BY <1>1, <1>2, Parity DEF Alive
<1>4. pc' \notin Held /\ pc' \in Positions /\ pc' \notin Together
  BY <1>1, Places, PositionNames DEF Together
<1>5. TypeInv'
  BY <1>1, <1>2, <1>4, NoWorkMakes, NoOpParts DEF DriveInv, TypeInv
<1>6. GoneInv' /\ CopyInv'
  BY <1>1, <1>3 DEF DriveInv, GoneInv, CopyInv
<1>7. HeldInv' /\ LocalInv'
  BY <1>1, <1>4, NoOpParts, FreeLocals DEF DriveInv, HeldInv, Free, Running
<1>8. EffectInv'
  BY <1>1, <1>4, NoOpParts DEF DriveInv, EffectInv, Running
<1>9. AnswerInv'
  BY <1>0, <1>1, <1>4, NoOpParts DEF DriveInv, AnswerInv, Running
<1>10. IdInv'
  <2>1. SUFFICES ASSUME Undisturbed' PROVE IdInv'
    BY DEF IdInv
  <2>2. Undisturbed /\ ~(intent = "compaction" /\ pc = "settle")
    BY <1>0, <1>1, <2>1 DEF Undisturbed
  <2>3. Unused(disk.log, ids, NoOp)
    BY NoOpParts DEF Unused
  <2>4. QED
    BY <1>1, <1>4, <2>2, <2>3, NoOpParts DEF DriveInv, IdInv
<1>11. QED
  BY <1>5, <1>6, <1>7, <1>8, <1>9, <1>10 DEF DriveInv

LEMMA RestoreInv ==
  ASSUME DriveInv, Restore
  PROVE  DriveInv'
<1>1. /\ ~Alive /\ crashed' = crashed + 1
      /\ (mem' = disk.op /\ rejected' = rejected) \/ (rejected' = TRUE /\ mem' = mem)
      /\ UNCHANGED <<intent, queued, abort, aborts, disk, pc, snap, gate, work, ids, sent, resent, ran, reran, cut>>
  BY DEF Restore, driveVars
<1>2. crashed \in Nat /\ crashed' \in Nat /\ crashed' # 0
  BY <1>1 DEF DriveInv, TypeInv
<1>3. pc = "idle" /\ pc' = "idle"
  BY <1>1 DEF DriveInv, GoneInv
<1>4. pc' \notin Held /\ pc' \notin Together
  BY <1>3, Places DEF Together
<1>5. TypeInv'
  BY <1>1, <1>2, DiskParts DEF DriveInv, TypeInv
<1>6. GoneInv' /\ CopyInv'
  BY <1>1, <1>3 DEF DriveInv, GoneInv, CopyInv
<1>7. HeldInv' /\ LocalInv'
  BY <1>1, <1>3, <1>4, FreeLocals DEF DriveInv, HeldInv, Free, Running
<1>8. EffectInv'
  BY <1>1, <1>3, <1>4 DEF DriveInv, EffectInv, Running
<1>9. AnswerInv'
  BY <1>1, <1>3, <1>4 DEF DriveInv, AnswerInv, Running
<1>10. IdInv'
  <2>1. SUFFICES ASSUME Undisturbed' PROVE IdInv'
    BY DEF IdInv
  <2>2. Undisturbed
    BY <1>1, <2>1 DEF Undisturbed
  <2>3. QED
    BY <1>1, <1>3, <1>4, <2>2 DEF DriveInv, IdInv
<1>11. QED
  BY <1>5, <1>6, <1>7, <1>8, <1>9, <1>10 DEF DriveInv

(* An error or a failed commit ends the drive and leaves the operation as it is. *)
LEMMA BreakInv ==
  ASSUME DriveInv, DriveError \/ StoreFails
  PROVE  DriveInv'
<1>1. /\ pc \notin {"idle", "sapply"} /\ pc' = "idle" /\ work' = NoWork
      /\ UNCHANGED <<intent, queued, abort, crashed, aborts, disk, mem, gate, snap, ids,
                     sent, resent, ran, reran, rejected>>
  BY DEF DriveError, StoreFails, Writing, Interruptible, Leave, Lane
<1>2. ~cut' => ~cut /\ pc # "settle"
  BY Zenon DEF DriveError, StoreFails
<1>3. Alive' <=> Alive
  BY <1>1 DEF Alive
<1>4. pc' \notin Held /\ pc' \in Positions /\ pc' \notin Together
  BY <1>1, Places, PositionNames DEF Together
<1>5. TypeInv'
  BY <1>1, <1>4, NoWorkMakes DEF DriveInv, TypeInv
<1>6. GoneInv' /\ CopyInv'
  BY <1>1, <1>3 DEF DriveInv, GoneInv, CopyInv
<1>7. HeldInv' /\ LocalInv'
  BY <1>1, <1>4, FreeLocals DEF DriveInv, HeldInv, Free, Running
<1>8. EffectInv'
  BY <1>1, <1>4 DEF DriveInv, EffectInv, Running
<1>9. AnswerInv'
  BY <1>1, <1>2, <1>4 DEF DriveInv, AnswerInv, Running
<1>10. IdInv'
  <2>1. SUFFICES ASSUME Undisturbed' PROVE IdInv'
    BY DEF IdInv
  <2>2. Undisturbed /\ ~(intent = "compaction" /\ pc = "settle")
    BY <1>1, <1>2, <2>1 DEF Undisturbed
  <2>3. QED
    BY <1>1, <1>4, <2>2 DEF DriveInv, IdInv
<1>11. QED
  BY <1>5, <1>6, <1>7, <1>8, <1>9, <1>10 DEF DriveInv

LEMMA DriveStepInv ==
  ASSUME DriveInv, DriveStep
  PROVE  DriveInv'
<1>1. CoreInv /\ EffectInv /\ IdInv /\ AnswerInv /\ CopyInv
  BY DEF DriveInv, CoreInv
<1>2. DriveKinds
  BY <1>1, DriveStepKinds
<1>3. HeldInv'
  BY <1>1, <1>2, DriveKeepsHeld
<1>4. QED
  BY <1>1, <1>2, <1>3, DriveKeepsTypes, DriveKeepsGone, DriveKeepsLocals, DriveKeepsEffects, DriveKeepsIds,
     DriveKeepsAnswers, DriveKeepsCopies DEF DriveInv

LEMMA NextInv ==
  ASSUME DriveInv, [Next]_vars
  PROVE  DriveInv'
BY StutterInv, DriveActionInv, DriveStepInv, AbortReadInv, AbortCommitInv, AbortApplyInv, AbortSignalInv,
   EnqueueInv, CrashInv, RestoreInv, BreakInv DEF Next, AbortStep

LEMMA DriveInvariant == Spec => []DriveInv
<1>1. Init => DriveInv
  BY InitInv
<1>2. DriveInv /\ [Next]_vars => DriveInv'
  BY NextInv
<1>3. QED
  BY <1>1, <1>2, PTL DEF Spec

-----------------------------------------------------------------------------
(* The theorems. *)

(* The variables of the drive, of the abort and of the durable records have their types. *)
THEOREM DriveTypeCorrect == Spec => []TypeOK
<1>1. DriveInv => TypeOK
  <2>1. SUFFICES ASSUME DriveInv PROVE TypeOK
    OBVIOUS
  <2>2. disk.prep \in BOOLEAN
    BY <2>1 DEF DriveInv, TypeInv, Disks
  <2>3. work.next \in States /\ work.calls \in Batches
    BY <2>1, WorkParts DEF DriveInv, TypeInv
  <2>4. QED
    BY <2>1, <2>2, <2>3, DiskParts DEF DriveInv, TypeInv, TypeOK, States, Batches
<1>2. QED
  BY <1>1, DriveInvariant, PTL

(* No tool call is executed twice and no request is sent twice, whatever crashes, restarts, aborts *)
(* and drives happen in between (run_sequential_tool, execute_parallel_tools,                      *)
(* recover_assistant_effect).                                                                      *)
THEOREM EffectsAtMostOnceHolds == Spec => []EffectsAtMostOnce
<1>1. DriveInv => EffectsAtMostOnce
  BY DEF DriveInv, EffectInv, EffectsAtMostOnce
<1>2. QED
  BY <1>1, DriveInvariant, PTL

(* Without an abort, and unless a drive of a compaction ended between its two commits, no commit of *)
(* a drive offers an id that the log already has, so that none seals the harness (commit_assistant, commit_tool_results,     *)
(* commit_compaction, commit_branch_summary).                                                      *)
THEOREM DuplicatesExplainedHolds == Spec => []DuplicatesExplained
<1>1. ASSUME DriveInv PROVE DuplicatesExplained
  <2>0. TypeInv /\ GoneInv /\ HeldInv /\ LocalInv
    BY <1>1 DEF DriveInv
  <2>1. SUFFICES ASSUME Undisturbed, Committing PROVE ~Duplicate(Offered)
    BY DEF DuplicatesExplained, NoDuplicateCommit, Undisturbed
  <2>2. pc # "recover" /\ (pc \in Held => Unused(disk.log, ids, Current))
    BY <1>1, <2>1 DEF DriveInv, IdInv
  <2>3. ASSUME NEW id, NEW kind, kind # "results", ~Logged(disk.log, id) PROVE ~Duplicate(Entry(id, kind))
    BY <2>3 DEF Duplicate, Place, Entry, Logged
  <2>4. ASSUME NEW id, ~Collected(disk.log, id) PROVE ~Duplicate(Entry(id, "results"))
    BY <2>4 DEF Duplicate, Place, Entry, Collected
  <2>5. CASE pc = "commit"
    <3>1. pc \in Held /\ Current.id = work.id /\ Current.at \in {"effect", "poll"}
      BY <2>0, <2>5, Places, CurrentParts DEF Requesting
    <3>2. work.out # "results" /\ Offered = Entry(work.id, work.out)
      BY <2>0, <2>5 DEF LocalInv, Responses, Offered
    <3>3. QED
      BY <2>2, <2>3, <3>1, <3>2 DEF Unused
  <2>6. CASE pc = "effect"
    <3>1. pc \in Held /\ Current = snap /\ snap.at = "effect"
      BY <2>0, <2>6, Places, CurrentParts DEF Stages
    <3>2. Offered = Entry(snap.id, "interrupted")
      BY <2>6 DEF Offered
    <3>3. QED
      BY <2>2, <2>3, <3>1, <3>2 DEF Unused
  <2>7. CASE pc = "results"
    <3>1. pc \in Held /\ Current.at = "tools" /\ Current.id = snap.id
      BY <2>0, <2>7, BatchNames, BatchFacts DEF CoreInv
    <3>2. Offered = Entry(snap.id, "results")
      BY <2>7 DEF Offered
    <3>3. QED
      BY <2>2, <2>4, <3>1, <3>2 DEF Unused
  <2>8. CASE pc = "scommit"
    <3>1. pc \in Held /\ Current.at = "seffect" /\ Current.id = snap.id
      BY <2>0, <2>8, SummaryNames, CurrentParts
    <3>2. Offered = Entry(snap.id, "summary")
      BY <2>8 DEF Offered
    <3>3. QED
      BY <2>2, <2>3, <3>1, <3>2 DEF Unused
  <2>9. QED
    BY <2>1, <2>2, <2>5, <2>6, <2>7, <2>8 DEF Committing
<1>2. QED
  BY <1>1, DriveInvariant, PTL

(* Without an abort the copy in the lane's memory is the durable operation whenever no drive is    *)
(* under way, after restarts and errors too (transition, restore_session).                         *)
THEOREM MemoryFollowsDiskHolds == Spec => []MemoryFollowsDisk
<1>1. DriveInv => MemoryFollowsDisk
  BY DEF DriveInv, CopyInv, MemoryFollowsDisk
<1>2. QED
  BY <1>1, DriveInvariant, PTL

(* Over crashes, errors and restarts, a run completes only on an answer or on the results of its   *)
(* tools, unless a drive ended between a response and the result that it settles the run with      *)
(* (commit_assistant, commit_tool_results, finish_run_boundary).                                   *)
THEOREM CompletedIsAnsweredHolds == Spec => []CompletedIsAnswered
<1>1. DriveInv => CompletedIsAnswered
  BY DEF DriveInv, AnswerInv, Answered, AnswersOf, CompletedIsAnswered, Answers
<1>2. QED
  BY <1>1, DriveInvariant, PTL

(* An operation that has settled keeps its result and is never written again, by a late abort, a   *)
(* second drive or a restart (settle, request_abort, restore_session).                             *)
THEOREM SettledForGoodHolds == Spec => SettledForGood
<1>1. ASSUME DriveInv, [Next]_vars, disk.result # "none"
      PROVE  disk'.result = disk.result /\ disk'.op = NoOp
  <2>1. disk.op = NoOp /\ pc = "idle"
    BY <1>1 DEF DriveInv, GoneInv
  <2>2. ~DriveStep
    <3>1. SUFFICES ASSUME DriveStep PROVE FALSE
      OBVIOUS
    <3>2. CoreInv
      BY <1>1 DEF DriveInv, CoreInv
    <3>3. Step
      BY <3>1, <3>2, DriveStepKinds, KindTypes
    <3>4. QED
      BY <2>1, <3>3 DEF Step
  <2>3. CASE AbortCommit
    BY <2>1, <2>3 DEF AbortCommit, Abortable
  <2>4. ~(DriveError \/ StoreFails)
    BY <2>1 DEF DriveError, StoreFails, Writing, Interruptible
  <2>5. CASE Drive \/ AbortRead \/ AbortApply \/ AbortSignal \/ Enqueue \/ Crash \/ Restore \/ UNCHANGED vars
    BY <2>1, <2>5 DEF Drive, AbortRead, AbortApply, AbortSignal, Enqueue, Crash, Restore, vars
  <2>6. QED
    BY <1>1, <2>2, <2>3, <2>4, <2>5 DEF Next, AbortStep
<1>2. QED
  BY <1>1, DriveInvariant, PTL DEF Spec, SettledForGood

=============================================================================
