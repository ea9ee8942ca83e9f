----------------------------- MODULE HarnessLane -----------------------------
(***************************************************************************)
(* A lane of the durable harness: crates/pi-agent/src/harness/runtime/     *)
(* admission.rs and lane.rs, with drain_inbox and settle of drive.rs.      *)
(*                                                                         *)
(* LaneState (the current and the last operation and the inbox) is stored  *)
(* under the session's mutation permit and copied in LaneData under the    *)
(* lane's data lock.  Queue operations, admissions and aborts read the     *)
(* store, commit, and converge the copy in a later step; appends, drains   *)
(* and settlements hold the data lock and write the store from the copy.   *)
(* Entries are the ids reserved for them, in the order of reservation;     *)
(* their contents do not matter.  Operations are runs: a compaction or a   *)
(* navigation is admitted by the same reservation, without an entry and    *)
(* without a selection from the inbox.  The state of the open operation is *)
(* the business of HarnessDrive.                                           *)
(***************************************************************************)
EXTENDS Naturals, SequencesExt, FiniteSets

CONSTANTS
  Clients,     \* tasks that hold the lane
  Kinds,       \* InboxItemKind of what they queue: "steer", "follow", "next"
  OneAtATime,  \* QueueMode::OneAtATime, for both queues
  Reuse,       \* clients may ask for the id of an operation that has existed
  MaxEntries,  \* bound: entry ids reserved
  MaxOps,      \* bound: operations
  MaxWork,     \* bound: entries and operations together
  MaxWaits,    \* bound: calls of wait_for_idle at a time, 0 or 1
  MaxCrashes   \* bound: crashes of the process

ASSUME HarnessLaneAssumption ==
  /\ Kinds \subseteq {"steer", "follow", "next"}
  /\ OneAtATime \in BOOLEAN /\ Reuse \in BOOLEAN
  /\ MaxEntries \in Nat /\ MaxOps \in Nat /\ MaxWork \in Nat
  /\ MaxWaits \in 0..1 /\ MaxCrashes \in Nat

VARIABLES
  disk,     \* the session: lane state, pending payloads, branch, operation records, results
  mem,      \* LaneData: the copy of the lane state, the operation (0: none), the branch tip
  client,   \* what each task is in the middle of
  drive,    \* active_drive: "none", "driving", or "ending" (it has nothing more to do)
  driven,   \* the operation it drives
  owed,     \* drives that have cleared active_drive and not yet looked for idle waiters
  waiter,   \* a wait_for_idle call: "out", "armed", "seen", "asleep"
  woken,    \* idle has notified since the waiter's future was created
  sealed,   \* the harness has faulted
  down,     \* the process is not running
  crashes,  \* crashes so far
  entries,  \* entry ids reserved so far
  \* For the properties only:
  gone,     \* entries cancelled, or returned to the caller of an abort
  forked,   \* an entry was committed with a parent other than the tip
  undone,   \* an admission has been undone
  early     \* a drive has begun while an admission was under way

locals == <<client, drive, driven, owed, waiter, woken>>
faults == <<sealed, down, crashes>>
ghosts == <<gone, forked, undone, early>>
vars == <<disk, mem, locals, faults, entries, ghosts>>

Entries == 1..MaxEntries
Ops == 1..MaxOps

-----------------------------------------------------------------------------
(* LaneState, and its update in memory. *)

Item(id, kind) == [id |-> id, kind |-> kind]
LaneState(cur, last, inbox) == [cur |-> cur, last |-> last, inbox |-> inbox]
Ids(items) == {items[k].id : k \in DOMAIN items}

(* The items at some positions, in their order. *)
Nth(ks, n) == CHOOSE k \in ks : Cardinality({j \in ks : j <= k}) = n
ItemsAt(items, ks) == [n \in 1..Cardinality(ks) |-> items[Nth(ks, n)]]

Without(inbox, ids) == ItemsAt(inbox, {k \in DOMAIN inbox : inbox[k].id \notin ids})
Listed(items, inbox) == ItemsAt(items, {k \in DOMAIN items : items[k].id \in Ids(inbox)})

(* Memory follows a commit only while it still is the state the commit was based on. *)
Converged(base, next) == IF mem.lane = base THEN next ELSE mem.lane

(* select_inbox. *)
First(inbox, k) == \A j \in 1..(k - 1) : inbox[j].kind # inbox[k].kind
Eligible(inbox, k) == inbox[k].kind \in {"write", "next"} \/ ~OneAtATime \/ First(inbox, k)
Selected(inbox) == ItemsAt(inbox, {k \in DOMAIN inbox : Eligible(inbox, k)})

Tip(log) == IF log = <<>> THEN 0 ELSE Last(log)
IdsOf(items) == [k \in DOMAIN items |-> items[k].id]

(* Entries committed after the given parent; the store accepts any parent it knows. *)
Commit(lane, pending, log) ==
  disk' = [disk EXCEPT !.lane = lane, !.pending = pending, !.log = @ \o log]
Follows(parent) == forked' = (forked \/ parent # Tip(disk.log))

(* Mutant: a payload that is not in the store is not noticed. *)
Missing_Ignored(ids) == FALSE

(* read_pending: an error for an id whose payload is not in the store. *)
Missing(ids) == ~(ids \subseteq disk.pending)

Idle == [at |-> "idle"]
Working(c, at) == client[c].at = at
Up == ~down
Open == Up /\ ~sealed
(* ensure_open is checked before the call waits for a lock: a call that is past it when the   *)
(* harness faults goes on.                                                                    *)
Calls(c) == Up /\ ((Working(c, "idle") /\ ~sealed) \/ Working(c, "late"))
(* The operations that the store knows of. *)
Known == disk.ops \union disk.results
Room(n) == entries < MaxEntries /\ entries + Cardinality(Known) + n <= MaxWork
Notify == woken' = (waiter # "out")

Init ==
  /\ disk = [lane |-> LaneState(0, 0, <<>>), pending |-> {}, log |-> <<>>,
             ops |-> {}, metas |-> {}, cancelled |-> {}, results |-> {}]
  /\ mem = [lane |-> disk.lane, op |-> 0, tip |-> 0]
  /\ client = [c \in Clients |-> Idle]
  /\ drive = "none" /\ driven = 0 /\ owed = FALSE /\ waiter = "out" /\ woken = FALSE
  /\ sealed = FALSE /\ down = FALSE /\ crashes = 0
  /\ entries = 0 /\ gone = {} /\ forked = FALSE /\ undone = FALSE /\ early = FALSE

-----------------------------------------------------------------------------
(* Queueing.  The permit makes the read of the base and the commit one step. *)

Enqueue(c, kind) ==
  /\ Calls(c) /\ Room(1)
  /\ LET id == entries + 1
         next == [disk.lane EXCEPT !.inbox = Append(@, Item(id, kind))]
     IN /\ entries' = id
        /\ Commit(next, disk.pending \union {id}, <<>>)
        /\ client' = [client EXCEPT ![c] = [at |-> "apply", base |-> disk.lane, next |-> next]]
  /\ UNCHANGED <<mem, drive, driven, owed, waiter, woken, faults, gone, forked, undone, early>>

(* An id that is not in the durable inbox changes nothing. *)
CancelQueued(c, id) ==
  /\ Calls(c) /\ id \in Ids(disk.lane.inbox)
  /\ LET next == [disk.lane EXCEPT !.inbox = Without(@, {id})]
     IN /\ Commit(next, disk.pending \ {id}, <<>>)
        /\ client' = [client EXCEPT ![c] = [at |-> "apply", base |-> disk.lane, next |-> next]]
  /\ gone' = gone \union {id}
  /\ UNCHANGED <<mem, drive, driven, owed, waiter, woken, faults, entries, forked, undone, early>>

Apply(c) ==
  /\ Up /\ Working(c, "apply")
  /\ mem' = [mem EXCEPT !.lane = Converged(client[c].base, client[c].next)]
  /\ client' = [client EXCEPT ![c] = Idle]
  /\ UNCHANGED <<disk, drive, driven, owed, waiter, woken, faults, entries, ghosts>>

(* append_message, append_custom: queued as a write while an operation is open, an entry of *)
(* the branch otherwise.  The data lock is held throughout.                                 *)
AppendMessage(c) ==
  /\ Calls(c) /\ Room(1)
  /\ entries' = entries + 1
  /\ \/ /\ mem.op # 0
        /\ LET next == [mem.lane EXCEPT !.inbox = Append(@, Item(entries + 1, "write"))] IN
           /\ Commit(next, disk.pending \union {entries + 1}, <<>>)
           /\ mem' = [mem EXCEPT !.lane = next]
        /\ UNCHANGED forked
     \/ /\ mem.op = 0
        /\ Commit(disk.lane, disk.pending, <<entries + 1>>)
        /\ mem' = [mem EXCEPT !.tip = entries + 1]
        /\ Follows(mem.tip)
  /\ client' = [client EXCEPT ![c] = Idle]
  /\ UNCHANGED <<drive, driven, owed, waiter, woken, faults, gone, undone, early>>

-----------------------------------------------------------------------------
(* Admission. *)

(* Mutant: the reservation is kept to the admission itself. *)
Reserved_Unpublished(c) == mem

(* The reservation is published before the data lock is released. *)
Reserved(c) == [mem EXCEPT !.op = client'[c].op]

(* accept_run selects from the copy of the inbox. *)
Accept(c, op) ==
  /\ Open /\ Working(c, "idle") /\ mem.op = 0 /\ Room(2)
  /\ op \in (IF Reuse THEN Known ELSE {}) \union {Cardinality(Known) + 1}
  /\ client' = [client EXCEPT ![c] =
       [at |-> "admit", op |-> op, tip |-> mem.tip, selected |-> Selected(mem.lane.inbox)]]
  /\ mem' = Reserved(c)
  /\ UNCHANGED <<disk, drive, driven, owed, waiter, woken, faults, entries, ghosts>>

OperationIdUsed(op) == op \in Known

Admit(c) ==
  /\ Up /\ Working(c, "admit")
  /\ LET a == client[c]
         base == disk.lane
         chosen == Listed(a.selected, base.inbox)
         prompt == entries + 1
         next == LaneState(a.op, base.last, Without(base.inbox, Ids(chosen)))
     IN \/ /\ OperationIdUsed(a.op) \/ Missing(Ids(chosen))
           /\ client' = [client EXCEPT ![c].at = "undo"]
           /\ UNCHANGED <<disk, entries, forked>>
        \/ /\ ~OperationIdUsed(a.op) /\ ~Missing(Ids(chosen))
           /\ Room(2)
           /\ disk' = [disk EXCEPT !.lane = next, !.pending = @ \ Ids(chosen),
                                   !.log = Append(@ \o IdsOf(chosen), prompt),
                                   !.ops = @ \union {a.op}, !.metas = @ \union {a.op}]
           /\ entries' = prompt
           /\ Follows(a.tip)
           /\ client' = [client EXCEPT ![c] =
                [at |-> "admitted", op |-> a.op, base |-> base, next |-> next, tip |-> prompt]]
  /\ UNCHANGED <<mem, drive, driven, owed, waiter, woken, faults, gone, undone, early>>

(* A sealed lane, or one whose reservation is gone, rejects the admission it has committed. *)
Admitted(c) ==
  /\ Up /\ Working(c, "admitted")
  /\ LET a == client[c] IN
     mem' = IF sealed \/ mem.op # a.op THEN mem
            ELSE [lane |-> Converged(a.base, a.next), op |-> a.op, tip |-> a.tip]
  /\ client' = [client EXCEPT ![c] = Idle]
  /\ UNCHANGED <<disk, drive, driven, owed, waiter, woken, faults, entries, ghosts>>

(* undo_pending_admission wakes the waiters of state_changed. *)
UndoPendingAdmission(c) ==
  /\ Up /\ Working(c, "undo")
  /\ mem' = [mem EXCEPT !.op = IF @ = client[c].op THEN 0 ELSE @]
  /\ undone' = TRUE
  /\ client' = [client EXCEPT ![c] = Idle]
  /\ UNCHANGED <<disk, drive, driven, owed, waiter, woken, faults, entries, gone, forked, early>>

-----------------------------------------------------------------------------
(* request_abort: the durable state decides, steering and follow-ups are drained. *)

RequestAbort(c) ==
  /\ Calls(c) /\ mem.op # 0
  /\ client' = [client EXCEPT ![c] = [at |-> "abort", op |-> mem.op]]
  /\ UNCHANGED <<disk, mem, drive, driven, owed, waiter, woken, faults, entries, ghosts>>

(* Only an operation whose records are in the store and not yet cancelled. *)
Abortable(op) == op \in disk.ops \ disk.cancelled

CommitAbort(c) ==
  /\ Up /\ Working(c, "abort")
  /\ LET op == client[c].op
         base == disk.lane
         drained == {i.id : i \in {j \in Range(base.inbox) : j.kind \in {"steer", "follow"}}}
         next == LaneState(op, base.last, Without(base.inbox, drained))
     IN \/ /\ ~Abortable(op) \/ Missing(drained)
           /\ client' = [client EXCEPT ![c] = Idle]
           /\ UNCHANGED <<disk, gone>>
        \/ /\ Abortable(op) /\ ~Missing(drained)
           /\ disk' = [disk EXCEPT !.lane = next, !.pending = @ \ drained,
                                   !.cancelled = @ \union {op}]
           /\ gone' = gone \union drained
           /\ client' = [client EXCEPT ![c] = [at |-> "apply", base |-> base, next |-> next]]
  /\ UNCHANGED <<mem, drive, driven, owed, waiter, woken, faults, entries, forked, undone, early>>

-----------------------------------------------------------------------------
(* The drive.  Whoever calls it has the id of the current operation, which abort() and a caller *)
(* of execution_info may find while the admission that reserved it is still under way.          *)

Accepting == \E c \in Clients : client[c].at \in {"admit", "admitted", "undo"}

DriveStart ==
  /\ Open /\ drive = "none" /\ mem.op # 0
  /\ drive' = "driving" /\ driven' = mem.op
  /\ early' = (early \/ Accepting)
  /\ UNCHANGED <<disk, mem, client, owed, waiter, woken, faults, entries, gone, forked, undone>>

(* A step under way when the harness faults may still commit; it is the last.  A drive whose   *)
(* operation is no longer the current one may take some more steps before it looks again.      *)
Driving == Up /\ drive = "driving"
GoesOn == drive' = IF sealed THEN "ending" ELSE "driving"

(* start_run refuses a lane without a tip.  What follows its transition finds the operation's *)
(* state in the store, from there if not from the admission.                                  *)
Begun == driven \in disk.ops /\ mem.tip # 0

Transition ==
  /\ Driving
  /\ \/ /\ mem.op = driven /\ mem.tip # 0
        /\ disk' = [disk EXCEPT !.ops = @ \union {driven}]
        /\ GoesOn
     \/ (mem.op # driven \/ mem.tip = 0) /\ drive' = "ending" /\ UNCHANGED disk
  /\ UNCHANGED <<mem, client, driven, owed, waiter, woken, faults, entries, ghosts>>

(* drain_inbox works from memory; a missing payload ends the drive with an error. *)
DrainInbox ==
  /\ Driving /\ Begun
  /\ LET chosen == Selected(mem.lane.inbox)
         next == LaneState(driven, mem.lane.last, Without(mem.lane.inbox, Ids(chosen)))
     IN /\ chosen # <<>>
        /\ \/ /\ ~Missing(Ids(chosen))
              /\ Commit(next, disk.pending \ Ids(chosen), IdsOf(chosen))
              /\ Follows(mem.tip)
              /\ mem' = [mem EXCEPT !.lane = next, !.tip = Last(IdsOf(chosen))]
              /\ GoesOn
           \/ /\ Missing(Ids(chosen))
              /\ drive' = "ending"
              /\ UNCHANGED <<disk, mem, forked>>
  /\ UNCHANGED <<client, driven, owed, waiter, woken, faults, entries, gone, undone, early>>

(* A response or the results of tools, committed at the tip of the copy. *)
Respond ==
  /\ Driving /\ Begun /\ Room(1)
  /\ entries' = entries + 1
  /\ Commit(disk.lane, disk.pending, <<entries + 1>>)
  /\ Follows(mem.tip)
  /\ mem' = [mem EXCEPT !.tip = entries + 1]
  /\ GoesOn
  /\ UNCHANGED <<client, driven, owed, waiter, woken, faults, gone, undone, early>>

Settle ==
  /\ Driving /\ Begun
  /\ LET next == LaneState(0, driven, mem.lane.inbox) IN
     /\ disk' = [disk EXCEPT !.lane = next, !.ops = @ \ {driven}, !.metas = @ \ {driven},
                             !.cancelled = @ \ {driven}, !.results = @ \union {driven}]
     /\ mem' = [mem EXCEPT !.lane = next, !.op = 0]
  /\ drive' = "ending"
  /\ Notify
  /\ UNCHANGED <<client, driven, owed, waiter, faults, entries, ghosts>>

(* The drive returns: active_drive is cleared, and idle waiters are woken if nothing is open. *)
DriveReturn ==
  /\ Up /\ drive # "none"
  /\ drive' = "none" /\ driven' = 0 /\ owed' = TRUE
  /\ UNCHANGED <<disk, mem, client, waiter, woken, faults, entries, ghosts>>

(* Mutant: only settlements wake the waiters, the return of a drive does not. *)
WakesIdle_SettleOnly == UNCHANGED woken

(* The check at the end of drive. *)
WakesIdle == IF mem.op = 0 THEN Notify ELSE UNCHANGED woken

NotifyIdle ==
  /\ Up /\ owed
  /\ owed' = FALSE
  /\ WakesIdle
  /\ UNCHANGED <<disk, mem, client, drive, driven, waiter, faults, entries, ghosts>>

-----------------------------------------------------------------------------
(* wait_for_idle. *)

Waits(at) == Up /\ waiter = at /\ UNCHANGED <<disk, mem, client, drive, driven, owed, faults, entries, ghosts>>

WaitArm == Waits("out") /\ ~sealed /\ MaxWaits = 1 /\ waiter' = "armed" /\ woken' = FALSE

Reads(at) == waiter' = at /\ UNCHANGED woken

(* The future was created before the reads: a notification since then is not lost. *)
WaitReadOperation ==
  /\ Waits("armed")
  /\ \/ sealed /\ Reads("out")
     \/ ~sealed /\ mem.op = 0 /\ Reads("seen")
     \/ ~sealed /\ mem.op # 0 /\ Reads("asleep")

WaitReadDrive ==
  /\ Waits("seen")
  /\ \/ drive = "none" /\ Reads("out")
     \/ drive # "none" /\ Reads("asleep")

WaitWake == Waits("asleep") /\ woken /\ waiter' = "armed" /\ woken' = FALSE

-----------------------------------------------------------------------------
(* Faults, crashes and restarts. *)

(* A commit fails in the storage: nothing is written, every lane is sealed and woken. *)
Fault ==
  /\ Open
  /\ sealed' = TRUE
  /\ \E late \in SUBSET {c \in Clients : Working(c, "idle")} :
       client' = [c \in Clients |-> IF c \in late THEN [at |-> "late"] ELSE client[c]]
  /\ Notify
  /\ UNCHANGED <<disk, mem, drive, driven, owed, waiter, down, crashes, entries, ghosts>>

Crash ==
  /\ Up /\ crashes < MaxCrashes
  /\ crashes' = crashes + 1 /\ down' = TRUE
  /\ client' = [c \in Clients |-> Idle]
  /\ drive' = "none" /\ driven' = 0 /\ owed' = FALSE /\ waiter' = "out" /\ woken' = FALSE
  /\ UNCHANGED <<disk, mem, sealed, entries, ghosts>>

(* restore_session, for a lane whose records are there. *)
Restore ==
  /\ down /\ disk.lane.cur \in (disk.ops \intersect disk.metas) \union {0}
  /\ down' = FALSE /\ sealed' = FALSE
  /\ mem' = [lane |-> disk.lane, op |-> disk.lane.cur, tip |-> Tip(disk.log)]
  /\ UNCHANGED <<disk, locals, crashes, entries, ghosts>>

-----------------------------------------------------------------------------
Request(c) ==
  \/ \E kind \in Kinds : Enqueue(c, kind)
  \/ \E id \in Entries : CancelQueued(c, id)
  \/ AppendMessage(c)
  \/ \E op \in Ops : Accept(c, op)
  \/ RequestAbort(c)

Finish(c) == Apply(c) \/ Admit(c) \/ Admitted(c) \/ UndoPendingAdmission(c) \/ CommitAbort(c)
Driver == Transition \/ DrainInbox \/ Respond \/ Settle \/ DriveReturn
Waiter == WaitReadOperation \/ WaitReadDrive \/ WaitWake

Next ==
  \/ \E c \in Clients : Request(c) \/ Finish(c)
  \/ DriveStart \/ Driver \/ NotifyIdle
  \/ WaitArm \/ Waiter
  \/ Fault \/ Crash \/ Restore

Spec == Init /\ [][Next]_vars

-----------------------------------------------------------------------------
(* Properties. *)

OnBranch == Range(disk.log)

(* Whatever races, faults and crashes happen between enqueue, cancel_queued, append_message,  *)
(* request_abort, commit_run and drain_inbox, the payload of a message is in one place: it is *)
(* pending, or an entry of the branch, once, or was handed back to a caller; and an entry     *)
(* never has its payload still pending.                                                       *)
ExactlyOnce ==
  /\ 1..entries \subseteq disk.pending \union OnBranch \union gone
  /\ disk.pending \intersect (OnBranch \union gone) = {}
  /\ IsInjective(disk.log)

(* The branch stays a chain: the tips that admissions, drains, responses and appends commit   *)
(* below, all read before the wait for the permit, are never stale, unless somebody has driven *)
(* an operation whose admission was still under way.                                          *)
NeverForks == forked => early

(* "the entry lands at the current tip" (append_run_follow_up): nothing is committed below    *)
(* another entry than the last one.                                                           *)
LandsAtTip == ~forked

(* wait_for_idle sleeps without a wake-up only while an operation, a drive or a returning     *)
(* drive is there to wake it, or an admission has been undone.                                *)
NoLostIdle ==
  Open /\ waiter = "asleep" /\ ~woken => mem.op # 0 \/ drive # "none" \/ owed \/ undone

(* What is queued stays in the durable inbox until it is consumed, as enqueue says of commits *)
(* that chain onto the latest state.                                                          *)
QueuedIsListed == disk.pending \subseteq Ids(disk.lane.inbox)

(* An operation whose records are in the store is the one the lane's pointer names, so that a *)
(* restart finds it.                                                                          *)
OpenIsNamed == disk.ops \subseteq {disk.lane.cur}

=============================================================================
