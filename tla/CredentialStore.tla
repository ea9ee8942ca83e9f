--------------------------- MODULE CredentialStore ---------------------------
(***************************************************************************)
(* Processes that share auth.json: crates/pi-ai/src/lockfile.rs (LockGuard,*)
(* a lock directory beside the file) and auth/file_store.rs (a read-modify-*)
(* write under the guard), with the OAuth refresh of auth/resolve.rs as the*)
(* modification that matters most: a refresh token is accepted once.       *)
(*                                                                         *)
(* Every call of the file system is a step.  A lock directory is its inode *)
(* and whether its mtime has gone stale; the refresh thread touches it six *)
(* times in the stale period, so that needs the death of its creator.      *)
(* auth.json exists, as ensure_data_file sees to at the first use.         *)
(***************************************************************************)
EXTENDS Naturals, FiniteSets

CONSTANTS
  Procs,         \* processes
  ReusesInodes,  \* the file system may give a new directory the inode of a removed one
  MaxTokens,     \* bound: refresh tokens the provider hands out
  MaxWrites,     \* bound: writes of the file
  MaxCrashes     \* bound: crashes of processes

Nobody == "nobody"

ASSUME CredentialStoreAssumption ==
  /\ IsFiniteSet(Procs) /\ Nobody \notin Procs
  /\ ReusesInodes \in BOOLEAN
  /\ MaxTokens \in Nat /\ MaxWrites \in Nat /\ MaxCrashes \in Nat

VARIABLES
  dir,      \* the lock directory: its inode (0: none), its creator while alive, stale mtime
  file,     \* auth.json: the refresh token, and the writes it builds on
  proc,     \* each process: where it is, the inode it measured, the one its guard holds open
  cache,    \* the credentials each process serves from memory
  server,   \* the refresh token the provider accepts
  expired,  \* tokens up to this one have expired
  writes,   \* writes begun
  crashes,  \* crashes so far
  \* For the properties only:
  acked,    \* writes reported as done
  lost,     \* a refreshed token never reached the file
  refused,  \* a superseded token was presented
  gap,      \* a reclaim removed a directory made after its second look
  stolen    \* a reclaim removed a live directory that was there at its second look

ghosts == <<acked, lost, refused, gap, stolen>>
world == <<server, expired, writes, crashes>>
vars == <<dir, file, proc, cache, world, ghosts>>

NoDir == [ino |-> 0, by |-> Nobody, stale |-> FALSE]
Idle == [pc |-> "idle", meta |-> 0, ino |-> 0, kind |-> "none", data |-> [token |-> 0, calls |-> {}],
         id |-> 0, late |-> FALSE]

Init ==
  /\ dir = NoDir
  /\ file = [token |-> 1, calls |-> {}]
  /\ proc = [p \in Procs |-> Idle]
  /\ cache = [p \in Procs |-> file]
  /\ server = 1 /\ expired = 0 /\ writes = 0 /\ crashes = 0
  /\ acked = {} /\ lost = FALSE /\ refused = FALSE /\ gap = FALSE /\ stolen = FALSE

At(p, pc) == proc[p].pc = pc
Go(p, pc) == proc' = [proc EXCEPT ![p].pc = pc]
Fail(p) == proc' = [proc EXCEPT ![p] = Idle]

-----------------------------------------------------------------------------
(* Inodes.  A guard's Handle keeps its directory's inode from being used again; metadata that *)
(* a contender has read does not.                                                             *)

Inos == 1..(2 * Cardinality(Procs) + 1)
InUse == {dir.ino} \union {proc[p].ino : p \in Procs}
Remembered == InUse \union {proc[p].meta : p \in Procs}
NewInos ==
  {CHOOSE ino \in Inos : ino \notin Remembered} \union (IF ReusesInodes THEN (Remembered \ InUse) \ {0} ELSE {})

(* Whoever is about to remove the directory has looked at another one. *)
Outdated(procs) ==
  [p \in Procs |-> IF procs[p].pc = "rmdir" THEN [procs[p] EXCEPT !.late = TRUE] ELSE procs[p]]

-----------------------------------------------------------------------------
(* LockGuard::acquire_with and try_create_lock. *)

Call(p, kind) ==
  /\ At(p, "idle")
  /\ kind = "refresh" => cache[p].token <= expired
  /\ proc' = [proc EXCEPT ![p].pc = "create", ![p].kind = kind]
  /\ UNCHANGED <<dir, file, cache, world, ghosts>>

NewDir(p, ino) == [ino |-> ino, by |-> p, stale |-> FALSE]

(* Mutant: an existing directory counts as created. *)
Created_OrThere(p, ino) == dir' = IF dir.ino = 0 THEN NewDir(p, ino) ELSE dir

(* create_dir fails when the directory exists. *)
Created(p, ino) == dir.ino = 0 /\ dir' = NewDir(p, ino)

(* Contention is retried by the caller, or reported once its attempts are used up. *)
Contended(p) ==
  \/ proc' = [proc EXCEPT ![p].pc = "create", ![p].meta = 0]
  \/ Fail(p)

(* Only the first attempt of a chain looks for a stale lock. *)
CreateDir(p) ==
  /\ proc[p].pc \in {"create", "recreate"}
  /\ \/ /\ \E ino \in NewInos : Created(p, ino)
        /\ proc' = Outdated([proc EXCEPT ![p].pc = "identify", ![p].meta = 0])
     \/ /\ dir.ino # 0
        /\ IF At(p, "create") THEN Go(p, "stat") ELSE Contended(p)
        /\ UNCHANGED dir
  /\ UNCHANGED <<file, cache, world, ghosts>>

StatDir(p) ==
  /\ At(p, "stat")
  /\ \/ dir.ino = 0 /\ Go(p, "recreate")
     \/ dir.ino # 0 /\ ~dir.stale /\ Contended(p)
     \/ dir.ino # 0 /\ dir.stale /\ proc' = [proc EXCEPT ![p].pc = "reread", ![p].meta = dir.ino]
  /\ UNCHANGED <<dir, file, cache, world, ghosts>>

(* Mutant: the second look only asks whether there is a directory. *)
SameDirIdentity_Unchecked(p) == dir.ino # 0

(* same_dir_identity compares the device and the inode. *)
SameDirIdentity(p) == dir.ino = proc[p].meta

(* reclaim_stale_lock looks a second time; the mtime is not compared. *)
RereadDir(p) ==
  /\ At(p, "reread")
  /\ \/ dir.ino = 0 /\ Go(p, "recreate")
     \/ dir.ino # 0 /\ SameDirIdentity(p) /\ Go(p, "rmdir")
     \/ dir.ino # 0 /\ ~SameDirIdentity(p) /\ Contended(p)
  /\ UNCHANGED <<dir, file, cache, world, ghosts>>

ReclaimDir(p) ==
  /\ At(p, "rmdir")
  /\ dir' = NoDir
  /\ gap' = (gap \/ (dir.ino # 0 /\ proc[p].late))
  /\ stolen' = (stolen \/ (dir.by # Nobody /\ ~proc[p].late))
  /\ proc' = [proc EXCEPT ![p].pc = "recreate", ![p].late = FALSE]
  /\ UNCHANGED <<file, cache, world, acked, lost, refused>>

(* Handle::from_path opens whatever is at the path; if nothing is, the path is removed. *)
Identify(p) ==
  /\ At(p, "identify")
  /\ \/ dir.ino # 0 /\ proc' = [proc EXCEPT ![p].pc = "owned", ![p].ino = dir.ino]
     \/ dir.ino = 0 /\ Go(p, "teardown")
  /\ UNCHANGED <<dir, file, cache, world, ghosts>>

Teardown(p) ==
  /\ At(p, "teardown")
  /\ dir' = NoDir
  /\ Fail(p)
  /\ UNCHANGED <<file, cache, world, ghosts>>

-----------------------------------------------------------------------------
(* with_lock_async_commit: the lock is checked before the read, before the write and after it. *)

CheckOwnership(p) == dir.ino = proc[p].ino
Compromised(p) == ~CheckOwnership(p) /\ Go(p, "release")

CheckBeforeRead(p) ==
  /\ At(p, "owned")
  /\ \/ CheckOwnership(p) /\ Go(p, "read")
     \/ Compromised(p)
  /\ UNCHANGED <<dir, file, cache, world, ghosts>>

(* Mutant: the modification starts from the credentials in memory. *)
Current_Cached(p) == cache[p]

(* read_data_file: the file as it is under the lock. *)
Current(p) == file

Read(p) ==
  /\ At(p, "read")
  /\ proc' = [proc EXCEPT ![p].pc = "callback", ![p].data = Current(p)]
  /\ UNCHANGED <<dir, file, cache, world, ghosts>>

Writes(p, token) ==
  /\ writes < MaxWrites
  /\ writes' = writes + 1
  /\ proc' = [proc EXCEPT ![p].pc = "check", ![p].id = writes + 1,
                          ![p].data = [token |-> token, calls |-> @.calls \union {writes + 1}]]

(* The authoritative check: the token that was read under the lock has expired. *)
NeedsRefresh(p) == proc[p].data.token <= expired

(* The callback of resolve_stored_oauth. *)
Refresh(p) ==
  /\ At(p, "callback") /\ proc[p].kind = "refresh"
  /\ \/ /\ ~NeedsRefresh(p)
        /\ Go(p, "unchanged")
        /\ UNCHANGED <<server, writes, lost, refused>>
     \/ /\ NeedsRefresh(p) /\ proc[p].data.token = server /\ server < MaxTokens
        /\ server' = server + 1
        /\ \/ Writes(p, server + 1) /\ UNCHANGED lost
           \/ Go(p, "release") /\ lost' = TRUE /\ UNCHANGED writes   \* the answer is lost
        /\ UNCHANGED refused
     \/ /\ NeedsRefresh(p)
        /\ refused' = (refused \/ proc[p].data.token # server)
        /\ Go(p, "release")
        /\ UNCHANGED <<server, writes, lost>>
  /\ UNCHANGED <<dir, file, cache, expired, crashes, acked, gap, stolen>>

(* A login, a logout, or any other modification of another entry; its callback may fail. *)
Modify(p) ==
  /\ At(p, "callback") /\ proc[p].kind = "modify"
  /\ \/ Writes(p, proc[p].data.token)
     \/ Go(p, "release") /\ UNCHANGED writes
  /\ UNCHANGED <<dir, file, cache, server, expired, crashes, ghosts>>

Refreshed(p) == proc[p].pc \in {"check", "write"} /\ proc[p].data.token > file.token

(* Checked when there is nothing to write, too. *)
CheckBeforeWrite(p) ==
  /\ proc[p].pc \in {"check", "unchanged"}
  /\ \/ CheckOwnership(p) /\ Go(p, IF At(p, "check") THEN "write" ELSE "commit")
     \/ Compromised(p)
  /\ UNCHANGED <<dir, file, cache, world, ghosts>>

(* atomic_write renames a temporary file over auth.json, or fails. *)
AtomicWrite(p) ==
  /\ At(p, "write")
  /\ \/ file' = proc[p].data /\ Go(p, "verify") /\ UNCHANGED lost
     \/ Go(p, "release") /\ lost' = (lost \/ Refreshed(p)) /\ UNCHANGED file
  /\ UNCHANGED <<dir, cache, world, acked, refused, gap, stolen>>

CheckAfterWrite(p) ==
  /\ At(p, "verify")
  /\ \/ CheckOwnership(p) /\ Go(p, "commit") /\ acked' = acked \union {proc[p].id}
     \/ Compromised(p) /\ UNCHANGED acked
  /\ UNCHANGED <<dir, file, cache, world, lost, refused, gap, stolen>>

Commit(p) ==
  /\ At(p, "commit")
  /\ cache' = [cache EXCEPT ![p] = proc[p].data]
  /\ Go(p, "release")
  /\ UNCHANGED <<dir, file, world, ghosts>>

-----------------------------------------------------------------------------
(* LockGuard::release_inner: two steps, as still_our_lock and remove_dir are two calls. *)

StillOurLock(p) == dir.ino = proc[p].ino

Release(p) ==
  /\ At(p, "release")
  /\ IF StillOurLock(p) THEN Go(p, "unlink") ELSE Fail(p)
  /\ UNCHANGED <<dir, file, cache, world, ghosts>>

Unlink(p) ==
  /\ At(p, "unlink")
  /\ dir' = NoDir
  /\ proc' = [proc EXCEPT ![p] = Idle]
  /\ UNCHANGED <<file, cache, world, ghosts>>

-----------------------------------------------------------------------------
(* The environment. *)

Expire ==
  /\ expired < server
  /\ expired' = expired + 1
  /\ UNCHANGED <<dir, file, proc, cache, server, writes, crashes, ghosts>>

Age ==
  /\ dir.ino # 0 /\ dir.by = Nobody /\ ~dir.stale
  /\ dir' = [dir EXCEPT !.stale = TRUE]
  /\ UNCHANGED <<file, proc, cache, world, ghosts>>

(* The process dies and is started again; FileCredentialStore::new loads its cache. *)
Crash(p) ==
  /\ crashes < MaxCrashes /\ ~At(p, "idle")
  /\ crashes' = crashes + 1
  /\ lost' = (lost \/ Refreshed(p))
  /\ dir' = IF dir.by = p THEN [dir EXCEPT !.by = Nobody] ELSE dir
  /\ proc' = [proc EXCEPT ![p] = Idle]
  /\ cache' = [cache EXCEPT ![p] = file]
  /\ UNCHANGED <<file, server, expired, writes, acked, refused, gap, stolen>>

Step(p) ==
  \/ CreateDir(p) \/ StatDir(p) \/ RereadDir(p) \/ ReclaimDir(p) \/ Identify(p)
  \/ Teardown(p) \/ CheckBeforeRead(p) \/ Read(p) \/ Refresh(p) \/ Modify(p)
  \/ CheckBeforeWrite(p) \/ AtomicWrite(p) \/ CheckAfterWrite(p) \/ Commit(p) \/ Release(p) \/ Unlink(p)

Next ==
  \/ \E p \in Procs : Step(p) \/ Crash(p) \/ \E kind \in {"refresh", "modify"} : Call(p, kind)
  \/ Expire \/ Age

Spec == Init /\ [][Next]_vars

-----------------------------------------------------------------------------
(* Properties. *)

(* A reclaim removes the directory of a dead process and spares a fresh replacement, except   *)
(* one made between its second look and the removal (try_create_lock, reclaim_stale_lock).    *)
FreshLockSpared == ~stolen

(* No process presents a refresh token the provider has superseded, unless the answer to a    *)
(* refresh never reached the file, or a lock was removed in that gap (resolve_stored_oauth).  *)
TokenUsedOnce == refused => lost \/ gap

(* A write that was reported as done is in the file, and in everything written since, unless  *)
(* a lock was removed in that gap (with_lock_async_commit).                                   *)
AckedSurvives == gap \/ acked \subseteq file.calls

=============================================================================
