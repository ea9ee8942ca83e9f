------------------------ MODULE CredentialStoreProofs ------------------------
(* Theorems about CredentialStore for every set of processes and every bound. *)
EXTENDS CredentialStore, FiniteSetTheorems, FunctionTheorems, TLAPS

(* Between the guard's construction and its release. *)
Guarded == {"owned", "read", "callback", "check", "unchanged", "write", "verify", "commit", "release", "unlink"}

(* From the creation of the directory on. *)
Owning == Guarded \union {"identify"}

(* The modification is under way: the callback has returned what to write. *)
Writing == {"check", "write"}

(* A contender that has measured a stale directory. *)
Reclaiming == {"reread", "rmdir"}

Positions == Owning \union Reclaiming \union {"idle", "create", "recreate", "stat", "teardown"}

Credentials == [token: Nat, calls: SUBSET Nat]
Process == [pc: Positions, meta: Nat, ino: Nat, kind: {"none", "refresh", "modify"}, data: Credentials,
            id: Nat, late: BOOLEAN]

(* Every variable but the four flags of the history has its type. *)
TypeOK ==
  /\ dir \in [ino: Nat, by: Procs \union {Nobody}, stale: BOOLEAN]
  /\ file \in Credentials
  /\ proc \in [Procs -> Process]
  /\ cache \in [Procs -> Credentials]
  /\ server \in Nat /\ expired \in Nat /\ writes \in Nat /\ crashes \in Nat
  /\ acked \subseteq Nat

(* What is known of the directory, and of a contender that is about to remove it: it has      *)
(* looked at the directory of a dead process, and what is there now, if it is not outdated,   *)
(* is still that one.                                                                         *)
DirInv ==
  /\ dir.ino = 0 => dir.by = Nobody
  /\ dir.stale => dir.by = Nobody
  /\ \A p \in Procs : proc[p].late => proc[p].pc = "rmdir"

ReclaimInv ==
  \A p \in Procs :
    /\ proc[p].pc \in Reclaiming => proc[p].meta # 0 /\ (dir.ino = proc[p].meta => dir.by = Nobody)
    /\ proc[p].pc = "rmdir" /\ ~proc[p].late => dir.ino \in {0, proc[p].meta}

(* While no lock was taken away, whoever is past the creation owns the directory that is there. *)
OwnInv ==
  ~gap /\ ~stolen =>
    \A p \in Procs :
      /\ proc[p].pc # "teardown"
      /\ proc[p].pc \in Owning => dir.by = p
      /\ proc[p].pc \in Guarded => proc[p].ino = dir.ino

(* And nobody else changes the file between its read and its write. *)
FileInv ==
  ~gap /\ ~stolen =>
    /\ acked \subseteq file.calls
    /\ \A p \in Procs :
         /\ proc[p].pc = "callback" => proc[p].data = file
         /\ proc[p].pc \in Writing => file.calls \subseteq proc[p].data.calls /\ proc[p].id \in proc[p].data.calls
         /\ proc[p].pc = "verify" => proc[p].id \in file.calls

(* The file has the provider's token, or the owner is about to write it. *)
TokenBound == file.token <= server /\ \A p \in Procs : proc[p].data.token <= server

TokenInv ==
  ~gap /\ ~stolen /\ ~lost =>
    /\ ~refused
    /\ \A p \in Procs : proc[p].pc \in Writing => proc[p].data.token = server
    /\ file.token = server \/ \E p \in Procs : proc[p].pc \in Writing

-----------------------------------------------------------------------------
(* Types. *)

(* A new directory's inode is one that nobody remembers, unless the file system reuses them. *)
LEMMA FreshInode ==
  ASSUME TypeOK, dir.ino = 0
  PROVE  (CHOOSE ino \in Inos : ino \notin Remembered) \in Inos \ Remembered
<1> DEFINE Held == {proc[p].ino : p \in Procs}
           Measured == {proc[p].meta : p \in Procs}
           n == Cardinality(Procs)
           held == [p \in Procs |-> proc[p].ino]
           measured == [p \in Procs |-> proc[p].meta]
<1>1. IsFiniteSet(Procs) /\ n \in Nat
  BY CredentialStoreAssumption, FS_CardinalityType
<1>2. IsFiniteSet(Held) /\ Cardinality(Held) <= n
  <2>1. held \in Surjection(Procs, Held)
    BY DEF Surjection
  <2>2. QED
    BY <1>1, <2>1, FS_Surjection
<1>3. IsFiniteSet(Measured) /\ Cardinality(Measured) <= n
  <2>1. measured \in Surjection(Procs, Measured)
    BY DEF Surjection
  <2>2. QED
    BY <1>1, <2>1, FS_Surjection
<1>4. Cardinality(Held) \in Nat /\ Cardinality(Measured) \in Nat
  BY <1>2, <1>3, FS_CardinalityType
<1>5. IsFiniteSet(Held \union Measured) /\ Cardinality(Held \union Measured) <= 2 * n
  <2>1. /\ IsFiniteSet(Held \union Measured) /\ IsFiniteSet(Held \cap Measured)
        /\ Cardinality(Held \union Measured)
             = Cardinality(Held) + Cardinality(Measured) - Cardinality(Held \cap Measured)
    BY <1>2, <1>3, FS_Union, FS_Intersection
  <2>2. Cardinality(Held \cap Measured) \in Nat /\ Cardinality(Held \union Measured) \in Nat
    BY <2>1, FS_CardinalityType
  <2>3. QED
    BY <1>1, <1>2, <1>3, <1>4, <2>1, <2>2
<1>6. IsFiniteSet(Inos) /\ Cardinality(Inos) = 2 * n + 1
  BY <1>1, FS_Interval DEF Inos
<1>7. ~(Inos \subseteq Held \union Measured)
  <2> SUFFICES ASSUME Inos \subseteq Held \union Measured PROVE FALSE
    OBVIOUS
  <2>1. Cardinality(Inos) <= Cardinality(Held \union Measured)
    BY <1>5, FS_Subset
  <2>2. Cardinality(Held \union Measured) \in Nat
    BY <1>5, FS_CardinalityType
  <2>3. QED
    BY <1>1, <1>5, <1>6, <2>1, <2>2
<1>8. PICK ino \in Inos : ino \notin Held \union Measured
  BY <1>7
<1>9. ino # 0
  BY <1>1 DEF Inos
<1>10. ino \notin Remembered
  BY <1>8, <1>9 DEF Remembered, InUse
<1>11. QED
  BY <1>10

LEMMA NewInosType ==
  ASSUME TypeOK, dir.ino = 0, NEW ino \in NewInos
  PROVE  ino \in Nat /\ ino # 0 /\ (~ReusesInodes => ino \notin Remembered)
<1>1. Cardinality(Procs) \in Nat
  BY CredentialStoreAssumption, FS_CardinalityType
<1>2. CASE ino = CHOOSE i \in Inos : i \notin Remembered
  BY <1>1, <1>2, FreshInode DEF Inos
<1>3. CASE ReusesInodes /\ ino \in (Remembered \ InUse) \ {0}
  BY <1>3 DEF Remembered, InUse, TypeOK, Process
<1>4. QED
  BY <1>2, <1>3 DEF NewInos

(* The names of the positions. *)
LEMMA PositionNames ==
  /\ "idle" \in Positions /\ "create" \in Positions /\ "recreate" \in Positions /\ "stat" \in Positions
  /\ "reread" \in Positions /\ "rmdir" \in Positions /\ "identify" \in Positions /\ "teardown" \in Positions
  /\ "owned" \in Positions /\ "read" \in Positions /\ "callback" \in Positions /\ "check" \in Positions
  /\ "unchanged" \in Positions /\ "write" \in Positions /\ "verify" \in Positions /\ "commit" \in Positions
  /\ "release" \in Positions /\ "unlink" \in Positions
BY DEF Positions, Owning, Guarded, Reclaiming

(* The locals of a process that is not in a call. *)
LEMMA IdleType == Idle \in Process
BY PositionNames DEF Idle, Process, Credentials

(* The modification that a callback returns. *)
LEMMA WritesType ==
  ASSUME TypeOK, NEW p \in Procs, NEW token \in Nat, Writes(p, token)
  PROVE  proc' \in [Procs -> Process] /\ writes' \in Nat
<1>1. [token |-> token, calls |-> proc[p].data.calls \union {writes + 1}] \in Credentials
  BY DEF TypeOK, Process, Credentials
<1>2. proc' = [proc EXCEPT ![p].pc = "check", ![p].id = writes + 1,
                 ![p].data = [token |-> token, calls |-> proc[p].data.calls \union {writes + 1}]]
  BY DEF TypeOK, Process, Writes
<1>3. writes \in Nat /\ writes + 1 \in Nat /\ "check" \in Positions
  BY PositionNames DEF TypeOK
<1> DEFINE data == [token |-> token, calls |-> proc[p].data.calls \union {writes + 1}]
<1>4. proc' \in [Procs -> Process]
  <2> HIDE DEF data
  <2> DEFINE mine == [proc[p] EXCEPT !.pc = "check", !.id = writes + 1, !.data = data]
  <2>1. data \in Credentials /\ proc' = [proc EXCEPT ![p] = mine]
    BY <1>1, <1>2 DEF data, TypeOK
  <2>2. proc[p] \in Process
    BY DEF TypeOK
  <2>3. mine \in Process
    BY <2>1, <2>2, <1>3 DEF Process
  <2>4. QED
    BY <2>1, <2>3 DEF TypeOK
<1>5. QED
  BY <1>3, <1>4 DEF Writes

(* Every step of a process, of the file system and of the clock keeps the types. *)
LEMMA TypeStep ==
  ASSUME TypeOK, [Next]_vars
  PROVE  TypeOK'
<1> USE IdleType, PositionNames DEF Process, world, ghosts
<1>1. ASSUME NEW p \in Procs, CreateDir(p) PROVE TypeOK'
  <2>1. CASE dir.ino # 0
    BY <1>1, <2>1 DEF CreateDir, Created, Contended, Go, Fail, At, TypeOK
  <2>2. CASE dir.ino = 0
    <3>1. PICK ino \in NewInos : dir' = NewDir(p, ino)
      BY <1>1, <2>2 DEF CreateDir, Created
    <3>2. ino \in Nat
      BY <2>2, NewInosType
    <3> DEFINE procs == [proc EXCEPT ![p].pc = "identify", ![p].meta = 0]
    <3>3. procs \in [Procs -> Process]
      BY DEF TypeOK
    <3>4. Outdated(procs) \in [Procs -> Process]
      <4> HIDE DEF procs
      <4>1. \A q \in Procs : [procs[q] EXCEPT !.late = TRUE] \in Process
        BY <3>3 DEF Process
      <4>2. QED
        BY <3>3, <4>1 DEF Outdated
    <3>5. proc' = Outdated(procs)
      BY <1>1, <2>2 DEF CreateDir
    <3>6. QED
      BY <1>1, <3>1, <3>2, <3>4, <3>5 DEF CreateDir, NewDir, TypeOK
  <2>3. QED
    BY <2>1, <2>2 DEF TypeOK
<1>2. ASSUME NEW p \in Procs, StatDir(p) PROVE TypeOK'
  BY <1>2 DEF StatDir, Go, Contended, Fail, TypeOK
<1>3. ASSUME NEW p \in Procs, RereadDir(p) PROVE TypeOK'
  BY <1>3 DEF RereadDir, Go, Contended, Fail, TypeOK
<1>4. ASSUME NEW p \in Procs, ReclaimDir(p) PROVE TypeOK'
  BY <1>4 DEF ReclaimDir, NoDir, TypeOK
<1>5. ASSUME NEW p \in Procs, Identify(p) PROVE TypeOK'
  BY <1>5 DEF Identify, Go, TypeOK
<1>6. ASSUME NEW p \in Procs, Teardown(p) PROVE TypeOK'
  BY <1>6 DEF Teardown, NoDir, Fail, TypeOK
<1>7. ASSUME NEW p \in Procs, CheckBeforeRead(p) PROVE TypeOK'
  BY <1>7 DEF CheckBeforeRead, Compromised, Go, TypeOK
<1>8. ASSUME NEW p \in Procs, Read(p) PROVE TypeOK'
  BY <1>8 DEF Read, Current, TypeOK
<1>9. ASSUME NEW p \in Procs, Refresh(p) PROVE TypeOK'
  <2>1. server \in Nat /\ server + 1 \in Nat
    BY DEF TypeOK
  <2>2. proc' \in [Procs -> Process] /\ writes' \in Nat /\ server' \in Nat
    BY <1>9, <2>1, WritesType DEF Refresh, Go, TypeOK
  <2>3. QED
    BY <1>9, <2>2 DEF Refresh, TypeOK
<1>10. ASSUME NEW p \in Procs, Modify(p) PROVE TypeOK'
  <2>1. proc[p].data.token \in Nat
    BY DEF TypeOK, Process, Credentials
  <2>2. proc' \in [Procs -> Process] /\ writes' \in Nat
    BY <1>10, <2>1, WritesType DEF Modify, Go, TypeOK
  <2>3. QED
    BY <1>10, <2>2 DEF Modify, TypeOK
<1>11. ASSUME NEW p \in Procs, CheckBeforeWrite(p) PROVE TypeOK'
  BY <1>11 DEF CheckBeforeWrite, Compromised, Go, TypeOK
<1>12. ASSUME NEW p \in Procs, AtomicWrite(p) PROVE TypeOK'
  <2>1. proc[p].data \in Credentials
    BY DEF TypeOK, Process
  <2>2. QED
    BY <1>12, <2>1 DEF AtomicWrite, Go, TypeOK
<1>13. ASSUME NEW p \in Procs, CheckAfterWrite(p) PROVE TypeOK'
  <2>1. proc[p].id \in Nat
    BY DEF TypeOK, Process
  <2>2. QED
    BY <1>13, <2>1 DEF CheckAfterWrite, Compromised, Go, TypeOK
<1>14. ASSUME NEW p \in Procs, Commit(p) PROVE TypeOK'
  <2>1. proc[p].data \in Credentials
    BY DEF TypeOK, Process
  <2>2. QED
    BY <1>14, <2>1 DEF Commit, Go, TypeOK
<1>15. ASSUME NEW p \in Procs, Release(p) PROVE TypeOK'
  BY <1>15 DEF Release, Go, Fail, TypeOK
<1>16. ASSUME NEW p \in Procs, Unlink(p) PROVE TypeOK'
  BY <1>16 DEF Unlink, NoDir, TypeOK
<1>17. ASSUME NEW p \in Procs, Crash(p) PROVE TypeOK'
  BY <1>17 DEF Crash, TypeOK
<1>18. ASSUME NEW p \in Procs, NEW kind \in {"refresh", "modify"}, Call(p, kind) PROVE TypeOK'
  BY <1>18 DEF Call, TypeOK
<1>19. CASE Expire
  BY <1>19 DEF Expire, TypeOK
<1>20. CASE Age
  BY <1>20 DEF Age, TypeOK
<1>21. CASE UNCHANGED vars
  BY <1>21 DEF vars, TypeOK
<1>22. QED
  BY <1>1, <1>2, <1>3, <1>4, <1>5, <1>6, <1>7, <1>8, <1>9, <1>10, <1>11, <1>12, <1>13, <1>14, <1>15, <1>16, <1>17, <1>18, <1>19, <1>20, <1>21 DEF Next, Step

(* Every variable of CredentialStore has its type in every reachable state. *)
THEOREM StoreTypeCorrect == Spec => []TypeOK
<1>1. Init => TypeOK
  BY IdleType DEF Init, TypeOK, NoDir, Credentials
<1>2. QED
  BY <1>1, TypeStep, PTL DEF Spec

-----------------------------------------------------------------------------
(* The lock. *)

(* A directory that is stale or gone has no creator; who is not about to remove one is not late. *)
LEMMA DirStep ==
  ASSUME TypeOK, DirInv, [Next]_vars
  PROVE  DirInv'
<1> USE DEF TypeOK, Process, DirInv, world, ghosts
<1>1. ASSUME NEW p \in Procs, CreateDir(p) PROVE DirInv'
  <2>1. CASE dir.ino # 0
    BY <1>1, <2>1 DEF CreateDir, Created, Contended, Go, Fail, Idle, At
  <2>2. CASE dir.ino = 0
    <3>1. PICK ino \in NewInos : dir' = NewDir(p, ino)
      BY <1>1, <2>2 DEF CreateDir, Created
    <3>2. ino \in Nat /\ ino # 0
      BY <2>2, NewInosType
    <3>3. QED
      BY <1>1, <2>2, <3>1, <3>2 DEF CreateDir, Created, NewDir, Outdated
  <2>3. QED
    BY <2>1, <2>2
<1>2. ASSUME NEW p \in Procs, StatDir(p) PROVE DirInv'
  BY <1>2 DEF StatDir, At, Go, Contended, Fail, Idle
<1>3. ASSUME NEW p \in Procs, RereadDir(p) PROVE DirInv'
  BY <1>3 DEF RereadDir, At, Go, Contended, Fail, Idle, SameDirIdentity
<1>4. ASSUME NEW p \in Procs, ReclaimDir(p) PROVE DirInv'
  BY <1>4 DEF ReclaimDir, At, NoDir
<1>5. ASSUME NEW p \in Procs, Identify(p) PROVE DirInv'
  BY <1>5 DEF Identify, At, Go
<1>6. ASSUME NEW p \in Procs, Teardown(p) PROVE DirInv'
  BY <1>6 DEF Teardown, At, NoDir, Fail, Idle
<1>7. ASSUME NEW p \in Procs, CheckBeforeRead(p) PROVE DirInv'
  BY <1>7 DEF CheckBeforeRead, At, Go, CheckOwnership, Compromised
<1>8. ASSUME NEW p \in Procs, Read(p) PROVE DirInv'
  BY <1>8 DEF Read, At, Current
<1>9. ASSUME NEW p \in Procs, Refresh(p) PROVE DirInv'
  BY <1>9 DEF Refresh, At, Go, Writes, NeedsRefresh
<1>10. ASSUME NEW p \in Procs, Modify(p) PROVE DirInv'
  BY <1>10 DEF Modify, At, Go, Writes
<1>11. ASSUME NEW p \in Procs, CheckBeforeWrite(p) PROVE DirInv'
  BY <1>11 DEF CheckBeforeWrite, At, Go, CheckOwnership, Compromised
<1>12. ASSUME NEW p \in Procs, AtomicWrite(p) PROVE DirInv'
  BY <1>12 DEF AtomicWrite, At, Go, Refreshed
<1>13. ASSUME NEW p \in Procs, CheckAfterWrite(p) PROVE DirInv'
  BY <1>13 DEF CheckAfterWrite, At, Go, CheckOwnership, Compromised
<1>14. ASSUME NEW p \in Procs, Commit(p) PROVE DirInv'
  BY <1>14 DEF Commit, At, Go
<1>15. ASSUME NEW p \in Procs, Release(p) PROVE DirInv'
  BY <1>15 DEF Release, At, Go, StillOurLock, Fail, Idle
<1>16. ASSUME NEW p \in Procs, Unlink(p) PROVE DirInv'
  BY <1>16 DEF Unlink, At, NoDir, Idle
<1>17. ASSUME NEW p \in Procs, Crash(p) PROVE DirInv'
  BY <1>17 DEF Crash, At, Refreshed, Idle
<1>18. ASSUME NEW p \in Procs, NEW kind \in {"refresh", "modify"}, Call(p, kind) PROVE DirInv'
  BY <1>18 DEF Call, At
<1>19. CASE Expire
  BY <1>19 DEF Expire
<1>20. CASE Age
  BY <1>20 DEF Age
<1>21. CASE UNCHANGED vars
  BY <1>21 DEF vars
<1>22. QED
  BY <1>1, <1>2, <1>3, <1>4, <1>5, <1>6, <1>7, <1>8, <1>9, <1>10, <1>11, <1>12, <1>13, <1>14, <1>15, <1>16, <1>17, <1>18, <1>19, <1>20, <1>21 DEF Next, Step

(* A contender's directory stays that of a dead process: its inode is not given to another one *)
(* while the contender remembers it, unless the file system reuses inodes.                     *)
LEMMA ReclaimStep ==
  ASSUME ~ReusesInodes, TypeOK, DirInv, ReclaimInv, [Next]_vars
  PROVE  ReclaimInv'
<1> USE DEF TypeOK, Process, DirInv, ReclaimInv, Reclaiming, world, ghosts
<1>1. ASSUME NEW p \in Procs, CreateDir(p) PROVE ReclaimInv'
  <2>1. CASE dir.ino # 0
    BY <1>1, <2>1 DEF CreateDir, Created, Contended, Go, Fail, Idle, At
  <2>2. CASE dir.ino = 0
    <3>1. PICK ino \in NewInos : dir' = NewDir(p, ino)
      BY <1>1, <2>2 DEF CreateDir, Created
    <3>2. ino \in Nat /\ ino # 0 /\ \A q \in Procs : ino # proc[q].meta
      BY <2>2, NewInosType DEF Remembered
    <3>3. QED
      BY <1>1, <2>2, <3>1, <3>2 DEF CreateDir, Created, NewDir, Outdated
  <2>3. QED
    BY <2>1, <2>2
<1>2. ASSUME NEW p \in Procs, StatDir(p) PROVE ReclaimInv'
  BY <1>2 DEF StatDir, At, Go, Contended, Fail, Idle
<1>3. ASSUME NEW p \in Procs, RereadDir(p) PROVE ReclaimInv'
  BY <1>3 DEF RereadDir, At, Go, Contended, Fail, Idle, SameDirIdentity
<1>4. ASSUME NEW p \in Procs, ReclaimDir(p) PROVE ReclaimInv'
  BY <1>4 DEF ReclaimDir, At, NoDir
<1>5. ASSUME NEW p \in Procs, Identify(p) PROVE ReclaimInv'
  BY <1>5 DEF Identify, At, Go
<1>6. ASSUME NEW p \in Procs, Teardown(p) PROVE ReclaimInv'
  BY <1>6 DEF Teardown, At, NoDir, Fail, Idle
<1>7. ASSUME NEW p \in Procs, CheckBeforeRead(p) PROVE ReclaimInv'
  BY <1>7 DEF CheckBeforeRead, At, Go, CheckOwnership, Compromised
<1>8. ASSUME NEW p \in Procs, Read(p) PROVE ReclaimInv'
  BY <1>8 DEF Read, At, Current
<1>9. ASSUME NEW p \in Procs, Refresh(p) PROVE ReclaimInv'
  BY <1>9 DEF Refresh, At, Go, Writes, NeedsRefresh
<1>10. ASSUME NEW p \in Procs, Modify(p) PROVE ReclaimInv'
  BY <1>10 DEF Modify, At, Go, Writes
<1>11. ASSUME NEW p \in Procs, CheckBeforeWrite(p) PROVE ReclaimInv'
  BY <1>11 DEF CheckBeforeWrite, At, Go, CheckOwnership, Compromised
<1>12. ASSUME NEW p \in Procs, AtomicWrite(p) PROVE ReclaimInv'
  BY <1>12 DEF AtomicWrite, At, Go, Refreshed
<1>13. ASSUME NEW p \in Procs, CheckAfterWrite(p) PROVE ReclaimInv'
  BY <1>13 DEF CheckAfterWrite, At, Go, CheckOwnership, Compromised
<1>14. ASSUME NEW p \in Procs, Commit(p) PROVE ReclaimInv'
  BY <1>14 DEF Commit, At, Go
<1>15. ASSUME NEW p \in Procs, Release(p) PROVE ReclaimInv'
  BY <1>15 DEF Release, At, Go, StillOurLock, Fail, Idle
<1>16. ASSUME NEW p \in Procs, Unlink(p) PROVE ReclaimInv'
  BY <1>16 DEF Unlink, At, NoDir, Idle
<1>17. ASSUME NEW p \in Procs, Crash(p) PROVE ReclaimInv'
  BY <1>17 DEF Crash, At, Refreshed, Idle
<1>18. ASSUME NEW p \in Procs, NEW kind \in {"refresh", "modify"}, Call(p, kind) PROVE ReclaimInv'
  BY <1>18 DEF Call, At
<1>19. CASE Expire
  BY <1>19 DEF Expire
<1>20. CASE Age
  BY <1>20 DEF Age
<1>21. CASE UNCHANGED vars
  BY <1>21 DEF vars
<1>22. QED
  BY <1>1, <1>2, <1>3, <1>4, <1>5, <1>6, <1>7, <1>8, <1>9, <1>10, <1>11, <1>12, <1>13, <1>14, <1>15, <1>16, <1>17, <1>18, <1>19, <1>20, <1>21 DEF Next, Step

(* Mutual exclusion: a removal by anybody but the owner raises gap or stolen. *)
LEMMA OwnStep ==
  ASSUME TypeOK, DirInv, OwnInv, [Next]_vars
  PROVE  OwnInv'
<1> USE CredentialStoreAssumption DEF TypeOK, Process, DirInv, OwnInv, Owning, Guarded, world, ghosts
<1>1. ASSUME NEW p \in Procs, CreateDir(p) PROVE OwnInv'
  <2>1. CASE dir.ino # 0
    BY <1>1, <2>1 DEF CreateDir, Created, Contended, Go, Fail, Idle, At
  <2>2. CASE dir.ino = 0
    <3>1. PICK ino \in NewInos : dir' = NewDir(p, ino)
      BY <1>1, <2>2 DEF CreateDir, Created
    <3>2. QED
      BY <1>1, <2>2, <3>1 DEF CreateDir, Created, NewDir, Outdated
  <2>3. QED
    BY <2>1, <2>2
<1>2. ASSUME NEW p \in Procs, StatDir(p) PROVE OwnInv'
  BY <1>2 DEF StatDir, At, Go, Contended, Fail, Idle
<1>3. ASSUME NEW p \in Procs, RereadDir(p) PROVE OwnInv'
  BY <1>3 DEF RereadDir, At, Go, Contended, Fail, Idle, SameDirIdentity
<1>4. ASSUME NEW p \in Procs, ReclaimDir(p) PROVE OwnInv'
  BY <1>4, ZenonT(60) DEF ReclaimDir, At, NoDir
<1>5. ASSUME NEW p \in Procs, Identify(p) PROVE OwnInv'
  BY <1>5 DEF Identify, At, Go
<1>6. ASSUME NEW p \in Procs, Teardown(p) PROVE OwnInv'
  BY <1>6 DEF Teardown, At, NoDir, Fail, Idle
<1>7. ASSUME NEW p \in Procs, CheckBeforeRead(p) PROVE OwnInv'
  BY <1>7 DEF CheckBeforeRead, At, Go, CheckOwnership, Compromised
<1>8. ASSUME NEW p \in Procs, Read(p) PROVE OwnInv'
  BY <1>8 DEF Read, At, Current
<1>9. ASSUME NEW p \in Procs, Refresh(p) PROVE OwnInv'
  BY <1>9 DEF Refresh, At, Go, Writes, NeedsRefresh
<1>10. ASSUME NEW p \in Procs, Modify(p) PROVE OwnInv'
  BY <1>10 DEF Modify, At, Go, Writes
<1>11. ASSUME NEW p \in Procs, CheckBeforeWrite(p) PROVE OwnInv'
  BY <1>11 DEF CheckBeforeWrite, At, Go, CheckOwnership, Compromised
<1>12. ASSUME NEW p \in Procs, AtomicWrite(p) PROVE OwnInv'
  BY <1>12 DEF AtomicWrite, At, Go, Refreshed
<1>13. ASSUME NEW p \in Procs, CheckAfterWrite(p) PROVE OwnInv'
  BY <1>13 DEF CheckAfterWrite, At, Go, CheckOwnership, Compromised
<1>14. ASSUME NEW p \in Procs, Commit(p) PROVE OwnInv'
  BY <1>14 DEF Commit, At, Go
<1>15. ASSUME NEW p \in Procs, Release(p) PROVE OwnInv'
  BY <1>15 DEF Release, At, Go, StillOurLock, Fail, Idle
<1>16. ASSUME NEW p \in Procs, Unlink(p) PROVE OwnInv'
  BY <1>16 DEF Unlink, At, NoDir, Idle
<1>17. ASSUME NEW p \in Procs, Crash(p) PROVE OwnInv'
  BY <1>17 DEF Crash, At, Refreshed, Idle
<1>18. ASSUME NEW p \in Procs, NEW kind \in {"refresh", "modify"}, Call(p, kind) PROVE OwnInv'
  BY <1>18 DEF Call, At
<1>19. CASE Expire
  BY <1>19 DEF Expire
<1>20. CASE Age
  BY <1>20 DEF Age
<1>21. CASE UNCHANGED vars
  BY <1>21 DEF vars
<1>22. QED
  BY <1>1, <1>2, <1>3, <1>4, <1>5, <1>6, <1>7, <1>8, <1>9, <1>10, <1>11, <1>12, <1>13, <1>14, <1>15, <1>16, <1>17, <1>18, <1>19, <1>20, <1>21 DEF Next, Step

-----------------------------------------------------------------------------
(* The file and the token. *)

(* The owner writes what it read and its own modification; an acknowledged write is read by all. *)
LEMMA FileStep ==
  ASSUME TypeOK, DirInv, OwnInv, FileInv, [Next]_vars
  PROVE  FileInv'
<1>0. file.token \in Nat /\ \A p \in Procs : proc[p].data.token \in Nat
  BY DEF TypeOK, Process, Credentials
<1> USE CredentialStoreAssumption, <1>0
    DEF TypeOK, Process, OwnInv, Owning, Guarded, FileInv, Writing, world, ghosts
<1>1. ASSUME NEW p \in Procs, CreateDir(p) PROVE FileInv'
  BY <1>1 DEF CreateDir, Outdated, Contended, Go, Fail, Idle, At
<1>2. ASSUME NEW p \in Procs, StatDir(p) PROVE FileInv'
  BY <1>2, SMTT(40) DEF StatDir, At, Go, Contended, Fail, Idle
<1>3. ASSUME NEW p \in Procs, RereadDir(p) PROVE FileInv'
  BY <1>3 DEF RereadDir, At, Go, Contended, Fail, Idle, SameDirIdentity
<1>4. ASSUME NEW p \in Procs, ReclaimDir(p) PROVE FileInv'
  BY <1>4 DEF ReclaimDir, At, NoDir
<1>5. ASSUME NEW p \in Procs, Identify(p) PROVE FileInv'
  BY <1>5, SMTT(40) DEF Identify, At, Go
<1>6. ASSUME NEW p \in Procs, Teardown(p) PROVE FileInv'
  BY <1>6 DEF Teardown, At, NoDir, Fail, Idle
<1>7. ASSUME NEW p \in Procs, CheckBeforeRead(p) PROVE FileInv'
  BY <1>7 DEF CheckBeforeRead, At, Go, CheckOwnership, Compromised
<1>8. ASSUME NEW p \in Procs, Read(p) PROVE FileInv'
  BY <1>8 DEF Read, At, Current
<1>9. ASSUME NEW p \in Procs, Refresh(p) PROVE FileInv'
  BY <1>9 DEF Refresh, At, Go, Writes, NeedsRefresh
<1>10. ASSUME NEW p \in Procs, Modify(p) PROVE FileInv'
  BY <1>10, SMTT(40) DEF Modify, At, Go, Writes
<1>11. ASSUME NEW p \in Procs, CheckBeforeWrite(p) PROVE FileInv'
  BY <1>11 DEF CheckBeforeWrite, At, Go, CheckOwnership, Compromised
<1>12. ASSUME NEW p \in Procs, AtomicWrite(p) PROVE FileInv'
  BY <1>12 DEF AtomicWrite, At, Go, Refreshed
<1>13. ASSUME NEW p \in Procs, CheckAfterWrite(p) PROVE FileInv'
  BY <1>13, SMTT(40) DEF CheckAfterWrite, At, Go, CheckOwnership, Compromised
<1>14. ASSUME NEW p \in Procs, Commit(p) PROVE FileInv'
  BY <1>14 DEF Commit, At, Go
<1>15. ASSUME NEW p \in Procs, Release(p) PROVE FileInv'
  BY <1>15 DEF Release, At, Go, StillOurLock, Fail, Idle
<1>16. ASSUME NEW p \in Procs, Unlink(p) PROVE FileInv'
  BY <1>16 DEF Unlink, At, NoDir, Idle
<1>17. ASSUME NEW p \in Procs, Crash(p) PROVE FileInv'
  BY <1>17 DEF Crash, At, Refreshed, Idle
<1>18. ASSUME NEW p \in Procs, NEW kind \in {"refresh", "modify"}, Call(p, kind) PROVE FileInv'
  BY <1>18 DEF Call, At
<1>19. CASE Expire
  BY <1>19 DEF Expire
<1>20. CASE Age
  BY <1>20 DEF Age
<1>21. CASE UNCHANGED vars
  BY <1>21 DEF vars
<1>22. QED
  BY <1>1, <1>2, <1>3, <1>4, <1>5, <1>6, <1>7, <1>8, <1>9, <1>10, <1>11, <1>12, <1>13, <1>14, <1>15, <1>16, <1>17, <1>18, <1>19, <1>20, <1>21 DEF Next, Step

(* No process has a token the provider has not handed out. *)
LEMMA BoundStep ==
  ASSUME TypeOK, TokenBound, [Next]_vars
  PROVE  TokenBound'
<1>0. file.token \in Nat /\ \A p \in Procs : proc[p].data.token \in Nat
  BY DEF TypeOK, Process, Credentials
<1> USE <1>0 DEF TypeOK, Process, TokenBound, world, ghosts
<1>1. ASSUME NEW p \in Procs, CreateDir(p) PROVE TokenBound'
  BY <1>1, SMTT(40) DEF CreateDir, Outdated, Contended, Go, Fail, Idle, At
<1>2. ASSUME NEW p \in Procs, StatDir(p) PROVE TokenBound'
  BY <1>2 DEF StatDir, At, Go, Contended, Fail, Idle
<1>3. ASSUME NEW p \in Procs, RereadDir(p) PROVE TokenBound'
  BY <1>3 DEF RereadDir, At, Go, Contended, Fail, Idle, SameDirIdentity
<1>4. ASSUME NEW p \in Procs, ReclaimDir(p) PROVE TokenBound'
  BY <1>4 DEF ReclaimDir, At, NoDir
<1>5. ASSUME NEW p \in Procs, Identify(p) PROVE TokenBound'
  BY <1>5 DEF Identify, At, Go
<1>6. ASSUME NEW p \in Procs, Teardown(p) PROVE TokenBound'
  BY <1>6 DEF Teardown, At, NoDir, Fail, Idle
<1>7. ASSUME NEW p \in Procs, CheckBeforeRead(p) PROVE TokenBound'
  BY <1>7 DEF CheckBeforeRead, At, Go, CheckOwnership, Compromised
<1>8. ASSUME NEW p \in Procs, Read(p) PROVE TokenBound'
  BY <1>8 DEF Read, At, Current
<1>9. ASSUME NEW p \in Procs, Refresh(p) PROVE TokenBound'
  BY <1>9 DEF Refresh, At, Go, Writes, NeedsRefresh
<1>10. ASSUME NEW p \in Procs, Modify(p) PROVE TokenBound'
  BY <1>10 DEF Modify, At, Go, Writes
<1>11. ASSUME NEW p \in Procs, CheckBeforeWrite(p) PROVE TokenBound'
  BY <1>11 DEF CheckBeforeWrite, At, Go, CheckOwnership, Compromised
<1>12. ASSUME NEW p \in Procs, AtomicWrite(p) PROVE TokenBound'
  BY <1>12 DEF AtomicWrite, At, Go, Refreshed
<1>13. ASSUME NEW p \in Procs, CheckAfterWrite(p) PROVE TokenBound'
  BY <1>13 DEF CheckAfterWrite, At, Go, CheckOwnership, Compromised
<1>14. ASSUME NEW p \in Procs, Commit(p) PROVE TokenBound'
  BY <1>14 DEF Commit, At, Go
<1>15. ASSUME NEW p \in Procs, Release(p) PROVE TokenBound'
  BY <1>15 DEF Release, At, Go, StillOurLock, Fail, Idle
<1>16. ASSUME NEW p \in Procs, Unlink(p) PROVE TokenBound'
  BY <1>16 DEF Unlink, At, NoDir, Idle
<1>17. ASSUME NEW p \in Procs, Crash(p) PROVE TokenBound'
  BY <1>17 DEF Crash, At, Refreshed, Idle
<1>18. ASSUME NEW p \in Procs, NEW kind \in {"refresh", "modify"}, Call(p, kind) PROVE TokenBound'
  BY <1>18 DEF Call, At
<1>19. CASE Expire
  BY <1>19 DEF Expire
<1>20. CASE Age
  BY <1>20 DEF Age
<1>21. CASE UNCHANGED vars
  BY <1>21 DEF vars
<1>22. QED
  BY <1>1, <1>2, <1>3, <1>4, <1>5, <1>6, <1>7, <1>8, <1>9, <1>10, <1>11, <1>12, <1>13, <1>14, <1>15, <1>16, <1>17, <1>18, <1>19, <1>20, <1>21 DEF Next, Step

(* The token in the file is behind the provider's only while the owner is about to write it. *)
LEMMA TokenStep ==
  ASSUME TypeOK, DirInv, OwnInv, FileInv, TokenBound, TokenInv, [Next]_vars
  PROVE  TokenInv'
<1>0. file.token \in Nat /\ \A p \in Procs : proc[p].data.token \in Nat
  BY DEF TypeOK, Process, Credentials
<1> USE CredentialStoreAssumption, <1>0
    DEF TypeOK, Process, OwnInv, Owning, Guarded, FileInv, TokenBound, TokenInv, Writing, world, ghosts
<1>1. ASSUME NEW p \in Procs, CreateDir(p) PROVE TokenInv'
  BY <1>1 DEF CreateDir, Outdated, Contended, Go, Fail, Idle, At
<1>2. ASSUME NEW p \in Procs, StatDir(p) PROVE TokenInv'
  BY <1>2, SMTT(40) DEF StatDir, At, Go, Contended, Fail, Idle
<1>3. ASSUME NEW p \in Procs, RereadDir(p) PROVE TokenInv'
  BY <1>3 DEF RereadDir, At, Go, Contended, Fail, Idle, SameDirIdentity
<1>4. ASSUME NEW p \in Procs, ReclaimDir(p) PROVE TokenInv'
  BY <1>4 DEF ReclaimDir, At, NoDir
<1>5. ASSUME NEW p \in Procs, Identify(p) PROVE TokenInv'
  BY <1>5 DEF Identify, At, Go
<1>6. ASSUME NEW p \in Procs, Teardown(p) PROVE TokenInv'
  BY <1>6 DEF Teardown, At, NoDir, Fail, Idle
<1>7. ASSUME NEW p \in Procs, CheckBeforeRead(p) PROVE TokenInv'
  BY <1>7 DEF CheckBeforeRead, At, Go, CheckOwnership, Compromised
<1>8. ASSUME NEW p \in Procs, Read(p) PROVE TokenInv'
  BY <1>8 DEF Read, At, Current
<1>9. ASSUME NEW p \in Procs, Refresh(p) PROVE TokenInv'
  <2> SUFFICES ASSUME ~gap, ~stolen, ~lost' PROVE TokenInv'
    BY <1>9 DEF Refresh
  <2>1. ~lost /\ proc[p].pc = "callback" /\ dir.by = p /\ proc[p].data = file
    BY <1>9 DEF Refresh, At
  <2>2. \A q \in Procs : q # p => proc[q].pc \notin Writing
    BY <2>1
  <2>3. file.token = server /\ proc[p].data.token = server
    BY <2>1, <2>2
  <2>4. CASE Writes(p, server + 1) /\ server' = server + 1 /\ UNCHANGED refused
    <3>1. proc'[p].pc = "check" /\ proc'[p].data.token = server'
      BY <2>4 DEF Writes
    <3>2. \A q \in Procs : q # p => proc'[q] = proc[q]
      BY <2>4 DEF Writes
    <3>3. QED
      BY <2>1, <2>2, <2>4, <3>1, <3>2
  <2>5. CASE proc[p].data.token = server /\ UNCHANGED server /\ \E pos \in {"unchanged", "release"} : Go(p, pos)
    <3>1. \A q \in Procs : q # p => proc'[q] = proc[q]
      BY <2>5 DEF Go
    <3>2. proc'[p].pc \in {"unchanged", "release"}
      BY <2>5 DEF Go
    <3>3. refused' \in {refused, (refused \/ proc[p].data.token # server)} /\ UNCHANGED file
      BY ONLY <1>9 DEF Refresh
    <3>4. ~refused
      BY <2>1
    <3>5. ~refused'
      BY ONLY <3>3, <3>4, <2>3
    <3>6. QED
      BY <2>2, <2>3, <2>5, <3>1, <3>2, <3>3, <3>5
  <2>6. QED
    BY <1>9, <2>3, <2>4, <2>5 DEF Refresh
<1>10. ASSUME NEW p \in Procs, Modify(p) PROVE TokenInv'
  BY <1>10, SMTT(40) DEF Modify, At, Go, Writes
<1>11. ASSUME NEW p \in Procs, CheckBeforeWrite(p) PROVE TokenInv'
  BY <1>11 DEF CheckBeforeWrite, At, Go, CheckOwnership, Compromised
<1>12. ASSUME NEW p \in Procs, AtomicWrite(p) PROVE TokenInv'
  <2> SUFFICES ASSUME ~gap, ~stolen, ~lost' PROVE TokenInv'
    BY <1>12 DEF AtomicWrite
  <2>0. ~lost /\ (Refreshed(p) => file' = proc[p].data)
    <3>1. \/ file' = proc[p].data /\ lost' = lost
          \/ lost' = (lost \/ Refreshed(p))
      BY ONLY <1>12 DEF AtomicWrite
    <3>2. CASE file' = proc[p].data /\ lost' = lost
      BY ONLY <3>2, ~lost'
    <3>3. CASE lost' = (lost \/ Refreshed(p))
      BY ONLY <3>3, ~lost'
    <3>4. QED
      BY ONLY <3>1, <3>2, <3>3
  <2>1. proc[p].pc = "write" /\ dir.by = p /\ proc[p].data.token = server
    BY <1>12, <2>0 DEF AtomicWrite, At
  <2>2. \A q \in Procs : q # p => proc[q].pc \notin Writing
    BY <2>1
  <2>3. \A q \in Procs : q # p => proc'[q] = proc[q]
    BY <1>12 DEF AtomicWrite, Go
  <2>4. proc'[p].pc \in {"verify", "release"}
    BY <1>12 DEF AtomicWrite, Go
  <2>5. file'.token = server
    <3>1. file' = proc[p].data \/ (file' = file /\ ~Refreshed(p))
      BY ONLY <1>12, <2>0 DEF AtomicWrite
    <3>2. Refreshed(p) <=> proc[p].data.token > file.token
      BY ONLY <2>1 DEF Refreshed
    <3>3. file.token \in Nat /\ server \in Nat /\ file.token <= server
      BY DEF TokenBound
    <3>4. QED
      BY ONLY <2>1, <3>1, <3>2, <3>3
  <2>6. ~refused' /\ server' = server
    BY <1>12, <2>0 DEF AtomicWrite
  <2>7. QED
    BY <2>2, <2>3, <2>4, <2>5, <2>6
<1>13. ASSUME NEW p \in Procs, CheckAfterWrite(p) PROVE TokenInv'
  BY <1>13, SMTT(40) DEF CheckAfterWrite, At, Go, CheckOwnership, Compromised
<1>14. ASSUME NEW p \in Procs, Commit(p) PROVE TokenInv'
  BY <1>14 DEF Commit, At, Go
<1>15. ASSUME NEW p \in Procs, Release(p) PROVE TokenInv'
  BY <1>15 DEF Release, At, Go, StillOurLock, Fail, Idle
<1>16. ASSUME NEW p \in Procs, Unlink(p) PROVE TokenInv'
  BY <1>16 DEF Unlink, At, NoDir, Idle
<1>17. ASSUME NEW p \in Procs, Crash(p) PROVE TokenInv'
  <2> SUFFICES ASSUME ~gap, ~stolen, ~lost' PROVE TokenInv'
    BY <1>17 DEF Crash
  <2>0. ~lost /\ ~Refreshed(p)
    BY ONLY <1>17, ~lost' DEF Crash
  <2>1. ~lost /\ (proc[p].pc \in Writing => file.token = server)
    <3>1. proc[p].pc \in Writing => proc[p].data.token = server /\ ~(proc[p].data.token > file.token)
      BY <2>0 DEF Refreshed
    <3>2. file.token \in Nat /\ server \in Nat /\ file.token <= server
      BY DEF TokenBound
    <3>3. QED
      BY ONLY <2>0, <3>1, <3>2
  <2>2. \A q \in Procs : q # p => proc'[q] = proc[q]
    BY <1>17 DEF Crash
  <2>3. proc'[p].pc = "idle"
    BY <1>17 DEF Crash, Idle
  <2>4. ~refused' /\ UNCHANGED <<file, server>>
    BY <1>17, <2>1 DEF Crash
  <2>5. QED
    BY <2>1, <2>2, <2>3, <2>4
<1>18. ASSUME NEW p \in Procs, NEW kind \in {"refresh", "modify"}, Call(p, kind) PROVE TokenInv'
  BY <1>18 DEF Call, At
<1>19. CASE Expire
  BY <1>19 DEF Expire
<1>20. CASE Age
  BY <1>20 DEF Age
<1>21. CASE UNCHANGED vars
  BY <1>21 DEF vars
<1>22. QED
  BY <1>1, <1>2, <1>3, <1>4, <1>5, <1>6, <1>7, <1>8, <1>9, <1>10, <1>11, <1>12, <1>13, <1>14, <1>15, <1>16, <1>17, <1>18, <1>19, <1>20, <1>21 DEF Next, Step

-----------------------------------------------------------------------------
(* The theorems. *)

StoreInv == TypeOK /\ DirInv /\ OwnInv /\ FileInv /\ TokenBound /\ TokenInv

LEMMA StoreInvariant == Spec => []StoreInv
<1>1. Init => StoreInv
  BY IdleType DEF Init, StoreInv, TypeOK, NoDir, Idle, Credentials, DirInv, OwnInv, Owning, Guarded,
                  FileInv, Writing, TokenBound, TokenInv
<1>2. StoreInv /\ [Next]_vars => StoreInv'
  BY TypeStep, DirStep, OwnStep, FileStep, BoundStep, TokenStep DEF StoreInv
<1>3. QED
  BY <1>1, <1>2, PTL DEF Spec

(* With a file system that does not give a new directory an inode somebody still remembers,   *)
(* the second look of reclaim_stale_lock is enough: a reclaim never removes a live directory  *)
(* that it has looked at.                                                                     *)
THEOREM FreshLockSparedHolds ==
  ASSUME ~ReusesInodes
  PROVE  Spec => []FreshLockSpared
<1> DEFINE Inv == ReclaimInv /\ FreshLockSpared
<1>1. Init => Inv
  BY DEF Init, Inv, NoDir, Idle, ReclaimInv, Reclaiming, FreshLockSpared
<1>2. StoreInv /\ Inv /\ [Next]_vars => Inv'
  <2> SUFFICES ASSUME StoreInv, Inv, [Next]_vars PROVE Inv'
    OBVIOUS
  <2>1. ReclaimInv'
    BY ReclaimStep DEF StoreInv
  <2>2. ASSUME NEW p \in Procs, ReclaimDir(p) PROVE FreshLockSpared'
    BY <2>2 DEF ReclaimDir, At, StoreInv, DirInv, ReclaimInv, Reclaiming, FreshLockSpared
  <2>3. CASE UNCHANGED stolen
    BY <2>1, <2>3 DEF FreshLockSpared
  <2>4. (\E p \in Procs : ReclaimDir(p)) \/ UNCHANGED stolen
    BY DEF Next, Step, CreateDir, StatDir, RereadDir, Identify, Teardown, CheckBeforeRead, Read, Refresh,
           Modify, CheckBeforeWrite, AtomicWrite, CheckAfterWrite, Commit, Release, Unlink, Crash, Call,
           Expire, Age, vars, ghosts
  <2>5. QED
    BY <2>1, <2>2, <2>3, <2>4
<1>3. QED
  BY <1>1, <1>2, StoreInvariant, PTL DEF Spec

(* On any file system: a superseded refresh token is presented only after a refreshed one was *)
(* lost on its way to the file, or after a reclaim took a live lock away.                     *)
THEOREM TokenUsedOnceOrRobbed == Spec => [](refused => lost \/ gap \/ stolen)
<1>1. StoreInv => (refused => lost \/ gap \/ stolen)
  BY DEF StoreInv, TokenInv
<1>2. QED
  BY <1>1, StoreInvariant, PTL

(* The same without reused inodes: only the gap between the second look and the removal is left. *)
THEOREM TokenUsedOnceHolds ==
  ASSUME ~ReusesInodes
  PROVE  Spec => []TokenUsedOnce
<1>1. StoreInv /\ FreshLockSpared => TokenUsedOnce
  BY DEF StoreInv, TokenInv, FreshLockSpared, TokenUsedOnce
<1>2. QED
  BY <1>1, StoreInvariant, FreshLockSparedHolds, PTL

(* A write reported as done stays in the file and in everything that is written afterwards. *)
THEOREM AckedSurvivesHolds ==
  ASSUME ~ReusesInodes
  PROVE  Spec => []AckedSurvives
<1>1. StoreInv /\ FreshLockSpared => AckedSurvives
  BY DEF StoreInv, FileInv, FreshLockSpared, AckedSurvives
<1>2. QED
  BY <1>1, StoreInvariant, FreshLockSparedHolds, PTL

=============================================================================
