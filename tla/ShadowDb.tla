------------------------------ MODULE ShadowDb ------------------------------
(***************************************************************************)
(* Processes that share /etc/passwd, /etc/shadow, /etc/vxshadow and        *)
(* /etc/group through the shadow driver.  Each has one handle: it opens    *)
(* the database (waiting for the fcntl lock on the passwd file when it     *)
(* asked for the write lock), reads the four files one after the other     *)
(* into memory, works on the copy, and writes the files back in place, one *)
(* after the other, when it closes the handle or asks for a flush.         *)
(* Readers take no lock.  A process may die at any step.                   *)
(*                                                                         *)
(* vxshadow_open() masks VXDB_SYNC away, so that the db_flush(state,false) *)
(* that ends every operation returns at once: the operations below touch   *)
(* memory only.                                                            *)
(***************************************************************************)
EXTENDS ShadowFiles

CONSTANTS
  Proc, NoProc,      \* processes
  Privileged,        \* those that may write the files and read shadow
  OpenFlags,         \* the flag sets the callers pass to vxdb_open()
  LockCallers,       \* processes whose program calls vxdb_lock()
  UnlockCallers,     \* processes whose program calls vxdb_unlock()
  HasVx,             \* whether /etc/vxshadow exists
  InitDisks,         \* images to start from
  AddRq, ModRq,      \* arguments of useradd() and usermod()
  GroupAddRq, GroupModRq,
  CrashPoints,       \* values of pc at which a process may be killed
  MaxOps,            \* bound: operations per session
  MaxSessions,       \* bound: vxdb_open() and vxdb_lock() calls per process
  MaxCrashes         \* bound: killed processes

PC == {"closed", "locking", "reading", "ready",
       "writing", "truncating", "releasing"}

ReadOrder  == <<"passwd", "group", "shadow", "vxshadow">>
FlushOrder == <<"passwd", "shadow", "vxshadow", "group">>

ASSUME ProcAssumption ==
  /\ NoProc \notin Proc
  /\ Privileged \subseteq Proc
  /\ OpenFlags \subseteq SUBSET {"WRLOCK", "ADMIN"}

ASSUME BoundAssumption ==
  /\ MaxOps \in Nat /\ MaxSessions \in Nat /\ MaxCrashes \in Nat
  /\ CrashPoints \subseteq PC
  /\ HasVx \in BOOLEAN

ASSUME InputAssumption ==
  /\ InitDisks \subseteq Image
  /\ AddRq \subseteq [name : UserName, uid : Id \cup {VXDB_AUTOUID, VXDB_AUTOUID_SYS},
                      gid : Id, pw : Password \cup {NULL}, uuid : Uuid \cup {NULL}]
  /\ ModRq \subseteq [name : UserName \cup {NULL}, uid : Id \cup {VXDB_NO_CHANGE},
                      gid : Id \cup {VXDB_NO_CHANGE}, pw : Password \cup {NULL},
                      uuid : Uuid \cup {NULL}]
  /\ GroupAddRq \subseteq [name : GroupName,
                           gid : Id \cup {VXDB_AUTOGID, VXDB_AUTOGID_SYS}]
  /\ GroupModRq \subseteq [name : GroupName \cup {NULL}, gid : Id \cup {VXDB_NOGID}]

VARIABLES
  disk,      \* the four files
  lock,      \* owner of the fcntl write lock on the passwd file
  pc,        \* what each process is doing
  at,        \* reading, writing, truncating: position in the order of files
  goal,      \* why it flushes and releases: "close", "lock", or "flush"
  flags,     \* state->flags
  users,     \* state->dq_user
  groups,    \* state->dq_group
  chgU,      \* is_chg of passwd, shadow and vxshadow, always set together
  chgG,      \* is_chg of group
  base,      \* history: the files when the handle's copy was begun, brought
             \* up to date by a complete flush of its own; NULL when closed
  torn,      \* history: the last flush of the files was cut short by a crash
  ops, sessions, crashes

vars == <<disk, lock, pc, at, goal, flags, users, groups, chgU, chgG, base,
          torn, ops, sessions, crashes>>
counters == <<ops, sessions, crashes>>

TypeOK ==
  /\ disk \in Image
  /\ lock \in Proc \cup {NoProc}
  /\ pc \in [Proc -> PC]
  /\ at \in [Proc -> 1 .. 4]
  /\ goal \in [Proc -> {"close", "lock", "flush"}]
  /\ flags \in [Proc -> SUBSET {"WRLOCK", "ADMIN"}]
  /\ users \in [Proc -> Seq(User)]
  /\ groups \in [Proc -> Seq(Group)]
  /\ chgU \in [Proc -> BOOLEAN] /\ chgG \in [Proc -> BOOLEAN]
  /\ base \in [Proc -> Image \cup {NULL}]
  /\ torn \in BOOLEAN
  /\ ops \in [Proc -> Nat] /\ sessions \in [Proc -> Nat] /\ crashes \in Nat

Init ==
  /\ disk \in InitDisks
  /\ lock = NoProc
  /\ pc = [p \in Proc |-> "closed"]
  /\ at = [p \in Proc |-> 1]
  /\ goal = [p \in Proc |-> "close"]
  /\ flags = [p \in Proc |-> {}]
  /\ users = [p \in Proc |-> <<>>]
  /\ groups = [p \in Proc |-> <<>>]
  /\ chgU = [p \in Proc |-> FALSE]
  /\ chgG = [p \in Proc |-> FALSE]
  /\ base = [p \in Proc |-> NULL]
  /\ torn = FALSE
  /\ ops = [p \in Proc |-> 0]
  /\ sessions = [p \in Proc |-> 0]
  /\ crashes = 0

Dirty(p)  == chgU[p] \/ chgG[p]
Flushing(p) == pc[p] \in {"writing", "truncating"}
Goto(p, label) == pc' = [pc EXCEPT ![p] = label]

-----------------------------------------------------------------------------
(* db_open().  The lock is asked for only if the flags are exactly O_RDWR,  *)
(* whose value VXDB_WRLOCK has; VXDB_ADMIN next to it prevents that.        *)

OpenFiles(p, f) ==
  /\ flags' = [flags EXCEPT ![p] = f]
  /\ at' = [at EXCEPT ![p] = 1]
  /\ sessions' = [sessions EXCEPT ![p] = @ + 1]
  /\ IF f = {"WRLOCK"}
       THEN Goto(p, "locking") /\ UNCHANGED base
       ELSE Goto(p, "reading") /\ base' = [base EXCEPT ![p] = disk]

\* vxshadow_open(); without privileges only a plain read-only open succeeds
Open(p, f) ==
  /\ pc[p] = "closed"
  /\ sessions[p] < MaxSessions
  /\ f # {} => p \in Privileged
  /\ OpenFiles(p, f)
  /\ ops' = [ops EXCEPT ![p] = 0]
  /\ UNCHANGED <<disk, lock, goal, users, groups, chgU, chgG, torn, crashes>>

\* mutant: F_SETLK alone, its failure ignored
AcquireLock_NoWait(p) ==
  /\ pc[p] = "locking"
  /\ lock' = p
  /\ base' = [base EXCEPT ![p] = disk]
  /\ Goto(p, "reading")
  /\ UNCHANGED <<disk, at, goal, flags, users, groups, chgU, chgG, torn, counters>>

\* fcntl(F_SETLK), then fcntl(F_SETLKW)
AcquireLock(p) ==
  /\ pc[p] = "locking"
  /\ lock = NoProc
  /\ lock' = p
  /\ base' = [base EXCEPT ![p] = disk]
  /\ Goto(p, "reading")
  /\ UNCHANGED <<disk, at, goal, flags, users, groups, chgU, chgG, torn, counters>>

Reading(p, f) ==
  /\ pc[p] = "reading" /\ ReadOrder[at[p]] = f
  /\ IF at[p] = 4
       THEN Goto(p, "ready") /\ at' = [at EXCEPT ![p] = 1]
       ELSE at' = [at EXCEPT ![p] = @ + 1] /\ UNCHANGED pc
  /\ UNCHANGED <<disk, lock, goal, flags, chgU, chgG, base, torn, counters>>

ReadPasswd(p) ==
  /\ Reading(p, "passwd")
  /\ users' = [users EXCEPT ![p] = db_read_passwd(disk.passwd)]
  /\ UNCHANGED groups

ReadGroup(p) ==
  /\ Reading(p, "group")
  /\ groups' = [groups EXCEPT ![p] = disk.group]
  /\ UNCHANGED users

\* EACCES on shadow and vxshadow is tolerated when opening read-only
ReadShadow(p) ==
  /\ Reading(p, "shadow")
  /\ users' = IF p \in Privileged
                THEN [users EXCEPT ![p] = db_read_shadow(disk.shadow, @)]
                ELSE users
  /\ UNCHANGED groups

ReadVxshadow(p) ==
  /\ Reading(p, "vxshadow")
  /\ users' = IF p \in Privileged /\ HasVx
                THEN [users EXCEPT ![p] = db_read_vxshadow(disk.vxshadow, @)]
                ELSE users
  /\ UNCHANGED groups

-----------------------------------------------------------------------------
(* The operations.  RWLOCK_CHK: without the write-lock flag they return     *)
(* EPERM and change nothing.                                                *)

Operation(p) ==
  /\ pc[p] = "ready" /\ "WRLOCK" \in flags[p]
  /\ ops[p] < MaxOps
  /\ ops' = [ops EXCEPT ![p] = @ + 1]
  /\ UNCHANGED <<disk, lock, pc, at, goal, flags, base, torn, sessions, crashes>>

\* mutant: TOUCH_USER_TAG(true) forgotten
UserOperation_Unmarked(p, results) ==
  /\ Operation(p)
  /\ \E us \in results : users' = [users EXCEPT ![p] = us]
  /\ UNCHANGED <<chgU, groups, chgG>>

UserOperation(p, results) ==
  /\ Operation(p)
  /\ \E us \in results : users' = [users EXCEPT ![p] = us]
  /\ chgU' = [chgU EXCEPT ![p] = TRUE]
  /\ UNCHANGED <<groups, chgG>>

UserAdd(p) == \E rq \in AddRq : UserOperation(p, useradd(users[p], rq))
UserMod(p) ==
  \E n \in UserName, rq \in ModRq : UserOperation(p, usermod(users[p], n, rq))
UserDel(p) == \E n \in UserName : UserOperation(p, userdel(users[p], n))

GroupOperation(p, results) ==
  /\ Operation(p)
  /\ \E gs \in results : groups' = [groups EXCEPT ![p] = gs]
  /\ chgG' = [chgG EXCEPT ![p] = TRUE]
  /\ UNCHANGED <<users, chgU>>

GroupAdd(p) == \E rq \in GroupAddRq : GroupOperation(p, groupadd(groups[p], rq))
GroupMod(p) ==
  \E n \in GroupName, rq \in GroupModRq : GroupOperation(p, groupmod(groups[p], n, rq))
GroupDel(p) == \E n \in GroupName : GroupOperation(p, groupdel(groups[p], n))

-----------------------------------------------------------------------------
(* db_flush(state, true): all user files, then the group file, each first   *)
(* written over and then truncated.                                         *)

\* mutant: the lock is given back before the files are written
StartFlush_DropsLock(p, why) ==
  /\ goal' = [goal EXCEPT ![p] = why]
  /\ at' = [at EXCEPT ![p] = 1]
  /\ Goto(p, "writing")
  /\ lock' = IF lock = p THEN NoProc ELSE lock
  /\ UNCHANGED <<disk, flags, users, groups, chgU, chgG, base, torn>>

StartFlush(p, why) ==
  /\ goal' = [goal EXCEPT ![p] = why]
  /\ at' = [at EXCEPT ![p] = 1]
  /\ Goto(p, "writing")
  /\ UNCHANGED <<disk, lock, flags, users, groups, chgU, chgG, base, torn>>

\* vxshadow_modctl(VXDB_FLUSH)
ModctlFlush(p) ==
  /\ pc[p] = "ready" /\ "WRLOCK" \in flags[p]
  /\ ops[p] < MaxOps
  /\ ops' = [ops EXCEPT ![p] = @ + 1]
  /\ StartFlush(p, "flush")
  /\ UNCHANGED <<sessions, crashes>>

Target(p) == WriteImage(users[p], groups[p])
\* mutant: shadow is taken to be as optional as vxshadow
Skipped_Shadow(f) == f = "shadow" \/ (f = "vxshadow" /\ ~HasVx)

Skipped(f) == f = "vxshadow" /\ ~HasVx

WriteFile(p) ==
  /\ pc[p] = "writing"
  /\ LET f == FlushOrder[at[p]]
     IN  disk' = IF Skipped(f) THEN disk
                 ELSE [disk EXCEPT ![f] = Overwritten(f, @, Target(p)[f])]
  /\ Goto(p, "truncating")
  /\ UNCHANGED <<lock, at, goal, flags, users, groups, chgU, chgG, base, torn, counters>>

AfterFlush(p) == IF goal[p] = "flush" THEN "ready" ELSE "releasing"

TruncateFile(p) ==
  /\ pc[p] = "truncating"
  /\ LET f == FlushOrder[at[p]]
     IN  disk' = IF Skipped(f) THEN disk
                 ELSE [disk EXCEPT ![f] = Truncated(f, @, Target(p)[f])]
  /\ chgU' = IF at[p] = 3 THEN [chgU EXCEPT ![p] = FALSE] ELSE chgU
  /\ IF at[p] = 4
       THEN /\ Goto(p, AfterFlush(p))
            /\ at' = [at EXCEPT ![p] = 1]
            /\ chgG' = [chgG EXCEPT ![p] = FALSE]
            /\ base' = [base EXCEPT ![p] = disk']
            /\ torn' = FALSE
       ELSE /\ Goto(p, "writing")
            /\ at' = [at EXCEPT ![p] = @ + 1]
            /\ UNCHANGED <<chgG, base, torn>>
  /\ UNCHANGED <<lock, goal, flags, users, groups, counters>>

-----------------------------------------------------------------------------
(* db_close(), vxshadow_lock() and vxshadow_unlock() *)

\* mutant: db_close() without db_flush()
CloseFor_NoFlush(p, why) ==
  /\ pc[p] = "ready"
  /\ goal' = [goal EXCEPT ![p] = why]
  /\ Goto(p, "releasing")
  /\ UNCHANGED <<disk, lock, at, flags, users, groups, chgU, chgG, base, torn, counters>>

\* db_close(): flush if anything is marked as changed, then close the files
CloseFor(p, why) ==
  /\ pc[p] = "ready"
  /\ \/ Dirty(p) /\ StartFlush(p, why)
     \/ /\ ~Dirty(p)
        /\ goal' = [goal EXCEPT ![p] = why]
        /\ Goto(p, "releasing")
        /\ UNCHANGED <<disk, lock, at, flags, users, groups, chgU, chgG, base, torn>>
  /\ UNCHANGED counters

Close(p) == CloseFor(p, "close")

\* mutant: the lock is taken without reading the files again
Lock_NoReopen(p) ==
  /\ p \in LockCallers \cap Privileged
  /\ pc[p] = "ready" /\ "WRLOCK" \notin flags[p]
  /\ flags' = [flags EXCEPT ![p] = @ \cup {"WRLOCK"}]
  /\ UNCHANGED <<disk, lock, pc, at, goal, users, groups, chgU, chgG, base, torn, counters>>

\* vxshadow_lock(): nothing to do with the flag set, else close and reopen
Lock(p) ==
  /\ p \in LockCallers \cap Privileged
  /\ "WRLOCK" \notin flags[p]
  /\ sessions[p] < MaxSessions
  /\ CloseFor(p, "lock")

\* mutant: the descriptor with the lock stays open
FreeLock_Kept(p) == lock' = lock

FreeLock(p) == lock' = IF lock = p THEN NoProc ELSE lock

\* The passwd file is closed last, which gives the lock back; free_data().
Release(p) ==
  /\ pc[p] = "releasing"
  /\ FreeLock(p)
  /\ users' = [users EXCEPT ![p] = <<>>]
  /\ groups' = [groups EXCEPT ![p] = <<>>]
  /\ IF goal[p] = "lock"
       THEN OpenFiles(p, flags[p] \cup {"WRLOCK"})
       ELSE /\ Goto(p, "closed")
            /\ base' = [base EXCEPT ![p] = NULL]
            /\ UNCHANGED <<flags, at, sessions>>
  /\ UNCHANGED <<disk, goal, chgU, chgG, torn, ops, crashes>>

\* vxshadow_unlock(): gives the lock back without a flush
Unlock(p) ==
  /\ p \in UnlockCallers
  /\ pc[p] = "ready" /\ "WRLOCK" \in flags[p]
  /\ FreeLock(p)
  /\ flags' = [flags EXCEPT ![p] = @ \ {"WRLOCK"}]
  /\ UNCHANGED <<disk, pc, at, goal, users, groups, chgU, chgG, base, torn, counters>>

\* The process is killed; the kernel closes its files and drops its lock.
Crash(p) ==
  /\ pc[p] \in CrashPoints \ {"closed"}
  /\ crashes < MaxCrashes
  /\ crashes' = crashes + 1
  /\ torn' = (torn \/ Flushing(p))
  /\ FreeLock(p)
  /\ Goto(p, "closed")
  /\ at' = [at EXCEPT ![p] = 1]
  /\ users' = [users EXCEPT ![p] = <<>>]
  /\ groups' = [groups EXCEPT ![p] = <<>>]
  /\ chgU' = [chgU EXCEPT ![p] = FALSE]
  /\ chgG' = [chgG EXCEPT ![p] = FALSE]
  /\ base' = [base EXCEPT ![p] = NULL]
  /\ UNCHANGED <<disk, goal, flags, ops, sessions>>

-----------------------------------------------------------------------------
\* What a process does on its own account once it has opened the database.
Progress(p) ==
  \/ AcquireLock(p)
  \/ ReadPasswd(p) \/ ReadGroup(p) \/ ReadShadow(p) \/ ReadVxshadow(p)
  \/ WriteFile(p) \/ TruncateFile(p)
  \/ Close(p) \/ Release(p)

Request(p) ==
  \/ \E f \in OpenFlags : Open(p, f)
  \/ UserAdd(p) \/ UserMod(p) \/ UserDel(p)
  \/ GroupAdd(p) \/ GroupMod(p) \/ GroupDel(p)
  \/ ModctlFlush(p) \/ Lock(p) \/ Unlock(p)

\* All programs have ended.
Finished ==
  /\ \A p \in Proc : pc[p] = "closed"
  /\ UNCHANGED vars

Next == (\E p \in Proc : Progress(p) \/ Request(p) \/ Crash(p)) \/ Finished

Spec == Init /\ [][Next]_vars

\* Every program that has opened the database goes on and closes it.
FairSpec == Spec /\ \A p \in Proc : WF_vars(Progress(p))

-----------------------------------------------------------------------------
(* Safety *)

(* "Be sure to keep a lock on the database and/or files when writing": a   *)
(* process that is writing the files out owns the fcntl lock.               *)
FlushHoldsLock == \A p \in Proc : Flushing(p) => lock = p

(* dbops.c:27: "upon a write attempt reopen in read-write mode: close db,    *)
(* reopen with rwlock, reread, perform operation".  Whoever holds an open    *)
(* handle that may write has locked everybody else out since it read.        *)
WriterHoldsLock ==
  \A p \in Proc :
    /\ pc[p] \in {"reading", "ready", "writing", "truncating", "releasing"}
    /\ "WRLOCK" \in flags[p]
    => lock = p

(* No lost update: as long as a handle has changes that are not written     *)
(* out, the files are still those its copy was read from, so that writing   *)
(* the copy overwrites nobody else's work.                                  *)
NoLostUpdate ==
  \A p \in Proc : pc[p] = "ready" /\ Dirty(p) => disk = base[p]

(* The copy of the lock owner is what the files say, unless it is marked as *)
(* changed: the copy is not a mixture of two states of the files, no        *)
(* operation forgets its mark, and a flush leaves out nothing.  (With two   *)
(* users of one name writing and reading back is not the identity.)         *)
HolderInSync ==
  \A p \in Proc :
    pc[p] = "ready" /\ lock = p /\ UniqueNames(users[p]) =>
      /\ ~chgU[p] => Stored(ReadUsers(disk, HasVx), HasVx) = Stored(users[p], HasVx)
      /\ ~chgG[p] => disk.group = groups[p]

(* passwd and shadow list the same users, except while somebody is writing  *)
(* them and after a crash in the middle of that; the first complete flush   *)
(* after the crash brings them together again.                              *)
FilesAgree ==
  torn \/ (\E p \in Proc : Flushing(p))
  \/ /\ Len(disk.passwd) = Len(disk.shadow)
     /\ \A i \in DOMAIN disk.passwd : disk.passwd[i].name = disk.shadow[i].name

(* Liveness: every session ends, so that nobody waits for the lock forever. *)
SessionEnds == \A p \in Proc : pc[p] # "closed" ~> pc[p] = "closed"

-----------------------------------------------------------------------------
(* The database that the processes believe to share: SerialDb, in which one *)
(* owner at a time works on a copy and puts it in place in a single step.   *)
(* The files change when the owner starts to write them; it is the owner    *)
(* once its copy is complete.                                               *)
Owns(p) == lock = p /\ pc[p] \in {"ready", "writing", "truncating"}

Files ==
  IF \E p \in Proc : Flushing(p)
    THEN LET p == CHOOSE q \in Proc : Flushing(q)
         IN  IF HasVx THEN Target(p)
             ELSE [Target(p) EXCEPT !.vxshadow = disk.vxshadow]
    ELSE disk
Owner == IF \E p \in Proc : Owns(p) THEN CHOOSE p \in Proc : Owns(p) ELSE NoProc
Work  == IF Owner = NoProc THEN [users |-> <<>>, groups |-> <<>>]
         ELSE [users |-> users[Owner], groups |-> groups[Owner]]
Changed == Owner # NoProc /\ pc[Owner] = "ready" /\ Dirty(Owner)

Serial == INSTANCE SerialDb WITH db <- Files, owner <- Owner, work <- Work,
                                 changed <- Changed,
                                 Killable <- CrashPoints # {}

(* Without crashes inside a flush, the processes implement SerialDb.        *)
Serializable == Serial!Spec
=============================================================================
