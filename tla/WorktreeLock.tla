---------------------------- MODULE WorktreeLock ----------------------------
(***************************************************************************)
(* The lock file of one worktree (src/worktree/lock.ts) between processes: *)
(* an exclusive create, then a write of the PID; a process that meets the  *)
(* file reads the PID, removes the file of a dead process and tries once   *)
(* more.  Each step is a system call; a process may die between any two.   *)
(***************************************************************************)
EXTENDS FiniteSets

CONSTANTS
    Process,   \* operating system processes
    Foreign,   \* those of another user, which the others may not signal
    Nobody     \* no process

ASSUME WorktreeLockAssumption == Nobody \notin Process /\ Foreign \subseteq Process

VARIABLES
    lockFile,  \* who created the file that is there, and the PID in it
    locker,    \* where each process is in acquireLock
    retried,   \* those on their second try
    lockRaced  \* history: a file was taken for stale that may be somebody's

worktreeLockVars == <<lockFile, locker, retried, lockRaced>>

NoFile == [by |-> Nobody, pid |-> Nobody]

WorktreeLockInit ==
    /\ lockFile = NoFile
    /\ locker = [p \in Process |-> "idle"]
    /\ retried = {}
    /\ lockRaced = FALSE

LockStep(p, pc) == locker' = [locker EXCEPT ![p] = pc]

Acquire(p) ==
    /\ locker[p] = "idle"
    /\ LockStep(p, "create")
    /\ retried' = retried \ {p}
    /\ UNCHANGED <<lockFile, lockRaced>>

\* mutant: the file is opened without O_EXCL
CreateOver(p) ==
    /\ locker[p] = "create"
    /\ LockStep(p, "write") /\ lockFile' = [by |-> p, pid |-> Nobody]
    /\ UNCHANGED <<retried, lockRaced>>

\* openSync "wx"
CreateFile(p) ==
    /\ locker[p] = "create"
    /\ IF lockFile = NoFile
         THEN LockStep(p, "write") /\ lockFile' = [by |-> p, pid |-> Nobody]
         ELSE LockStep(p, "read") /\ UNCHANGED lockFile
    /\ UNCHANGED <<retried, lockRaced>>

\* The PID goes into the file that was created, even if it is gone by now.
WritePid(p) ==
    /\ locker[p] = "write"
    /\ lockFile' = IF lockFile.by = p THEN [lockFile EXCEPT !.pid = p] ELSE lockFile
    /\ LockStep(p, "held")
    /\ UNCHANGED <<retried, lockRaced>>

\* isPidAlive: every error of kill(pid, 0) counts as dead, EPERM too.
Alive(p) == p \in Process \ Foreign /\ locker[p] # "dead"

\* readLockPid, kill(pid, 0): no file and no PID count as stale; the second try
\* is the last.
ReadPid(p) ==
    /\ locker[p] = "read"
    /\ LockStep(p, IF Alive(lockFile.pid) \/ p \in retried THEN "idle" ELSE "unlink")
    /\ lockRaced' = (lockRaced \/ lockFile.pid \in Foreign \cup {Nobody}
                               \/ \E q \in Process \ {p} : locker[q] = "unlink")
    /\ UNCHANGED <<lockFile, retried>>

\* unlinkSync removes whatever file is there.
Unlink(p) ==
    /\ locker[p] = "unlink"
    /\ lockFile' = NoFile
    /\ LockStep(p, "create")
    /\ retried' = retried \cup {p}
    /\ UNCHANGED lockRaced

Release(p) ==
    /\ locker[p] = "held"
    /\ lockFile' = NoFile
    /\ LockStep(p, "idle")
    /\ UNCHANGED <<retried, lockRaced>>

Die(p) ==
    /\ locker[p] # "dead"
    /\ LockStep(p, "dead")
    /\ UNCHANGED <<lockFile, retried, lockRaced>>

WorktreeLockNext ==
    \E p \in Process :
        \/ Acquire(p) \/ CreateFile(p) \/ WritePid(p) \/ ReadPid(p) \/ Unlink(p)
        \/ Release(p) \/ Die(p)

WorktreeLockSpec == WorktreeLockInit /\ [][WorktreeLockNext]_worktreeLockVars

----------------------------------------------------------------------------
(* Properties *)

WorktreeLockTypeOK ==
    /\ lockFile \in [by : Process \cup {Nobody}, pid : Process \cup {Nobody}]
    /\ locker \in [Process -> {"idle", "create", "write", "read", "unlink", "held", "dead"}]
    /\ retried \subseteq Process
    /\ lockRaced \in BOOLEAN

Holders == {p \in Process : locker[p] = "held"}

\* Two processes never hold one worktree, unless a takeover raced: the reader
\* found a file without a PID, none at all, or that of a process it may not signal,
\* or two readers found the same dead PID and the slower one removes the lock of the
\* faster.
OneHolder == (\A p, q \in Holders : p = q) \/ lockRaced

============================================================================
