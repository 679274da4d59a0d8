---------------------------- MODULE WorkspaceLock ----------------------------
(***************************************************************************)
(* The workspace lock (storage/workspace_lock.py): a file that its holder  *)
(* locks with portalocker and in which it writes its PID, and the          *)
(* reclamation of a lock file found at recovery (recovery/reclaim.py).     *)
(*                                                                         *)
(* The advisory lock belongs to the inode a process has open, while open() *)
(* and unlink() speak about the path, so the two are kept apart here.  A   *)
(* step is one system call.  PIDs are not reused.                          *)
(***************************************************************************)
EXTENDS Naturals, FiniteSets

CONSTANTS
    Procs,    \* PIDs of the processes that work on the workspace
    Dead,     \* those of an earlier run that crashed
    Inodes,   \* inode numbers the file system gives to lock files
    None

ASSUME LockAssumption ==
    /\ None \notin Procs /\ None \notin Inodes /\ Dead \subseteq Procs
    /\ IsFiniteSet(Procs) /\ IsFiniteSet(Inodes)
    /\ Cardinality(Inodes) >= Cardinality(Procs \ Dead)

VARIABLES
    live,     \* PIDs for which _pid_alive holds
    pc,       \* next step of each process
    path,     \* inode of lock_path, None when there is no such file
    holder,   \* the process with the advisory lock on an inode
    owner,    \* the PID in the file at lock_path, None if there is none in it
    fh        \* inode each process has open in _fh

fileVars == <<path, holder, owner, fh>>
lockVars == <<live, pc, path, holder, owner, fh>>

\* A crashed run may have left its lock file, with its PID in it.
LockInit ==
    /\ live = Procs \ Dead
    /\ pc = [p \in Procs |-> IF p \in Dead THEN "dead" ELSE "idle"]
    /\ holder = [i \in Inodes |-> None]
    /\ \/ path = None /\ owner = None
       \/ path \in Inodes /\ owner \in Dead
    /\ fh = [p \in Procs |-> None]

Goto(p, label) == pc' = [pc EXCEPT ![p] = label]

\* An inode with no name and no open descriptor: the file system reuses it.
Free(i) == i # path /\ \A p \in Procs : fh[p] # i

\* lock_path.unlink(missing_ok=True).
RemoveFile == path' = None /\ owner' = None

-----------------------------------------------------------------------------
(* acquire *)

\* open(lock_path, "a+"): creates the file when there is none.
Open(p) ==
    /\ pc[p] = "open"
    /\ \/ /\ path # None
          /\ fh' = [fh EXCEPT ![p] = path]
          /\ UNCHANGED path
       \/ /\ path = None
          /\ \E i \in Inodes :
                /\ Free(i)
                /\ path' = i
                /\ fh' = [fh EXCEPT ![p] = i]
    /\ Goto(p, "lock")
    /\ UNCHANGED <<live, holder, owner>>

\* portalocker.lock without waiting, on the inode that was opened.
TryLock(p) ==
    /\ pc[p] = "lock"
    /\ holder[fh[p]] = None
    /\ holder' = [holder EXCEPT ![fh[p]] = p]
    /\ Goto(p, "owner")
    /\ UNCHANGED <<live, path, owner, fh>>

\* ... and its LockException: the handle is closed.
LockBusy(p) ==
    /\ pc[p] = "lock"
    /\ holder[fh[p]] # None
    /\ fh' = [fh EXCEPT ![p] = None]
    /\ Goto(p, "stale")
    /\ UNCHANGED <<live, path, holder, owner>>

\* _write_owner, into the open file, which may have lost its name by now.  A
\* file truncated and not yet written reads as no PID, which _reclaim_stale
\* treats as a live one.
WriteOwner(p) ==
    /\ pc[p] = "owner"
    /\ owner' = IF fh[p] = path THEN p ELSE owner
    /\ Goto(p, "held")
    /\ UNCHANGED <<live, path, holder, fh>>

\* The path records the PID of a dead process.
StaleOwner == owner \notin live \cup {None}

\* _reclaim_stale reads the file; a missing or empty one is not reclaimed.
ReadOwner(p) ==
    /\ pc[p] = "stale"
    /\ Goto(p, IF StaleOwner THEN "steal" ELSE "wait")
    /\ UNCHANGED <<live, fileVars>>

\* ... then unlinks whatever the path names by now, and acquire starts over.
UnlinkStale(p) ==
    /\ pc[p] = "steal"
    /\ RemoveFile
    /\ Goto(p, "open")
    /\ UNCHANGED <<live, holder, fh>>

Retry(p) ==
    /\ pc[p] = "wait"
    /\ Goto(p, "open")
    /\ UNCHANGED <<live, fileVars>>

\* The deadline has passed: LockTimeout.
LockTimeout(p) ==
    /\ pc[p] = "wait"
    /\ Goto(p, "idle")
    /\ UNCHANGED <<live, fileVars>>

-----------------------------------------------------------------------------
(* release: unlock and close, then unlink by name *)

Unlock(p) ==
    /\ pc[p] = "unlock"
    /\ holder' = [holder EXCEPT ![fh[p]] = None]
    /\ fh' = [fh EXCEPT ![p] = None]
    /\ Goto(p, "unlink")
    /\ UNCHANGED <<live, path, owner>>

Unlink(p) ==
    /\ pc[p] = "unlink"
    /\ RemoveFile
    /\ Goto(p, "idle")
    /\ UNCHANGED <<live, holder, fh>>

-----------------------------------------------------------------------------
(* recovery/reclaim.py *)

\* _reclaim_lock: unlike _reclaim_stale it takes an empty file for stale.
ReclaimLock(p) ==
    /\ pc[p] = "reclaim"
    /\ Goto(p, IF path # None /\ owner \notin live
                 THEN "reclaimUnlink" ELSE "idle")
    /\ UNCHANGED <<live, fileVars>>

ReclaimUnlink(p) ==
    /\ pc[p] = "reclaimUnlink"
    /\ RemoveFile
    /\ Goto(p, "idle")
    /\ UNCHANGED <<live, holder, fh>>

-----------------------------------------------------------------------------
(* A process dies: the kernel closes its files and drops its lock. *)

Die(p) ==
    /\ p \in live
    /\ live' = live \ {p}
    /\ holder' = [i \in Inodes |-> IF holder[i] = p THEN None ELSE holder[i]]
    /\ fh' = [fh EXCEPT ![p] = None]
    /\ Goto(p, "dead")
    /\ UNCHANGED <<path, owner>>

-----------------------------------------------------------------------------
(* The lock by itself: "with WorkspaceLock(...)" around an empty body *)

Acquire(p) ==
    /\ pc[p] = "idle" /\ p \in live
    /\ Goto(p, "open")
    /\ UNCHANGED <<live, fileVars>>

Leave(p) ==
    /\ pc[p] = "held"
    /\ Goto(p, "unlock")
    /\ UNCHANGED <<live, fileVars>>

LockNext ==
    \E p \in Procs :
        \/ Acquire(p) \/ Open(p) \/ TryLock(p) \/ LockBusy(p) \/ WriteOwner(p)
        \/ ReadOwner(p) \/ UnlinkStale(p) \/ Retry(p) \/ LockTimeout(p)
        \/ Leave(p) \/ Unlock(p) \/ Unlink(p) \/ Die(p)

LockSpec == LockInit /\ [][LockNext]_lockVars

-----------------------------------------------------------------------------
(* Properties *)

\* The class calls itself "an exclusive lock on a workspace": two processes
\* are never inside it at once.
OneHolder ==
    \A p, q \in Procs : pc[p] = "held" /\ pc[q] = "held" => p = q
=============================================================================
