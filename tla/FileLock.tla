------------------------------ MODULE FileLock ------------------------------
(***************************************************************************)
(* FileLock of ownerclan_API and domeggook_API (persistence/storage.py):   *)
(* a lock file created with O_EXCL, kept open while the lock is held,      *)
(* removed on exit, and removed by a newcomer when its mtime is older than *)
(* stale_after_seconds.  Nobody refreshes the mtime.                       *)
(***************************************************************************)
EXTENDS Naturals, FiniteSets

CONSTANTS
    Process,     \* processes that start the same collector
    LongRuns,    \* a run may outlast stale_after_seconds
    MaxLockCrashes   \* bound: processes that die without running __exit__

ASSUME LockAssumption ==
    /\ LongRuns \in BOOLEAN
    /\ MaxLockCrashes \in Nat

VARIABLES
    file,     \* the lock files that exist: {} or one [owner, old]
    lockPc,
    crashes,
    posix,    \* the system: unlink removes a file that another process has
              \* open; on Windows it raises PermissionError
    raced     \* since all processes were idle, two have recovered the same
              \* lock or a run has outlasted the limit (history)

lockVars == <<file, lockPc, crashes, posix, raced>>

LockLocations == {"idle", "look", "remove", "create", "held", "closed"}

\* os.open's descriptor: the file is open while its owner holds the lock.
OpenFiles == {f \in file : lockPc[f.owner] = "held"}

LockInit ==
    /\ file = {}
    /\ lockPc = [p \in Process |-> "idle"]
    /\ crashes = 0
    /\ posix \in BOOLEAN
    /\ raced = FALSE

\* What only Windows survives: two processes that have both found a stale lock
\* and not yet removed it, or an old lock whose owner still runs.
Race ==
    \/ \E p, q \in Process : p # q /\ lockPc[p] = "remove" /\ lockPc[q] = "remove"
    \/ \E f \in file : f.old /\ lockPc[f.owner] \in {"held", "closed"}

AllIdle == \A p \in Process : lockPc[p] = "idle"

NoteRaces == raced' = (~AllIdle' /\ (raced \/ Race'))

LockGoTo(p, location) == lockPc' = [lockPc EXCEPT ![p] = location]

Start(p) ==
    /\ lockPc[p] = "idle"
    /\ LockGoTo(p, "look")
    /\ UNCHANGED <<file, crashes, posix>>
    /\ NoteRaces

\* Mutant: the age is not looked at.
LookPast(p) ==
    /\ lockPc[p] = "look"
    /\ LockGoTo(p, "create")
    /\ UNCHANGED <<file, crashes, posix>>
    /\ NoteRaces

\* Mutant: a lock of any age is removed.
LookAtNoAge(p) ==
    /\ lockPc[p] = "look"
    /\ LockGoTo(p, IF file # {} THEN "remove" ELSE "create")
    /\ UNCHANGED <<file, crashes, posix>>
    /\ NoteRaces

\* _remove_stale_lock: is there a file, and is it old?
Look(p) ==
    /\ lockPc[p] = "look"
    /\ LockGoTo(p, IF \E f \in file : f.old THEN "remove" ELSE "create")
    /\ UNCHANGED <<file, crashes, posix>>
    /\ NoteRaces

\* path.unlink: by now the file may be another one, or none.
Unlink == file' = IF posix THEN {} ELSE OpenFiles

\* Where the file is open, Windows raises and the process gives up.
RemoveStale(p) ==
    /\ lockPc[p] = "remove"
    /\ Unlink
    /\ LockGoTo(p, IF file' = {} THEN "create" ELSE "idle")
    /\ UNCHANGED <<crashes, posix>>
    /\ NoteRaces

\* Mutant: the file is opened without O_EXCL.
CreateShared(p) ==
    /\ lockPc[p] = "create"
    /\ file' = {[owner |-> p, old |-> FALSE]}
    /\ LockGoTo(p, "held")
    /\ UNCHANGED <<crashes, posix>>
    /\ NoteRaces

\* Mutant: every process has a file of its own.
CreateOwn(p) ==
    /\ lockPc[p] = "create"
    /\ file' = file \cup {[owner |-> p, old |-> FALSE]}
    /\ LockGoTo(p, "held")
    /\ UNCHANGED <<crashes, posix>>
    /\ NoteRaces

\* O_CREAT | O_EXCL; an existing file makes __enter__ raise.
Create(p) ==
    /\ lockPc[p] = "create"
    /\ IF file = {}
         THEN file' = {[owner |-> p, old |-> FALSE]} /\ LockGoTo(p, "held")
         ELSE UNCHANGED file /\ LockGoTo(p, "idle")
    /\ UNCHANGED <<crashes, posix>>
    /\ NoteRaces

\* __exit__ closes the descriptor and then unlinks the path, whoever's file
\* it is.
Close(p) ==
    /\ lockPc[p] = "held"
    /\ LockGoTo(p, "closed")
    /\ UNCHANGED <<file, crashes, posix>>
    /\ NoteRaces

ExitUnlink(p) ==
    /\ lockPc[p] = "closed"
    /\ Unlink
    /\ LockGoTo(p, "idle")
    /\ UNCHANGED <<crashes, posix>>
    /\ NoteRaces

LockCrash(p) ==
    /\ crashes < MaxLockCrashes
    /\ lockPc[p] # "idle"
    /\ crashes' = crashes + 1
    /\ LockGoTo(p, "idle")
    /\ UNCHANGED <<file, posix>>
    /\ NoteRaces

\* stale_after_seconds pass after the file was written.
GrowOld ==
    /\ \E f \in file : ~f.old /\ (lockPc[f.owner] \in {"held", "closed"} => LongRuns)
    /\ file' = {[f EXCEPT !.old = TRUE] : f \in file}
    /\ UNCHANGED <<lockPc, crashes, posix>>
    /\ NoteRaces

Enter(p) == Look(p) \/ RemoveStale(p) \/ Create(p)

Exit(p) == Close(p) \/ ExitUnlink(p)

LockNext ==
    \/ GrowOld
    \/ \E p \in Process : Start(p) \/ Enter(p) \/ Exit(p) \/ LockCrash(p)

LockSpec == LockInit /\ [][LockNext]_lockVars

\* The scheduler starts the collectors again and again, a started process
\* runs, a run ends, and time passes.
LockFairness ==
    /\ WF_lockVars(GrowOld)
    /\ \A p \in Process : WF_lockVars(Start(p)) /\ WF_lockVars(Enter(p)) /\ WF_lockVars(Exit(p))

LockFairSpec == LockSpec /\ LockFairness

-----------------------------------------------------------------------------
(* Properties. *)

\* There is at most one lock file.
LockTypeOK ==
    /\ file \in SUBSET [owner : Process, old : BOOLEAN]
    /\ \A f, g \in file : f = g
    /\ lockPc \in [Process -> LockLocations]
    /\ crashes \in 0..MaxLockCrashes
    /\ posix \in BOOLEAN
    /\ raced \in BOOLEAN

OneHolder == \A p, q \in Process : lockPc[p] = "held" /\ lockPc[q] = "held" => p = q

HolderKeepsFile == \A p \in Process : lockPc[p] = "held" => \E f \in file : f.owner = p

\* Two runs of a collector never overlap: on Windows never, whoever recovers a
\* stale lock while another one does the same; on POSIX unless two processes
\* have recovered one at once or a run has outlasted the limit.
MutualExclusion == OneHolder \/ (posix /\ raced)

\* The run that holds the lock has its file, with the same exception: no other
\* process's late unlink has removed it.
HolderHasFile == HolderKeepsFile \/ (posix /\ raced)

\* A lock file whose process has died does not keep the collector out for
\* good.
StaleLockRemoved ==
    (\E f \in file : lockPc[f.owner] \notin {"held", "closed"})
        ~> ~ \E f \in file : lockPc[f.owner] \notin {"held", "closed"}
=============================================================================
