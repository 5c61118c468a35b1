----------------------------- MODULE CommonProofs -----------------------------
(***************************************************************************)
(* Proofs about CoupangCollect, for every number of keywords, retries and  *)
(* faults, about FileLock, for every set of processes and any number of    *)
(* crashes, and about WindowRateLimiter, for every set of windows and      *)
(* threads.  The three have little in common; where two of them have a     *)
(* definition of the same kind the lock's is named Lock... or lock... and  *)
(* the limiter's Limiter... or limiter....                                 *)
(***************************************************************************)
EXTENDS CoupangCollect, FileLock, WindowRateLimiter, FiniteSetTheorems, TLAPS

-----------------------------------------------------------------------------
(* The file lock.  With at most one file there is at most one holder as    *)
(* long as every holder keeps its file.  Where an open file cannot be      *)
(* unlinked it does; elsewhere it does as long as whoever is about to      *)
(* unlink a stale file is alone, and the file's owner is gone.             *)

LiveFile(f) == lockPc[f.owner] \in {"held", "closed"}

\* Until it leaves, a run has its file.
LiveKeepsFile ==
    \A p \in Process : lockPc[p] \in {"held", "closed"} => \E f \in file : f.owner = p

\* The stale file a process is about to unlink is still there, and nobody's.
StaleStays ==
    \A p \in Process : lockPc[p] = "remove" => \E f \in file : f.old /\ ~LiveFile(f)

LockInv ==
    /\ LockTypeOK
    /\ Race => raced
    /\ ~posix => HolderKeepsFile
    /\ ~raced /\ posix => LiveKeepsFile /\ StaleStays

\* Unlinking leaves at most the file that was there, and, where the open file
\* stays, the holder's.
LEMMA UnlinkKeeps ==
  ASSUME LockTypeOK, Unlink
  PROVE  /\ file' \in SUBSET file
         /\ ~posix => \A f \in file : lockPc[f.owner] = "held" => f \in file'
         /\ posix => file' = {}
  BY DEF LockTypeOK, Unlink, OpenFiles

LEMMA LockStart == LockInit => LockInv
<1> SUFFICES ASSUME LockInit PROVE LockInv
  OBVIOUS
<1>1. LockTypeOK
  <2>1. posix \in BOOLEAN /\ raced \in BOOLEAN
    BY DEF LockInit
  <2>2. /\ file = {} /\ crashes \in 0..MaxLockCrashes
        /\ lockPc \in [Process -> LockLocations]
    BY LockAssumption DEF LockInit, LockLocations
  <2>3. QED
    BY <2>1, <2>2 DEF LockTypeOK
<1>2. ~Race
  BY DEF LockInit, Race
<1>3. HolderKeepsFile /\ LiveKeepsFile /\ StaleStays
  BY DEF LockInit, HolderKeepsFile, LiveKeepsFile, StaleStays
<1>4. QED
  BY <1>1, <1>2, <1>3 DEF LockInv

\* The system stays what it is, and every step notes the races.
LEMMA LockFrame ==
  ASSUME LockNext
  PROVE  posix' = posix /\ NoteRaces
<1>1. CASE GrowOld
  BY <1>1 DEF GrowOld
<1>2. ASSUME NEW p \in Process, Start(p) \/ Enter(p) \/ Exit(p) \/ LockCrash(p)
      PROVE  posix' = posix /\ NoteRaces
  BY <1>2 DEF Start, Enter, Exit, LockCrash, Look, RemoveStale, Create, Close, ExitUnlink
<1>3. QED
  BY <1>1, <1>2 DEF LockNext

LEMMA LockHistoryType ==
  LockTypeOK /\ [LockNext]_lockVars => posix' \in BOOLEAN /\ raced' \in BOOLEAN
<1> SUFFICES ASSUME LockTypeOK, [LockNext]_lockVars
             PROVE  posix' \in BOOLEAN /\ raced' \in BOOLEAN
  OBVIOUS
<1>1. CASE UNCHANGED lockVars
  BY <1>1 DEF lockVars, LockTypeOK
<1>2. CASE LockNext
  <2>1. posix' = posix /\ raced' = (~AllIdle' /\ (raced \/ Race'))
    BY <1>2, LockFrame DEF NoteRaces
  <2>2. raced' \in BOOLEAN
    BY <2>1, Zenon
  <2>3. QED
    BY <2>1, <2>2 DEF LockTypeOK
<1>3. QED
  BY <1>1, <1>2

LEMMA LockTypeStep == LockTypeOK /\ [LockNext]_lockVars => LockTypeOK'
<1> SUFFICES ASSUME LockTypeOK, [LockNext]_lockVars PROVE LockTypeOK'
  OBVIOUS
<1>0. posix' \in BOOLEAN /\ raced' \in BOOLEAN
  BY LockHistoryType
<1> USE <1>0 DEF LockTypeOK, LockLocations, LockGoTo
<1>1. CASE UNCHANGED lockVars
  BY <1>1 DEF lockVars
<1>2. CASE GrowOld
  <2>1. file' = {[f EXCEPT !.old = TRUE] : f \in file} /\ UNCHANGED <<lockPc, crashes>>
    BY <1>2 DEF GrowOld
  <2>2. \A f \in file : [f EXCEPT !.old = TRUE] \in [owner : Process, old : BOOLEAN]
    <3>1. \A f \in [owner : Process, old : BOOLEAN] :
            [f EXCEPT !.old = TRUE] \in [owner : Process, old : BOOLEAN]
      OBVIOUS
    <3>2. QED
      BY <3>1
  <2>3. \A f, g \in file' : f = g
    BY <2>1
  <2>4. QED
    BY <2>1, <2>2, <2>3
<1>3. ASSUME NEW p \in Process, Start(p) \/ Look(p) \/ Close(p)
      PROVE  LockTypeOK'
  BY <1>3 DEF Start, Look, Close
<1>4. ASSUME NEW p \in Process, RemoveStale(p) \/ ExitUnlink(p)
      PROVE  LockTypeOK'
  <2>1. file' \in SUBSET file
    BY <1>4, UnlinkKeeps DEF RemoveStale, ExitUnlink
  <2>2. QED
    BY <1>4, <2>1 DEF RemoveStale, ExitUnlink
<1>5. ASSUME NEW p \in Process, Create(p)
      PROVE  LockTypeOK'
  <2>1. CASE file = {}
    <3>1. file' = {[owner |-> p, old |-> FALSE]}
      BY <1>5, <2>1 DEF Create
    <3>2. lockPc' \in [Process -> LockLocations] /\ crashes' = crashes
      BY <1>5, <2>1 DEF Create
    <3>3. [owner |-> p, old |-> FALSE] \in [owner : Process, old : BOOLEAN]
      OBVIOUS
    <3>4. file' \in SUBSET [owner : Process, old : BOOLEAN]
      BY <3>1, <3>3
    <3>5. \A f, g \in file' : f = g
      BY <3>1
    <3>6. QED
      BY <3>2, <3>4, <3>5
  <2>2. CASE file # {}
    BY <1>5, <2>2 DEF Create
  <2>3. QED
    BY <2>1, <2>2
<1>6. ASSUME NEW p \in Process, LockCrash(p)
      PROVE  LockTypeOK'
  BY <1>6, LockAssumption DEF LockCrash
<1>7. QED
  BY <1>1, <1>2, <1>3, <1>4, <1>5, <1>6 DEF LockNext, Enter, Exit

LEMMA LockHolderNext ==
  ~posix /\ LockTypeOK /\ HolderKeepsFile /\ [LockNext]_lockVars => HolderKeepsFile'
<1> SUFFICES ASSUME ~posix, LockTypeOK, HolderKeepsFile, [LockNext]_lockVars
             PROVE  HolderKeepsFile'
  OBVIOUS
<1> USE DEF LockTypeOK, HolderKeepsFile, LockLocations, LockGoTo
<1>1. CASE UNCHANGED lockVars
  BY <1>1 DEF lockVars
<1>2. CASE GrowOld
  <2>1. \A f \in file : [f EXCEPT !.old = TRUE].owner = f.owner
    OBVIOUS
  <2>2. \A f \in file : [f EXCEPT !.old = TRUE] \in file' /\ lockPc' = lockPc
    BY <1>2 DEF GrowOld
  <2>3. ASSUME NEW p \in Process, lockPc'[p] = "held"
        PROVE  \E f \in file' : f.owner = p
    <3>1. lockPc[p] = "held"
      BY <1>2, <2>3 DEF GrowOld
    <3>2. PICK f \in file : f.owner = p
      BY <3>1
    <3>3. QED
      BY <2>1, <2>2, <3>2
  <2>4. QED
    BY <2>3
<1>3. ASSUME NEW p \in Process, Start(p) \/ Look(p) \/ Close(p) \/ LockCrash(p)
      PROVE  HolderKeepsFile'
  BY <1>3 DEF Start, Look, Close, LockCrash
<1>4. ASSUME NEW p \in Process, RemoveStale(p) \/ ExitUnlink(p)
      PROVE  HolderKeepsFile'
  <2>1. \A f \in file : lockPc[f.owner] = "held" => f \in file'
    BY <1>4, UnlinkKeeps DEF RemoveStale, ExitUnlink
  <2>2. \A q \in Process : lockPc'[q] = "held" => lockPc[q] = "held"
    BY <1>4 DEF RemoveStale, ExitUnlink
  <2>3. QED
    BY <2>1, <2>2
<1>5. ASSUME NEW p \in Process, Create(p)
      PROVE  HolderKeepsFile'
  <2>1. CASE file = {}
    <3>1. \A q \in Process : lockPc[q] # "held"
      BY <2>1
    <3>2. lockPc' = [lockPc EXCEPT ![p] = "held"] /\ file' = {[owner |-> p, old |-> FALSE]}
      BY <1>5, <2>1 DEF Create
    <3>3. \A q \in Process : lockPc'[q] = "held" => q = p
      BY <3>1, <3>2
    <3>4. \E f \in file' : f.owner = p
      BY <3>2
    <3>5. QED
      BY <3>3, <3>4
  <2>2. CASE file # {}
    BY <1>5, <2>2 DEF Create
  <2>3. QED
    BY <2>1, <2>2
<1>6. QED
  BY <1>1, <1>2, <1>3, <1>4, <1>5 DEF LockNext, Enter, Exit

\* A race that has been noted stays noted until all processes are idle.
LEMMA RaceNoted ==
  LockTypeOK /\ (Race => raced) /\ [LockNext]_lockVars => (Race' => raced')
<1> SUFFICES ASSUME LockTypeOK, Race => raced, [LockNext]_lockVars, Race'
             PROVE  raced'
  OBVIOUS
<1>1. CASE UNCHANGED lockVars
  <2>1. Race
    BY <1>1 DEF lockVars, Race
  <2>2. QED
    BY <1>1, <2>1 DEF lockVars
<1>2. CASE LockNext
  <2>1. LockTypeOK'
    BY LockTypeStep
  <2>2. ~AllIdle'
    BY <2>1 DEF Race, AllIdle, LockTypeOK
  <2>3. QED
    BY <1>2, <2>2, LockFrame DEF NoteRaces
<1>3. QED
  BY <1>1, <1>2

\* On POSIX, step by step, where no race is noted.
LEMMA LockStaleStep ==
  ASSUME LockTypeOK, ~Race, posix, LiveKeepsFile, StaleStays, LockNext, ~Race', LockTypeOK'
  PROVE  LiveKeepsFile' /\ StaleStays'
<1> USE DEF LockTypeOK, LockLocations, LockGoTo, LiveKeepsFile, StaleStays, LiveFile
<1>1. CASE GrowOld
  <2>1. lockPc' = lockPc /\ \A f \in file : [f EXCEPT !.old = TRUE] \in file'
    BY <1>1 DEF GrowOld
  <2>2. \A f \in [owner : Process, old : BOOLEAN] :
          LET g == [f EXCEPT !.old = TRUE] IN g.old /\ g.owner = f.owner
    OBVIOUS
  <2>3. ASSUME NEW p \in Process, lockPc[p] \in {"held", "closed"}
        PROVE  \E f \in file' : f.owner = p
    <3>1. PICK f \in file : f.owner = p
      BY <2>3
    <3>2. QED
      BY <2>1, <2>2, <3>1
  <2>4. ASSUME NEW p \in Process, lockPc[p] = "remove"
        PROVE  \E f \in file' : f.old /\ lockPc[f.owner] \notin {"held", "closed"}
    <3>1. PICK f \in file : f.old /\ lockPc[f.owner] \notin {"held", "closed"}
      BY <2>4
    <3>2. QED
      BY <2>1, <2>2, <3>1
  <2>5. QED
    BY <2>1, <2>3, <2>4
<1>2. ASSUME NEW p \in Process, Start(p) \/ Close(p)
      PROVE  LiveKeepsFile' /\ StaleStays'
  <2>1. /\ file' = file
        /\ \A q \in Process : lockPc'[q] \in {"held", "closed"}
                                <=> lockPc[q] \in {"held", "closed"}
        /\ \A q \in Process : lockPc'[q] = "remove" => lockPc[q] = "remove"
    <3>1. CASE Start(p)
      BY <3>1 DEF Start
    <3>2. CASE Close(p)
      BY <3>2 DEF Close
    <3>3. QED
      BY <1>2, <3>1, <3>2
  <2>2. LiveKeepsFile'
    BY <2>1
  <2>3. \A f \in file : f.owner \in Process
    OBVIOUS
  <2>4. StaleStays'
    BY <2>1, <2>3
  <2>5. QED
    BY <2>2, <2>4
<1>3. ASSUME NEW p \in Process, Look(p)
      PROVE  LiveKeepsFile' /\ StaleStays'
  <2>1. /\ file' = file
        /\ lockPc' = [lockPc EXCEPT ![p] = IF \E f \in file : f.old THEN "remove"
                                                                    ELSE "create"]
        /\ lockPc[p] = "look"
    BY <1>3 DEF Look
  <2>2. \A q \in Process : lockPc'[q] \in {"held", "closed"}
                             <=> lockPc[q] \in {"held", "closed"}
    BY <2>1
  <2>3. LiveKeepsFile'
    BY <2>1, <2>2
  <2>4. ASSUME NEW q \in Process, lockPc'[q] = "remove"
        PROVE  \E f \in file' : f.old /\ lockPc'[f.owner] \notin {"held", "closed"}
    <3>1. \E f \in file : f.old
      BY <2>1, <2>4
    <3>2. PICK f \in file : f.old
      BY <3>1
    <3>3. f \in file' /\ lockPc'[f.owner] \notin {"held", "closed"}
      BY <2>1, <3>2 DEF Race
    <3>4. QED
      BY <3>2, <3>3
  <2>5. QED
    BY <2>3, <2>4
<1>4. ASSUME NEW p \in Process, RemoveStale(p)
      PROVE  LiveKeepsFile' /\ StaleStays'
  \* p is alone, and the only file is nobody's.
  <2>1. file' = {} /\ lockPc[p] = "remove"
    BY <1>4, UnlinkKeeps DEF RemoveStale
  <2>2. \A q \in Process : lockPc[q] \notin {"held", "closed"}
    BY <2>1
  <2>3. \A q \in Process : lockPc'[q] \notin {"held", "closed", "remove"}
    BY <1>4, <2>1, <2>2 DEF RemoveStale, Race
  <2>4. QED
    BY <2>3
<1>5. ASSUME NEW p \in Process, Create(p)
      PROVE  LiveKeepsFile' /\ StaleStays'
  <2>1. CASE file = {}
    <3>1. \A q \in Process : lockPc[q] \notin {"held", "closed", "remove"}
      BY <2>1
    <3>2. lockPc' = [lockPc EXCEPT ![p] = "held"] /\ file' = {[owner |-> p, old |-> FALSE]}
      BY <1>5, <2>1 DEF Create
    <3>3. \A q \in Process : lockPc'[q] \in {"held", "closed", "remove"} => q = p
      BY <3>1, <3>2
    <3>4. lockPc'[p] = "held" /\ \E f \in file' : f.owner = p
      BY <3>2
    <3>5. QED
      BY <3>3, <3>4
  <2>2. CASE file # {}
    BY <1>5, <2>2 DEF Create
  <2>3. QED
    BY <2>1, <2>2
<1>6. ASSUME NEW p \in Process, ExitUnlink(p)
      PROVE  LiveKeepsFile' /\ StaleStays'
  \* The only file is p's: nobody else holds one, nobody removes one.
  <2>1. file' = {} /\ lockPc[p] = "closed" /\ lockPc' = [lockPc EXCEPT ![p] = "idle"]
    BY <1>6, UnlinkKeeps DEF ExitUnlink
  <2>2. PICK f \in file : f.owner = p
    BY <2>1
  <2>3. \A q \in Process : lockPc[q] \in {"held", "closed"} => q = p
    BY <2>2
  <2>4. \A q \in Process : lockPc[q] # "remove"
    BY <2>1, <2>2
  <2>5. \A q \in Process : lockPc'[q] \notin {"held", "closed", "remove"}
    BY <2>1, <2>3, <2>4
  <2>6. QED
    BY <2>5
<1>7. ASSUME NEW p \in Process, LockCrash(p)
      PROVE  LiveKeepsFile' /\ StaleStays'
  <2>1. /\ file' = file
        /\ \A q \in Process : lockPc'[q] \in {"held", "closed"}
                                => lockPc[q] \in {"held", "closed"}
        /\ \A q \in Process : lockPc'[q] = "remove" => lockPc[q] = "remove"
    BY <1>7 DEF LockCrash
  <2>2. QED
    BY <2>1
<1>8. QED
  BY <1>1, <1>2, <1>3, <1>4, <1>5, <1>6, <1>7 DEF LockNext, Enter, Exit

LEMMA LockStaleNext ==
  LockInv /\ [LockNext]_lockVars => (~raced /\ posix => LiveKeepsFile /\ StaleStays)'
<1> SUFFICES ASSUME LockInv, [LockNext]_lockVars, ~raced', posix'
             PROVE  LiveKeepsFile' /\ StaleStays'
  OBVIOUS
<1>1. LockTypeOK' /\ ~Race'
  BY LockTypeStep, RaceNoted DEF LockInv
<1>2. CASE UNCHANGED lockVars
  BY <1>2 DEF lockVars, LockInv, LiveKeepsFile, StaleStays, LiveFile
<1>3. CASE LockNext
  <2>1. posix /\ (AllIdle' \/ ~raced)
    BY <1>3, LockFrame DEF NoteRaces
  <2>2. CASE AllIdle'
    BY <2>2 DEF AllIdle, LiveKeepsFile, StaleStays
  <2>3. CASE ~raced
    BY <1>1, <1>3, <2>1, <2>3, LockStaleStep DEF LockInv
  <2>4. QED
    BY <2>1, <2>2, <2>3
<1>4. QED
  BY <1>2, <1>3

LEMMA LockInvHolds == LockSpec => []LockInv
<1>1. LockInv /\ [LockNext]_lockVars => LockInv'
  <2> SUFFICES ASSUME LockInv, [LockNext]_lockVars PROVE LockInv'
    OBVIOUS
  <2>1. LockTypeOK' /\ (Race' => raced')
    BY LockTypeStep, RaceNoted DEF LockInv
  <2>2. (~raced /\ posix => LiveKeepsFile /\ StaleStays)'
    BY LockStaleNext
  <2>3. posix' = posix
    BY LockFrame DEF lockVars
  <2>4. ~posix' => HolderKeepsFile'
    BY <2>3, LockHolderNext DEF LockInv
  <2>5. QED
    BY <2>1, <2>2, <2>4 DEF LockInv
<1>2. QED
  BY <1>1, LockStart, PTL DEF LockSpec

\* Type correctness: at most one lock file, on either system.
THEOREM LockTypeCorrect == LockSpec => []LockTypeOK
<1>1. LockInv => LockTypeOK
  BY DEF LockInv
<1>2. QED
  BY <1>1, LockInvHolds, PTL

LEMMA HolderKept == LockInv => HolderKeepsFile \/ (posix /\ raced)
  BY DEF LockInv, HolderKeepsFile, LiveKeepsFile

\* Two runs of a collector never overlap: on Windows however many processes
\* recover a stale lock at once and however long the runs are, on POSIX as long
\* as a stale lock is recovered by one process at a time and no run outlasts the
\* limit.
THEOREM LockExcludes == LockSpec => []MutualExclusion
<1>1. LockInv => MutualExclusion
  <2>1. SUFFICES ASSUME LockInv, HolderKeepsFile, NEW p \in Process, NEW q \in Process,
                        lockPc[p] = "held", lockPc[q] = "held"
                 PROVE  p = q
    BY HolderKept DEF MutualExclusion, OneHolder
  <2>2. PICK f \in file : f.owner = p
    BY <2>1 DEF HolderKeepsFile
  <2>3. PICK g \in file : g.owner = q
    BY <2>1 DEF HolderKeepsFile
  <2>4. QED
    BY <2>1, <2>2, <2>3 DEF LockInv, LockTypeOK
<1>2. QED
  BY <1>1, LockInvHolds, PTL

\* The holder's lock file is its own until it leaves, on either system and under
\* the same condition.
THEOREM LockFileIsKept == LockSpec => []HolderHasFile
<1>1. LockInv => HolderHasFile
  BY HolderKept DEF HolderHasFile
<1>2. QED
  BY <1>1, LockInvHolds, PTL

-----------------------------------------------------------------------------
(* The window rate limiter. *)

\* The call log is in time order and not ahead of the clock, of the clock
\* the lock's holder has read, or of a window that has let a call go.
Sorted == \A k, l \in 1..Len(granted) : k <= l => granted[k] <= granted[l]

\* time is not before any grant.
After(time) == \A k \in 1..Len(granted) : granted[k] <= time

\* At that time the calls the deques have let go are out of their windows.
Gone(time) ==
    \A i \in Window : \A k \in 1..(first[i] - 1) : granted[k] + Period[i] <= time

LogInv ==
    /\ Sorted
    /\ After(now)
    /\ Gone(now)
    /\ \A t \in Thread :
        /\ readAt[t] <= now
        /\ pc[t] = "check" => After(readAt[t]) /\ Gone(readAt[t])

LimiterInv == LimiterTypeOK /\ LogInv /\ WindowRespected

LEMMA LogTypes ==
  ASSUME LimiterTypeOK
  PROVE  /\ granted \in Seq(Nat)
         /\ Len(granted) \in Nat
         /\ \A k \in 1..Len(granted) : granted[k] \in Nat
         /\ \A i \in Window : /\ Period[i] \in Nat /\ Period[i] > 0
                              /\ MaxCalls[i] \in Nat /\ MaxCalls[i] > 0
                              /\ first[i] \in Nat /\ first[i] > 0
                              /\ first[i] <= Len(granted) + 1
                              /\ Len(granted) + 1 - first[i] <= MaxCalls[i]
         /\ now \in Nat
         /\ \A t \in Thread : readAt[t] \in Nat
<1>1. granted \in Seq(Nat)
  BY DEF LimiterTypeOK
<1>2. /\ Len(granted) \in Nat
      /\ \A k \in 1..Len(granted) : granted[k] \in Nat
  BY <1>1
<1>3. \A i \in Window : /\ Period[i] \in Nat /\ Period[i] > 0
                         /\ MaxCalls[i] \in Nat /\ MaxCalls[i] > 0
  BY LimiterAssumption
<1>4. \A i \in Window : /\ first[i] \in Nat /\ first[i] > 0
                         /\ first[i] <= Len(granted) + 1
                         /\ Len(granted) + 1 - first[i] <= MaxCalls[i]
  BY DEF LimiterTypeOK
<1>5. now \in Nat /\ \A t \in Thread : readAt[t] \in Nat
  BY DEF LimiterTypeOK
<1>6. QED
  BY <1>1, <1>2, <1>3, <1>4, <1>5

-----------------------------------------------------------------------------

LEMMA LimiterInvInit == LimiterInit => LimiterInv
<1> SUFFICES ASSUME LimiterInit PROVE LimiterInv
  OBVIOUS
<1>1. granted = <<>> /\ granted \in Seq(Nat) /\ Len(granted) = 0
  BY DEF LimiterInit
<1>2. LimiterTypeOK
  BY <1>1, LimiterAssumption DEF LimiterInit, LimiterTypeOK, Locations, Locked
<1>3. LogInv
  BY <1>1 DEF LimiterInit, LogInv, Sorted, After, Gone
<1>4. WindowRespected
  <2>1. \A i \in Window : 1..(0 - MaxCalls[i]) = {}
    BY LimiterAssumption
  <2>2. QED
    BY <1>1, <2>1 DEF WindowRespected
<1>5. QED
  BY <1>2, <1>3, <1>4 DEF LimiterInv

\* Grants that are in the past stay there.
LEMMA Later ==
  ASSUME LimiterTypeOK, NEW early \in Nat, NEW late \in Nat, early <= late
  PROVE  /\ After(early) => After(late)
         /\ Gone(early) => Gone(late)
<1>1. ASSUME After(early), NEW k \in 1..Len(granted) PROVE granted[k] <= late
  BY <1>1, LogTypes DEF After
<1>2. ASSUME Gone(early), NEW i \in Window, NEW k \in 1..(first[i] - 1)
      PROVE  granted[k] + Period[i] <= late
  <2>1. granted[k] + Period[i] <= early
    BY <1>2 DEF Gone
  <2>2. k \in 1..Len(granted)
    BY LogTypes
  <2>3. granted[k] \in Nat /\ Period[i] \in Nat
    BY <2>2, LogTypes
  <2>4. QED
    BY <2>1, <2>3
<1>3. QED
  BY <1>1, <1>2 DEF After, Gone

\* Steps that leave the log and the deques alone.
LEMMA LimiterFrame ==
  ASSUME LimiterInv, UNCHANGED <<granted, first>>, now' \in Nat, now' >= now,
         \A t \in Thread : /\ readAt'[t] <= now'
                           /\ pc'[t] = "check" =>
                                \/ readAt'[t] = now'
                                \/ pc[t] = "check" /\ readAt'[t] = readAt[t]
  PROVE  LogInv' /\ WindowRespected'
<1>0. LimiterTypeOK /\ now \in Nat /\ LogInv
  BY DEF LimiterInv, LimiterTypeOK
<1>2. After(now') /\ Gone(now')
  BY <1>0, Later DEF LogInv
<1>3. \A t \in Thread : pc'[t] = "check" => After(readAt'[t]) /\ Gone(readAt'[t])
  BY <1>0, <1>2 DEF LogInv
<1>4. LogInv'
  BY <1>0, <1>2, <1>3 DEF LogInv, Sorted, After, Gone
<1>5. WindowRespected'
  BY DEF LimiterInv, WindowRespected
<1>6. QED
  BY <1>4, <1>5

LEMMA LimiterOthers ==
  ASSUME LimiterInv, NEW t \in Thread,
         Call(t) \/ Acquire(t) \/ ReadClock(t) \/ Wake(t)
  PROVE  LimiterInv'
<1>1. LimiterTypeOK
  BY DEF LimiterInv
<1>2. UNCHANGED <<granted, first, now>>
  BY DEF Call, Acquire, ReadClock, Wake
<1>3. LimiterTypeOK'
  <2>1. CASE Call(t)
    <3>1. calls' \in [Thread -> 0..CallsPerThread] /\ slept' \in [Thread -> BOOLEAN]
      BY <1>1, <2>1, LimiterAssumption DEF Call, LimiterTypeOK
    <3>2. pc' = [pc EXCEPT ![t] = "waiting"] /\ UNCHANGED <<readAt, wakeAt>>
      BY <2>1 DEF Call, GoTo
    <3>3. /\ pc' \in [Thread -> Locations]
          /\ \A u, v \in Thread : pc'[u] \in Locked /\ pc'[v] \in Locked => u = v
      BY <1>1, <3>2 DEF LimiterTypeOK, Locations, Locked
    <3>4. QED
      BY <1>1, <1>2, <3>1, <3>2, <3>3 DEF LimiterTypeOK
  <2>2. CASE Acquire(t)
    BY <1>1, <2>2 DEF Acquire, GoTo, LockFree, LimiterTypeOK, Locations, Locked
  <2>3. CASE ReadClock(t)
    BY <1>1, <2>3 DEF ReadClock, GoTo, LimiterTypeOK, Locations, Locked
  <2>4. CASE Wake(t)
    BY <1>1, <2>4 DEF Wake, GoTo, LimiterTypeOK, Locations, Locked
  <2>5. QED
    BY <2>1, <2>2, <2>3, <2>4
<1>4. now' \in Nat /\ now' >= now
  BY <1>1, <1>2 DEF LimiterTypeOK
<1>5. \A u \in Thread : /\ readAt'[u] <= now'
                        /\ pc'[u] = "check" =>
                             \/ readAt'[u] = now'
                             \/ pc[u] = "check" /\ readAt'[u] = readAt[u]
  <2>1. \A u \in Thread : readAt[u] <= now
    BY DEF LimiterInv, LogInv
  <2>2. CASE ReadClock(t)
    BY <1>1, <1>2, <1>4, <2>1, <2>2 DEF ReadClock, GoTo, LimiterTypeOK
  <2>3. CASE Call(t) \/ Acquire(t) \/ Wake(t)
    BY <1>1, <1>2, <2>1, <2>3 DEF Call, Acquire, Wake, GoTo, LimiterTypeOK
  <2>4. QED
    BY <2>2, <2>3
<1>6. LogInv' /\ WindowRespected'
  BY <1>2, <1>4, <1>5, LimiterFrame
<1>7. QED
  BY <1>3, <1>6 DEF LimiterInv

\* What the deques have let go is out of its window at the time read.
LEMMA Expiry ==
  ASSUME LimiterTypeOK, NEW at \in Nat, Gone(at),
         NEW i \in Window, NEW start \in Nat, Expire(i, at, start)
  PROVE  /\ first[i] <= start /\ start <= Len(granted) + 1
         /\ \A k \in 1..(start - 1) : granted[k] + Period[i] <= at
<1>1. start \in first[i]..(Len(granted) + 1)
  BY DEF Expire
<1>2. first[i] <= start /\ start <= Len(granted) + 1
  BY <1>1, LogTypes
<1>3. ASSUME NEW k \in 1..(start - 1) PROVE granted[k] + Period[i] <= at
  <2>1. granted[k] \in Nat /\ Period[i] \in Nat
    <3>1. Len(granted) \in Nat /\ Period[i] \in Nat
      BY LogTypes
    <3>2. k \in 1..Len(granted)
      BY <1>2, <3>1
    <3>3. QED
      BY <3>1, <3>2, LogTypes
  <2>2. CASE k < first[i]
    BY <2>2, LogTypes DEF Gone
  <2>3. CASE k >= first[i]
    <3>1. k \in first[i]..(start - 1)
      BY <2>3, LogTypes
    <3>2. at - granted[k] >= Period[i]
      BY <3>1 DEF Expire, Expired
    <3>3. QED
      BY <2>1, <3>2
  <2>4. QED
    BY <2>2, <2>3, LogTypes
<1>4. QED
  BY <1>2, <1>3

LEMMA LimiterCheck ==
  ASSUME LimiterInv, NEW t \in Thread, Check(t)
  PROVE  LimiterInv'
<1>1. LimiterTypeOK /\ LogInv /\ WindowRespected
  BY DEF LimiterInv
<1>2. pc[t] = "check" /\ UNCHANGED <<now, readAt, calls>>
  BY DEF Check
<1>3. PICK starts \in [Window -> 1..(Len(granted) + 1)] :
        /\ \A i \in Window : Expire(i, readAt[t], starts[i])
        /\ first' = starts
        /\ Grant(t, starts) \/ Sleep(t, starts)
  BY DEF Check
<1>4. /\ now \in Nat /\ readAt[t] \in Nat /\ readAt[t] <= now
      /\ After(readAt[t]) /\ Gone(readAt[t])
  BY <1>1, <1>2 DEF LimiterTypeOK, LogInv
<1>5. \A i \in Window : starts[i] \in Nat /\ starts[i] > 0
  <2>1. Len(granted) \in Nat
    BY <1>1, LogTypes
  <2>2. \A i \in Window : starts[i] \in 1..(Len(granted) + 1)
    BY <1>3
  <2>3. QED
    BY <2>1, <2>2
<1>6. \A i \in Window :
        /\ first[i] <= starts[i] /\ starts[i] <= Len(granted) + 1
        /\ \A k \in 1..(starts[i] - 1) : granted[k] + Period[i] <= readAt[t]
  BY <1>1, <1>3, <1>4, <1>5, Expiry
<1>7. \A u \in Thread : pc'[u] # "check"
  <2>1. \A u \in Thread : pc[u] = "check" => u = t
    BY <1>1, <1>2 DEF LimiterTypeOK, Locked
  <2>2. QED
    BY <1>1, <1>3, <2>1 DEF LimiterTypeOK, Grant, Sleep, GoTo
<1>8. \A u \in Thread : readAt'[u] <= now'
  BY <1>1, <1>2 DEF LogInv
<1>9. first' \in [Window -> Nat \ {0}]
  BY <1>3, <1>5
<1>10. \A i \in Window : Len(granted) + 1 - starts[i] <= MaxCalls[i]
  <2>1. Len(granted) \in Nat
    BY <1>1, LogTypes
  <2>2. \A i \in Window : /\ first[i] \in Nat /\ MaxCalls[i] \in Nat
                         /\ Len(granted) + 1 - first[i] <= MaxCalls[i]
    BY <1>1, LogTypes
  <2>3. QED
    BY <1>5, <1>6, <2>1, <2>2
<1>11. CASE Sleep(t, starts)
  <2>1. granted' = granted
    BY <1>11 DEF Sleep
  <2>2. PICK wait \in Waits(starts, readAt[t]) :
            wakeAt' = [wakeAt EXCEPT ![t] = now + wait]
    BY <1>11 DEF Sleep
  <2>3. wait \in Nat
    <3>1. PICK i \in FullWindows(starts) :
            wait = Period[i] - (readAt[t] - granted[starts[i]])
      BY <2>2 DEF Waits
    <3>2. i \in Window /\ Len(granted) + 1 - starts[i] >= MaxCalls[i]
      BY <3>1 DEF FullWindows, Full
    <3>3. starts[i] \in 1..Len(granted)
      BY <3>2, <1>1, <1>5, <1>6, LogTypes
    <3>4. ~(readAt[t] - granted[starts[i]] >= Period[i])
      BY <1>3, <3>2, <3>3, <1>1, LogTypes DEF Expire, Expired
    <3>5. granted[starts[i]] \in Nat /\ Period[i] \in Nat
      BY <1>1, <3>2, <3>3, LogTypes
    <3>6. QED
      BY <3>1, <3>4, <3>5, <1>4
  <2>4. wakeAt' \in [Thread -> Nat]
    BY <1>1, <1>4, <2>2, <2>3 DEF LimiterTypeOK
  <2>5. slept' \in [Thread -> BOOLEAN] /\ pc' \in [Thread -> Locations]
    BY <1>1, <1>11 DEF LimiterTypeOK, Sleep, GoTo, Locations
  <2>6. \A u, v \in Thread : pc'[u] \in Locked /\ pc'[v] \in Locked => u = v
    BY <1>1, <1>2, <1>11 DEF LimiterTypeOK, Sleep, GoTo, Locked
  <2>7. LimiterTypeOK'
    BY <1>1, <1>2, <1>3, <1>6, <1>9, <1>10, <2>1, <2>4, <2>5, <2>6 DEF LimiterTypeOK
  <2>8. Gone(now)'
    <3>1. ASSUME NEW i \in Window, NEW k \in 1..(starts[i] - 1)
          PROVE  granted[k] + Period[i] <= now
      <4>1. granted[k] \in Nat /\ Period[i] \in Nat
        BY <1>1, <1>5, <1>6, LogTypes
      <4>2. QED
        BY <1>4, <1>6, <4>1
    <3>2. QED
      BY <1>2, <1>3, <2>1, <3>1 DEF Gone
  <2>9. LogInv' /\ WindowRespected'
    BY <1>1, <1>2, <1>7, <1>8, <2>1, <2>8
    DEF LogInv, Sorted, After, WindowRespected
  <2>10. QED
    BY <2>7, <2>9 DEF LimiterInv
<1>12. CASE Grant(t, starts)
  <2>1. granted' = Append(granted, readAt[t]) /\ UNCHANGED <<wakeAt, slept>>
    BY <1>12 DEF Grant
  <2>2. \A i \in Window : Len(granted) + 1 - starts[i] < MaxCalls[i]
    <3>1. \A i \in Window : ~(Len(granted) + 1 - starts[i] >= MaxCalls[i])
      BY <1>12 DEF Grant, FullWindows, Full
    <3>2. QED
      BY <3>1, <1>1, <1>5, LogTypes
  <2>3. granted \in Seq(Nat) /\ Len(granted) \in Nat
    BY <1>1, LogTypes
  <2>4. /\ granted' \in Seq(Nat)
        /\ Len(granted') = Len(granted) + 1
        /\ granted'[Len(granted) + 1] = readAt[t]
        /\ \A k \in 1..Len(granted) : granted'[k] = granted[k]
    BY <1>4, <2>1, <2>3
  <2>5. \A i \in Window : /\ starts[i] <= Len(granted') + 1
                          /\ Len(granted') + 1 - starts[i] <= MaxCalls[i]
    BY <1>1, <1>5, <1>6, <2>2, <2>4, LogTypes
  <2>6. pc' \in [Thread -> Locations]
    BY <1>1, <1>12 DEF LimiterTypeOK, Grant, GoTo, Locations
  <2>7. \A u, v \in Thread : pc'[u] \in Locked /\ pc'[v] \in Locked => u = v
    BY <1>1, <1>2, <1>12 DEF LimiterTypeOK, Grant, GoTo, Locked
  <2>8. LimiterTypeOK'
    BY <1>1, <1>2, <1>3, <1>9, <2>1, <2>4, <2>5, <2>6, <2>7 DEF LimiterTypeOK
  <2>9. \A k \in 1..Len(granted) : granted[k] \in Nat /\ granted[k] <= readAt[t]
    BY <1>1, <1>4, LogTypes DEF After
  <2>10. \A k \in 1..(Len(granted) + 1) :
            /\ k \in 1..Len(granted) \/ k = Len(granted) + 1
            /\ granted'[k] \in Nat /\ granted'[k] <= readAt[t]
    BY <1>4, <2>3, <2>4, <2>9
  <2>11. Sorted'
    <3>1. ASSUME NEW k \in 1..(Len(granted) + 1), NEW l \in 1..(Len(granted) + 1),
                 k <= l
          PROVE  granted'[k] <= granted'[l]
      <4>1. CASE l = Len(granted) + 1
        BY <2>4, <2>10, <4>1
      <4>2. CASE l # Len(granted) + 1
        <5>1. k \in 1..Len(granted) /\ l \in 1..Len(granted)
          BY <2>3, <3>1, <4>2
        <5>2. QED
          BY <1>1, <2>4, <3>1, <5>1 DEF LogInv, Sorted
      <4>3. QED
        BY <4>1, <4>2
    <3>2. QED
      BY <2>4, <3>1 DEF Sorted
  <2>12. After(now)'
    BY <1>2, <1>4, <2>4, <2>10 DEF After
  <2>13. ASSUME NEW i \in Window, NEW k \in 1..(starts[i] - 1)
         PROVE  /\ granted'[k] = granted[k]
                /\ granted[k] \in Nat /\ Period[i] \in Nat
                /\ granted[k] + Period[i] <= readAt[t]
    <3>1. k \in 1..Len(granted)
      BY <1>5, <1>6, <2>3
    <3>2. QED
      BY <1>1, <1>6, <2>4, <3>1, LogTypes
  <2>14. Gone(now)'
    BY <1>2, <1>3, <1>4, <2>13 DEF Gone
  <2>15. LogInv'
    BY <1>7, <1>8, <2>11, <2>12, <2>14 DEF LogInv
  <2>16. ASSUME NEW i \in Window, NEW k \in 1..(Len(granted') - MaxCalls[i])
         PROVE  granted'[k + MaxCalls[i]] - granted'[k] >= Period[i]
    <3>0. MaxCalls[i] \in Nat /\ MaxCalls[i] > 0 /\ Period[i] \in Nat
      BY <1>1, LogTypes
    <3> DEFINE n == Len(granted)
               m == MaxCalls[i]
    <3>1. k \in 1..(n + 1 - m) /\ n \in Nat /\ m \in Nat
      BY <2>3, <2>4, <2>16, <3>0
    <3> HIDE DEF n, m
    <3>2. k \in Nat /\ k > 0 /\ (k + m <= n \/ k + m = n + 1)
      BY <3>1
    <3>3. k + m <= n => k \in 1..(n - m) /\ k \in 1..n /\ k + m \in 1..n
      BY <3>1, <3>2
    <3> USE DEF n, m
    <3>4. CASE k + MaxCalls[i] <= Len(granted)
      <4>1. /\ k \in 1..(Len(granted) - MaxCalls[i])
            /\ k \in 1..Len(granted)
            /\ k + MaxCalls[i] \in 1..Len(granted)
        BY <3>3, <3>4
      <4>2. granted[k + MaxCalls[i]] - granted[k] >= Period[i]
        BY <1>1, <4>1 DEF WindowRespected
      <4>3. QED
        BY <2>4, <4>1, <4>2
    <3>5. CASE k + MaxCalls[i] = Len(granted) + 1
      <4>1. k \in 1..(starts[i] - 1)
        BY <1>5, <2>2, <2>3, <3>0, <3>2, <3>5
      <4>2. granted'[k] = granted[k] /\ granted[k] \in Nat
            /\ granted[k] + Period[i] <= readAt[t]
        BY <2>13, <4>1
      <4>3. granted'[k + MaxCalls[i]] = readAt[t]
        BY <2>4, <3>5
      <4>4. QED
        BY <1>4, <3>0, <4>2, <4>3
    <3>6. QED
      BY <3>2, <3>4, <3>5, Zenon
  <2>17. QED
    BY <2>8, <2>15, <2>16 DEF LimiterInv, WindowRespected
<1>13. QED
  BY <1>3, <1>11, <1>12

LEMMA LimiterTick == LimiterInv /\ Tick => LimiterInv'
<1> SUFFICES ASSUME LimiterInv, Tick PROVE LimiterInv'
  OBVIOUS
<1>1. LimiterTypeOK /\ LogInv
  BY DEF LimiterInv
<1>2. now' \in Nat /\ now' >= now /\ UNCHANGED <<pc, readAt, granted, first>>
  BY <1>1 DEF Tick, LimiterTypeOK
<1>3. LimiterTypeOK'
  BY <1>1 DEF Tick, LimiterTypeOK
<1>4. \A t \in Thread : readAt'[t] <= now'
  BY <1>1, <1>2 DEF LogInv, LimiterTypeOK
<1>5. LogInv' /\ WindowRespected'
  BY <1>2, <1>4, LimiterFrame
<1>6. QED
  BY <1>3, <1>5 DEF LimiterInv

LEMMA LimiterInvNext == LimiterInv /\ [LimiterNext]_limiterVars => LimiterInv'
<1> SUFFICES ASSUME LimiterInv, [LimiterNext]_limiterVars PROVE LimiterInv'
  OBVIOUS
<1>1. CASE UNCHANGED limiterVars
  BY <1>1 DEF limiterVars, LimiterInv, LimiterTypeOK, LogInv, Sorted, After, Gone, WindowRespected
<1>2. ASSUME NEW t \in Thread, Call(t) \/ LimiterStep(t)
      PROVE  LimiterInv'
  BY <1>2, LimiterOthers, LimiterCheck DEF LimiterStep
<1>3. CASE Tick
  BY <1>3, LimiterTick
<1>4. CASE LimiterRest
  BY <1>1, <1>4 DEF LimiterRest
<1>5. QED
  BY <1>1, <1>2, <1>3, <1>4 DEF LimiterNext

LEMMA LimiterInvHolds == LimiterSpec => []LimiterInv
  BY LimiterInvInit, LimiterInvNext, PTL DEF LimiterSpec

\* Type correctness, with the lock's mutual exclusion and the deques' bounds.
THEOREM LimiterTypeCorrect == LimiterSpec => []LimiterTypeOK
<1>1. LimiterInv => LimiterTypeOK
  BY DEF LimiterInv
<1>2. QED
  BY <1>1, LimiterInvHolds, PTL

\* However many threads share the limiter, no window ever sees more grants
\* than it allows.
THEOREM LimitsHold == LimiterSpec => []WindowRespected
<1>1. LimiterInv => WindowRespected
  BY DEF LimiterInv
<1>2. QED
  BY <1>1, LimiterInvHolds, PTL

-----------------------------------------------------------------------------
(* One sleep is enough. *)

\* At that time every deque has room, or lets its oldest call go.
RoomAt(time) ==
    \A i \in Window : Full(i, first[i]) => granted[first[i]] + Period[i] <= time

\* When the sleep of a call is over, its next look at the windows finds room.
\* Nobody else takes it: the lock has been held since they were found full.
SleepInv ==
    \A t \in Thread :
        /\ pc[t] = "waiting" => ~slept[t]
        /\ pc[t] = "sleep" => RoomAt(wakeAt[t])
        /\ pc[t] = "read" /\ slept[t] => RoomAt(now)
        /\ pc[t] = "check" /\ slept[t] => RoomAt(readAt[t])

\* A full deque holds MaxCalls[i] calls, so the oldest one is there.
LEMMA FullDeque ==
  ASSUME LimiterTypeOK, NEW i \in Window, NEW start \in Nat, start >= first[i], Full(i, start)
  PROVE  start = first[i] /\ start \in 1..Len(granted) /\ granted[start] \in Nat
<1>1. /\ Len(granted) + 1 - start >= MaxCalls[i]
      /\ MaxCalls[i] \in Nat /\ MaxCalls[i] > 0
      /\ first[i] \in Nat /\ first[i] > 0
      /\ Len(granted) + 1 - first[i] <= MaxCalls[i] /\ Len(granted) \in Nat
  BY LogTypes DEF Full
<1>2. start = first[i] /\ start \in 1..Len(granted)
  BY <1>1
<1>3. QED
  BY <1>2, LogTypes

LEMMA RoomLater ==
  ASSUME LimiterTypeOK, NEW early \in Nat, NEW late \in Nat, early <= late, RoomAt(early)
  PROVE  RoomAt(late)
<1>1. SUFFICES ASSUME NEW i \in Window, Full(i, first[i])
               PROVE  granted[first[i]] + Period[i] <= late
  BY DEF RoomAt
<1>2. granted[first[i]] \in Nat /\ Period[i] \in Nat
  <2>1. Period[i] \in Nat /\ first[i] \in Nat /\ first[i] >= first[i]
    BY LogTypes
  <2>2. QED
    BY <1>1, <2>1, FullDeque
<1>3. granted[first[i]] + Period[i] <= early
  BY <1>1 DEF RoomAt
<1>4. QED
  BY <1>2, <1>3

\* A thread that has slept finds no full window.
LEMMA RoomFound ==
  ASSUME LimiterTypeOK, SleepInv, NEW t \in Thread, pc[t] = "check", slept[t],
         NEW starts \in [Window -> 1..(Len(granted) + 1)],
         \A i \in Window : Expire(i, readAt[t], starts[i])
  PROVE  FullWindows(starts) = {}
<1>1. SUFFICES ASSUME NEW i \in Window, Full(i, starts[i])
               PROVE  FALSE
  BY DEF FullWindows
<1>2. starts[i] \in Nat /\ starts[i] >= first[i] /\ starts[i] <= Len(granted) + 1
  BY <1>1, LogTypes DEF Expire
<1>3. /\ starts[i] = first[i] /\ starts[i] \in 1..Len(granted)
      /\ granted[starts[i]] \in Nat
  BY <1>1, <1>2, FullDeque
<1>4. granted[starts[i]] + Period[i] <= readAt[t]
  BY <1>1, <1>3 DEF SleepInv, RoomAt
<1>5. ~(readAt[t] - granted[starts[i]] >= Period[i])
  BY <1>1, <1>3, LogTypes DEF Expire, Expired
<1>6. Period[i] \in Nat /\ readAt[t] \in Nat
  BY LogTypes
<1>7. QED
  BY <1>3, <1>4, <1>5, <1>6

LEMMA SleepInit == LimiterInit => SleepInv
  BY DEF LimiterInit, SleepInv

\* The sleep is as long as every full window asks for.
LEMMA SleepCheck ==
  ASSUME LimiterInv, SleepInv, NEW t \in Thread, Check(t)
  PROVE  SleepInv'
<1>1. LimiterTypeOK /\ pc[t] = "check" /\ UNCHANGED <<now, readAt, calls>>
  BY DEF LimiterInv, Check
<1>2. PICK starts \in [Window -> 1..(Len(granted) + 1)] :
        /\ \A i \in Window : Expire(i, readAt[t], starts[i])
        /\ first' = starts
        /\ Grant(t, starts) \/ Sleep(t, starts)
  BY DEF Check
<1>3. \A u \in Thread : u # t => pc'[u] = pc[u] /\ pc[u] \notin Locked
  BY <1>1, <1>2 DEF LimiterTypeOK, Locked, Grant, Sleep, GoTo
<1>4. \A u \in Thread : u # t => slept'[u] = slept[u]
  BY <1>1, <1>2 DEF LimiterTypeOK, Grant, Sleep
<1>5. CASE Grant(t, starts)
  <2>1. pc'[t] = "idle"
    BY <1>1, <1>5 DEF LimiterTypeOK, Grant, GoTo
  <2>2. QED
    BY <1>3, <1>4, <2>1 DEF SleepInv, Locked
<1>6. CASE Sleep(t, starts)
  <2>1. pc'[t] = "sleep" /\ granted' = granted
    BY <1>1, <1>6 DEF LimiterTypeOK, Sleep, GoTo
  <2>2. PICK wait \in Waits(starts, readAt[t]) :
            /\ Longest(wait, Waits(starts, readAt[t]))
            /\ wakeAt' = [wakeAt EXCEPT ![t] = now + wait]
    BY <1>6 DEF Sleep
  <2>3. wakeAt'[t] = now + wait
    BY <1>1, <2>2 DEF LimiterTypeOK
  <2>4. now \in Nat /\ readAt[t] \in Nat /\ readAt[t] <= now
    BY <1>1 DEF LimiterTypeOK, LimiterInv, LogInv
  <2>5. \A i \in Window : starts[i] \in Nat /\ starts[i] >= first[i]
    <3>1. \A i \in Window : starts[i] \in first[i]..(Len(granted) + 1)
      BY <1>2 DEF Expire
    <3>2. QED
      BY <1>1, <3>1, LogTypes
  <2>6. ASSUME NEW i \in Window, Full(i, starts[i])
        PROVE  granted[starts[i]] + Period[i] <= now + wait
    <3>1. granted[starts[i]] \in Nat /\ Period[i] \in Nat
      BY <1>1, <2>5, <2>6, FullDeque, LogTypes
    <3>2. Period[i] - (readAt[t] - granted[starts[i]]) <= wait
      BY <2>2, <2>6 DEF Waits, FullWindows, Longest
    <3>3. wait \in Int
      <4>1. PICK j \in FullWindows(starts) :
              wait = Period[j] - (readAt[t] - granted[starts[j]])
        BY <2>2 DEF Waits
      <4>2. j \in Window /\ Full(j, starts[j])
        BY <4>1 DEF FullWindows
      <4>3. granted[starts[j]] \in Nat /\ Period[j] \in Nat
        BY <1>1, <2>5, <4>2, FullDeque, LogTypes
      <4>4. QED
        BY <2>4, <4>1, <4>3
    <3>4. QED
      BY <2>4, <3>1, <3>2, <3>3
  <2>7. RoomAt(wakeAt[t])'
    BY <1>2, <2>1, <2>3, <2>6 DEF RoomAt, Full
  <2>8. QED
    BY <1>3, <1>4, <2>1, <2>7 DEF SleepInv, Locked
<1>7. QED
  BY <1>2, <1>5, <1>6

LEMMA SleepOthers ==
  ASSUME LimiterInv, SleepInv, NEW t \in Thread,
         Call(t) \/ Acquire(t) \/ ReadClock(t) \/ Wake(t)
  PROVE  SleepInv'
<1>1. LimiterTypeOK
  BY DEF LimiterInv
<1>2. UNCHANGED <<granted, first, now>>
  BY DEF Call, Acquire, ReadClock, Wake
<1>3. ASSUME NEW u \in Thread, u # t
      PROVE  /\ pc'[u] = pc[u] /\ slept'[u] = slept[u]
             /\ readAt'[u] = readAt[u] /\ wakeAt'[u] = wakeAt[u]
  BY <1>1, <1>3 DEF LimiterTypeOK, Call, Acquire, ReadClock, Wake, GoTo
<1>4. SUFFICES /\ pc'[t] = "waiting" => ~slept'[t]
               /\ pc'[t] = "sleep" => RoomAt(wakeAt'[t])
               /\ pc'[t] = "read" /\ slept'[t] => RoomAt(now)
               /\ pc'[t] = "check" /\ slept'[t] => RoomAt(readAt'[t])
  BY <1>2, <1>3 DEF SleepInv, RoomAt, Full
<1>5. CASE Call(t)
  BY <1>1, <1>5 DEF LimiterTypeOK, Call, GoTo
<1>6. CASE Acquire(t)
  BY <1>1, <1>6 DEF LimiterTypeOK, Acquire, GoTo, SleepInv
<1>7. CASE ReadClock(t)
  BY <1>1, <1>7 DEF LimiterTypeOK, ReadClock, GoTo, SleepInv
<1>8. CASE Wake(t)
  <2>1. now \in Nat /\ wakeAt[t] \in Nat /\ wakeAt[t] <= now /\ RoomAt(wakeAt[t])
    BY <1>1, <1>8 DEF LimiterTypeOK, Wake, SleepInv
  <2>2. RoomAt(now)
    BY <1>1, <2>1, RoomLater
  <2>3. pc'[t] = "read"
    BY <1>1, <1>8 DEF LimiterTypeOK, Wake, GoTo
  <2>4. QED
    BY <2>2, <2>3
<1>9. QED
  BY <1>5, <1>6, <1>7, <1>8

LEMMA SleepTick ==
  ASSUME LimiterInv, SleepInv, Tick
  PROVE  SleepInv'
<1>1. LimiterTypeOK /\ UNCHANGED <<pc, readAt, wakeAt, slept, granted, first>>
  BY DEF LimiterInv, Tick
<1>2. now \in Nat /\ now' \in Nat /\ now <= now'
  BY <1>1 DEF LimiterTypeOK, Tick
<1>3. RoomAt(now) => RoomAt(now')
  BY <1>1, <1>2, RoomLater
<1>4. QED
  BY <1>1, <1>3 DEF SleepInv, RoomAt, Full

LEMMA SleepNext == LimiterInv /\ SleepInv /\ [LimiterNext]_limiterVars => SleepInv'
<1> SUFFICES ASSUME LimiterInv, SleepInv, [LimiterNext]_limiterVars PROVE SleepInv'
  OBVIOUS
<1>1. CASE UNCHANGED limiterVars
  BY <1>1 DEF limiterVars, SleepInv, RoomAt, Full
<1>2. ASSUME NEW t \in Thread, Call(t) \/ LimiterStep(t)
      PROVE  SleepInv'
  BY <1>2, SleepOthers, SleepCheck DEF LimiterStep
<1>3. CASE Tick
  BY <1>3, SleepTick
<1>4. CASE LimiterRest
  BY <1>1, <1>4 DEF LimiterRest
<1>5. QED
  BY <1>1, <1>2, <1>3, <1>4 DEF LimiterNext

\* Only a look at the windows puts a thread to sleep.
LEMMA NoSecondSleep ==
  ASSUME LimiterInv, SleepInv, [LimiterNext]_limiterVars,
         NEW t \in Thread, pc[t] = "check", pc'[t] = "sleep"
  PROVE  ~slept[t]
<1>1. LimiterTypeOK
  BY DEF LimiterInv
<1>2. Check(t)
  <2>1. pc[t] # pc'[t]
    OBVIOUS
  <2>2. ~(UNCHANGED limiterVars \/ Tick \/ LimiterRest)
    BY <2>1 DEF limiterVars, Tick, LimiterRest
  <2>3. PICK u \in Thread : Call(u) \/ LimiterStep(u)
    BY <2>2 DEF LimiterNext
  <2>4. ~(Call(u) \/ Acquire(u) \/ ReadClock(u) \/ Wake(u))
    BY <1>1, <2>1 DEF LimiterTypeOK, Call, Acquire, ReadClock, Wake, GoTo
  <2>5. Check(u)
    BY <2>3, <2>4 DEF LimiterStep
  <2>6. u = t
    BY <1>1, <2>1, <2>5 DEF LimiterTypeOK, Check, Grant, Sleep, GoTo
  <2>7. QED
    BY <2>5, <2>6
<1>3. PICK starts \in [Window -> 1..(Len(granted) + 1)] :
        /\ \A i \in Window : Expire(i, readAt[t], starts[i])
        /\ Grant(t, starts) \/ Sleep(t, starts)
  BY <1>2 DEF Check
<1>4. ~Grant(t, starts)
  BY <1>1 DEF LimiterTypeOK, Grant, GoTo
<1>5. FullWindows(starts) # {}
  BY <1>3, <1>4 DEF Sleep, Waits
<1>6. QED
  BY <1>1, <1>3, <1>5, RoomFound

\* A call sleeps at most once: the longest of the windows' waits is enough for
\* all of them, and the lock is held meanwhile.
THEOREM OneSleepIsEnough == LimiterSpec => SleepsOnce
<1>1. SleepInv /\ LimiterInv /\ [LimiterNext]_limiterVars
        => [\A t \in Thread : pc[t] = "check" /\ pc'[t] = "sleep" => ~slept[t]]_limiterVars
  BY NoSecondSleep
<1>2. LimiterSpec => []SleepInv
  BY SleepInit, SleepNext, LimiterInvHolds, PTL DEF LimiterSpec
<1>3. QED
  BY <1>1, <1>2, LimiterInvHolds, PTL DEF LimiterSpec, SleepsOnce

-----------------------------------------------------------------------------
(* The keyword collection of coupang. *)

LEMMA TypeInit == Init => TypeOK
<1> SUFFICES ASSUME Init PROVE TypeOK
  OBVIOUS
<1>1. \A kind \in Faults : 0 <= Limit[kind]
  BY CoupangAssumption DEF Limit, Faults
<1>2. faults \in [Faults -> Nat] /\ \A kind \in Faults : faults[kind] = 0
  BY DEF Init
<1>3. keyword \in 1..(NumKeywords + 1) /\ attempt \in 1..(MaxRetries + 1)
  BY CoupangAssumption DEF Init
<1>4. QED
  BY <1>1, <1>2, <1>3 DEF Init, TypeOK

\* A fault of a kind that has some left keeps the counts within their bounds.
LEMMA FaultType ==
  ASSUME TypeOK, NEW kind \in Faults, Fault(kind)
  PROVE  /\ faults' \in [Faults -> Nat]
         /\ \A other \in Faults : faults'[other] <= Limit[other]
         /\ \A other \in Faults : faults'[other] =
              IF other = kind THEN faults[other] + 1 ELSE faults[other]
<1>1. \A other \in Faults : Limit[other] \in Nat
  BY CoupangAssumption DEF Limit, Faults
<1>2. faults \in [Faults -> Nat] /\ \A other \in Faults : faults[other] <= Limit[other]
  BY DEF TypeOK
<1>3. /\ faults[kind] < Limit[kind]
      /\ faults' = [faults EXCEPT ![kind] = faults[kind] + 1]
  BY DEF Fault
<1>4. faults' \in [Faults -> Nat]
  BY <1>2, <1>3
<1>5. \A other \in Faults : faults'[other] =
        IF other = kind THEN faults[other] + 1 ELSE faults[other]
  BY <1>2, <1>3
<1>6. \A other \in Faults : faults'[other] <= Limit[other]
  BY <1>1, <1>2, <1>3, <1>5
<1>7. QED
  BY <1>4, <1>5, <1>6

LEMMA TypeNext == TypeOK /\ [Next]_vars => TypeOK'
<1> SUFFICES ASSUME TypeOK, [Next]_vars PROVE TypeOK'
  OBVIOUS
<1> USE CoupangAssumption DEF TypeOK, historyVars
<1>1. CASE StartRun
  BY <1>1 DEF StartRun, LoadCheckpoint
<1>2. CASE SkipKeyword
  BY <1>2 DEF SkipKeyword, Advance, Keyword
<1>3. CASE SearchSucceeds \/ MarkCompleted
  <2>1. CASE SearchSucceeds
    BY <2>1 DEF SearchSucceeds, Searching
  <2>2. CASE MarkCompleted
    BY <2>2 DEF MarkCompleted, Advance, Keyword
  <2>3. QED
    BY <1>3, <2>1, <2>2
<1>4. CASE RetrySearch
  <2>1. "api" \in Faults /\ Fault("api")
    BY <1>4 DEF RetrySearch, Faults
  <2>2. faults' \in [Faults -> Nat] /\ \A kind \in Faults : faults'[kind] <= Limit[kind]
    BY <2>1, FaultType
  <2>3. attempt' \in 1..(MaxRetries + 1)
    BY <1>4 DEF RetrySearch
  <2>4. QED
    BY <1>4, <2>2, <2>3 DEF RetrySearch
<1>5. CASE SearchFails
  <2>1. "api" \in Faults /\ Fault("api")
    BY <1>5 DEF SearchFails, Faults
  <2>2. faults' \in [Faults -> Nat] /\ \A kind \in Faults : faults'[kind] <= Limit[kind]
    BY <2>1, FaultType
  <2>3. /\ keyword' \in 1..(NumKeywords + 1) /\ attempt' \in 1..(MaxRetries + 1)
        /\ failed' \in SUBSET Keyword /\ run' = "search"
    BY <1>5 DEF SearchFails, Searching, Advance, Keyword
  <2>4. QED
    BY <1>5, <2>2, <2>3 DEF SearchFails
<1>6. CASE MarkRaises
  <2>1. "file" \in Faults /\ Fault("file")
    BY <1>6 DEF MarkRaises, Faults
  <2>2. keyword \in Keyword /\ keyword' = keyword + 1 /\ attempt' = 1
    BY <1>6 DEF MarkRaises, Advance
  <2>3. faults' \in [Faults -> Nat] /\ \A kind \in Faults : faults'[kind] <= Limit[kind]
    BY <2>1, FaultType
  <2>4. QED
    BY <1>6, <2>2, <2>3 DEF MarkRaises, Keyword
<1>7. CASE ClearCheckpoint
  BY <1>7 DEF ClearCheckpoint, memoryVars
<1>8. CASE SaveProducts
  BY <1>8 DEF SaveProducts, LoseMemory
<1>9. CASE SaveRaises
  <2>1. "save" \in Faults /\ Fault("save")
    BY <1>9 DEF SaveRaises, Faults
  <2>2. QED
    BY <1>9, <2>1, FaultType DEF SaveRaises, LoseMemory
<1>10. CASE Crash
  <2>1. "crash" \in Faults /\ Fault("crash")
    BY <1>10 DEF Crash, Faults
  <2>2. QED
    BY <1>10, <2>1, FaultType DEF Crash, LoseMemory
<1>11. CASE UNCHANGED vars
  BY <1>11 DEF vars, memoryVars
<1>12. QED
  BY <1>1, <1>2, <1>3, <1>4, <1>5, <1>6, <1>7, <1>8, <1>9, <1>10, <1>11
  DEF Next, Step, Rest

\* The state keeps its types: the loop stays within the keyword list and one
\* behind it, and the attempts within max_retries + 1.
THEOREM TypeCorrect == Spec => []TypeOK
<1>1. Init => TypeOK
  BY TypeInit
<1>2. TypeOK /\ [Next]_vars => TypeOK'
  BY TypeNext
<1>3. QED
  BY <1>1, <1>2, PTL DEF Spec

-----------------------------------------------------------------------------
(* Nothing is lost while runs come to their save. *)

Calm == faults["save"] = 0 /\ faults["crash"] = 0

\* Once the checkpoint is gone no keyword is searched any more.
ClearedLast == run \in {"search", "mark"} => ~passOver

\* Between runs what the checkpoint names has been saved.
SavedBetweenRuns ==
    run = "down" => checkpointFile \subseteq handled /\ (passOver => handled = Keyword)

\* In a run what is named, in the file or in memory, has been saved or is held
\* for the save at the end.
SavedOrHeld ==
    run # "down" => checkpointFile \cup completed \subseteq handled \cup collected

\* When the checkpoint has been removed, every keyword is one of these.
HeldWhenCleared ==
    run = "save" /\ passOver => Keyword \subseteq handled \cup collected

\* The keyword about to be recorded is held.
HeldToMark == run = "mark" => keyword \in collected

SavedInv ==
    /\ ClearedLast
    /\ HeldToMark
    /\ Calm => SavedBetweenRuns /\ SavedOrHeld /\ HeldWhenCleared

\* A fault of another kind changes neither count; these two end the calm.
LEMMA StillCalm ==
  ASSUME TypeOK, [Next]_vars, Calm'
  PROVE  Calm /\ ~Crash /\ ~SaveRaises
<1> USE DEF Calm
<1>1. /\ faults \in [Faults -> Nat]
      /\ "save" \in Faults /\ "crash" \in Faults
      /\ "api" \in Faults /\ "file" \in Faults
  BY DEF TypeOK, Faults
<1>2. \A kind \in Faults : Fault(kind) => Calm /\ kind # "save" /\ kind # "crash"
  <2>1. SUFFICES ASSUME NEW kind \in Faults, Fault(kind)
                 PROVE  Calm /\ kind # "save" /\ kind # "crash"
    OBVIOUS
  <2>2. \A other \in Faults : faults'[other] =
          IF other = kind THEN faults[other] + 1 ELSE faults[other]
    BY <2>1, FaultType
  <2>3. QED
    BY <2>2, <1>1
<1>3. ~Crash /\ ~SaveRaises
  BY <1>1, <1>2 DEF Crash, SaveRaises
<1>4. CASE RetrySearch \/ SearchFails
  BY <1>4, <1>1, <1>2, <1>3 DEF RetrySearch, SearchFails
<1>5. CASE MarkRaises
  BY <1>5, <1>1, <1>2, <1>3 DEF MarkRaises
<1>6. CASE StartRun \/ Step \/ UNCHANGED vars
  BY <1>3, <1>6 DEF StartRun, Step, SkipKeyword, SearchSucceeds, MarkCompleted,
                    ClearCheckpoint, SaveProducts, vars
<1>7. QED
  BY <1>3, <1>4, <1>5, <1>6 DEF Next, Rest

LEMMA ClearedNext == TypeOK /\ ClearedLast /\ [Next]_vars => ClearedLast'
  BY DEF ClearedLast, Next, Step, Rest, vars, historyVars, StartRun, SkipKeyword,
         Searching, SearchSucceeds, MarkCompleted, RetrySearch, SearchFails,
         MarkRaises, ClearCheckpoint, SaveProducts, SaveRaises, Crash

LEMMA SavedNext == TypeOK /\ SavedInv /\ [Next]_vars => SavedInv'
<1> SUFFICES ASSUME TypeOK, SavedInv, [Next]_vars PROVE SavedInv'
  OBVIOUS
<1>1. ClearedLast' /\ HeldToMark'
  <2>1. ClearedLast'
    BY ClearedNext DEF SavedInv
  <2>2. HeldToMark'
    BY DEF SavedInv, HeldToMark, Next, Step, Rest, vars, memoryVars, StartRun,
           SkipKeyword, Searching, SearchSucceeds, MarkCompleted, RetrySearch,
           SearchFails, MarkRaises, ClearCheckpoint, SaveProducts, SaveRaises, Crash
  <2>3. QED
    BY <2>1, <2>2
<1>2. SUFFICES ASSUME Calm'
               PROVE  (SavedBetweenRuns /\ SavedOrHeld /\ HeldWhenCleared)'
  BY <1>1 DEF SavedInv
<1>3. /\ ~Crash /\ ~SaveRaises
      /\ ClearedLast /\ SavedBetweenRuns /\ SavedOrHeld /\ HeldWhenCleared
      /\ HeldToMark
  BY <1>2, StillCalm DEF SavedInv
<1> USE <1>3 DEF ClearedLast, SavedBetweenRuns, SavedOrHeld, HeldWhenCleared, historyVars
<1>4. CASE StartRun
  BY <1>4 DEF StartRun, LoadCheckpoint
<1>5. CASE SkipKeyword
  BY <1>5 DEF SkipKeyword
<1>6. CASE SearchSucceeds \/ MarkCompleted
  BY <1>6 DEF SearchSucceeds, Searching, MarkCompleted, HeldToMark
<1>7. CASE RetrySearch \/ SearchFails
  BY <1>7 DEF RetrySearch, SearchFails, Searching
<1>8. CASE MarkRaises
  BY <1>8 DEF MarkRaises, HeldToMark
<1>9. CASE ClearCheckpoint
  \* AllCompleted: every keyword is named in memory, hence saved or held.
  BY <1>9 DEF ClearCheckpoint, AllCompleted, memoryVars
<1>10. CASE SaveProducts
  BY <1>10 DEF SaveProducts, TypeOK
<1>11. CASE UNCHANGED vars
  BY <1>11 DEF vars, memoryVars
<1>12. QED
  BY <1>4, <1>5, <1>6, <1>7, <1>8, <1>9, <1>10, <1>11, <1>3 DEF Next, Step, Rest

LEMMA SavedInvHolds == Spec => []SavedInv
<1>1. Init => SavedInv
  BY DEF Init, SavedInv, ClearedLast, HeldToMark, SavedBetweenRuns, SavedOrHeld,
         HeldWhenCleared
<1>2. QED
  BY <1>1, SavedNext, TypeCorrect, PTL DEF Spec

\* collect_once loses nothing while no run dies and no final save raises:
\* whatever searches and checkpoint writes fail, what the next run skips has
\* been saved, and every keyword has when the pass is over.
THEOREM NothingLostUndisturbed == Spec => []SavedUnlessInterrupted
<1>1. SavedInv => SavedUnlessInterrupted
  BY DEF SavedInv, SavedUnlessInterrupted, SavedBetweenRuns, Calm
<1>2. QED
  BY <1>1, SavedInvHolds, PTL

-----------------------------------------------------------------------------
(* Few keywords are searched again. *)

\* A run knows what the file names.
KnownInMemory == run \in {"search", "mark"} => checkpointFile \subseteq completed

\* The keywords that have been answered and may be searched again: the file
\* does not name them, and no write that would is under way.
Unrecorded ==
    IF passOver THEN {}
    ELSE {k \in searched : k \notin checkpointFile /\ ~(run = "mark" /\ k = keyword)}

\* Every one of them, and every search again, has cost a failed write or a run.
Paid == repeats + Cardinality(Unrecorded) <= faults["file"] + faults["crash"]

SearchInv == ClearedLast /\ KnownInMemory /\ Paid

LEMMA UnrecordedFinite ==
  ASSUME TypeOK
  PROVE  IsFiniteSet(Unrecorded) /\ Cardinality(Unrecorded) \in Nat
<1>1. IsFiniteSet(Keyword)
  BY FS_Interval, CoupangAssumption DEF Keyword
<1>2. Unrecorded \subseteq Keyword
  BY DEF Unrecorded, TypeOK
<1>3. QED
  BY <1>1, <1>2, FS_Subset, FS_CardinalityType

LEMMA OneMore ==
  ASSUME NEW A, NEW B, NEW x, IsFiniteSet(B), A \subseteq B \cup {x}
  PROVE  Cardinality(A) <= Cardinality(B) + 1
<1>1. IsFiniteSet(B \cup {x}) /\ Cardinality(B) \in Nat
  BY FS_AddElement, FS_CardinalityType
<1>2. Cardinality(B \cup {x}) <= Cardinality(B) + 1
  BY <1>1, FS_AddElement
<1>3. Cardinality(A) <= Cardinality(B \cup {x}) /\ IsFiniteSet(A)
  BY <1>1, FS_Subset
<1>4. Cardinality(A) \in Nat /\ Cardinality(B \cup {x}) \in Nat
  BY <1>1, <1>3, FS_CardinalityType
<1>5. QED
  BY <1>1, <1>2, <1>3, <1>4

LEMMA KnownNext == TypeOK /\ KnownInMemory /\ [Next]_vars => KnownInMemory'
  BY DEF KnownInMemory, Next, Step, Rest, vars, memoryVars, historyVars, StartRun,
         LoadCheckpoint, SkipKeyword, Searching, SearchSucceeds, MarkCompleted,
         RetrySearch, SearchFails, MarkRaises, ClearCheckpoint, SaveProducts,
         SaveRaises, Crash

\* A fault pays for one, or for none.
LEMMA FaultPays ==
  ASSUME TypeOK, NEW kind \in Faults, Fault(kind)
  PROVE  faults'["file"] + faults'["crash"]
            = faults["file"] + faults["crash"]
              + IF kind \in {"file", "crash"} THEN 1 ELSE 0
<1>1. "file" \in Faults /\ "crash" \in Faults
  BY DEF Faults
<1>2. faults["file"] \in Nat /\ faults["crash"] \in Nat
  BY <1>1 DEF TypeOK
<1>3. \A other \in Faults : faults'[other] =
        IF other = kind THEN faults[other] + 1 ELSE faults[other]
  BY FaultType
<1>4. QED
  BY <1>1, <1>2, <1>3

\* The search of a keyword that was answered before finds it unrecorded.
LEMMA PaidSearch ==
  ASSUME TypeOK, SearchInv, SearchSucceeds
  PROVE  Paid'
<1>1. /\ run = "search" /\ run' = "mark" /\ keyword' = keyword /\ keyword \in Keyword
      /\ ~passOver /\ ~passOver' /\ checkpointFile' = checkpointFile
      /\ faults' = faults /\ searched' = searched \cup {keyword}
      /\ repeats' = repeats + IF keyword \in searched THEN 1 ELSE 0
  BY DEF SearchSucceeds, Searching, SearchInv, ClearedLast
<1>2. keyword \notin checkpointFile
  BY DEF SearchSucceeds, Searching, Skipped, SearchInv, KnownInMemory
<1>3. Unrecorded' = Unrecorded \ {keyword}
  BY <1>1 DEF Unrecorded
<1>4. keyword \in Unrecorded <=> keyword \in searched
  BY <1>1, <1>2 DEF Unrecorded
<1>5. Cardinality(Unrecorded')
        = Cardinality(Unrecorded) - IF keyword \in searched THEN 1 ELSE 0
  <2>1. CASE keyword \in searched
    BY <2>1, <1>3, <1>4, UnrecordedFinite, FS_RemoveElement
  <2>2. CASE keyword \notin searched
    <3>1. Unrecorded' = Unrecorded
      BY <2>2, <1>3, <1>4
    <3>2. QED
      BY <2>2, <3>1, UnrecordedFinite
  <2>3. QED
    BY <2>1, <2>2
<1>6. repeats \in Nat /\ Cardinality(Unrecorded) \in Nat
  BY UnrecordedFinite DEF TypeOK
<1>7. repeats + Cardinality(Unrecorded) <= faults["file"] + faults["crash"]
  BY DEF SearchInv, Paid
<1>8. faults["file"] \in Nat /\ faults["crash"] \in Nat
  BY DEF TypeOK, Faults
<1>9. repeats' + Cardinality(Unrecorded') = repeats + Cardinality(Unrecorded)
  BY <1>1, <1>5, <1>6
<1>10. QED
  BY <1>1, <1>7, <1>9 DEF Paid

\* A write that fails or a run that dies leaves at most one more unrecorded.
LEMMA PaidFault ==
  ASSUME TypeOK, SearchInv, MarkRaises \/ Crash
  PROVE  Paid'
<1>1. Unrecorded' \subseteq Unrecorded \cup {keyword} /\ repeats' = repeats
  BY DEF Unrecorded, MarkRaises, Crash, historyVars
<1>2. Cardinality(Unrecorded') <= Cardinality(Unrecorded) + 1
  BY <1>1, UnrecordedFinite, OneMore
<1>3. faults'["file"] + faults'["crash"] = faults["file"] + faults["crash"] + 1
  <2>1. CASE MarkRaises
    BY <2>1, FaultPays DEF MarkRaises, Faults
  <2>2. CASE Crash
    BY <2>2, FaultPays DEF Crash, Faults
  <2>3. QED
    BY <2>1, <2>2
<1>4. repeats \in Nat /\ Cardinality(Unrecorded) \in Nat
  BY UnrecordedFinite DEF TypeOK
<1>5. Cardinality(Unrecorded') \in Nat
  <2>1. IsFiniteSet(Unrecorded \cup {keyword})
    BY UnrecordedFinite, FS_AddElement
  <2>2. QED
    BY <2>1, <1>1, FS_Subset, FS_CardinalityType
<1>6. faults["file"] \in Nat /\ faults["crash"] \in Nat
  BY DEF TypeOK, Faults
<1>7. repeats + Cardinality(Unrecorded) <= faults["file"] + faults["crash"]
  BY DEF SearchInv, Paid
<1>8. QED
  BY <1>1, <1>2, <1>3, <1>4, <1>5, <1>6, <1>7 DEF Paid

\* Every other step leaves nothing more unrecorded.
LEMMA PaidOther ==
  ASSUME TypeOK, SearchInv, [Next]_vars, ~SearchSucceeds, ~MarkRaises, ~Crash
  PROVE  Paid'
<1>1. repeats' = repeats
  BY DEF Next, Step, Rest, vars, historyVars, StartRun, SkipKeyword, MarkCompleted,
         RetrySearch, SearchFails, ClearCheckpoint, SaveProducts, SaveRaises
<1>2. Unrecorded' \subseteq Unrecorded
  <2>1. CASE MarkCompleted
    BY <2>1 DEF MarkCompleted, SearchInv, KnownInMemory, Unrecorded, historyVars
  <2>2. CASE RetrySearch \/ SearchFails
    BY <2>2 DEF RetrySearch, SearchFails, Searching, Unrecorded, historyVars
  <2>3. CASE ClearCheckpoint \/ SaveProducts \/ SaveRaises
    BY <2>3 DEF ClearCheckpoint, SaveProducts, SaveRaises, Unrecorded, historyVars
  <2>4. CASE StartRun \/ SkipKeyword \/ UNCHANGED vars
    BY <2>4 DEF StartRun, SkipKeyword, vars, memoryVars, historyVars, Unrecorded
  <2>5. QED
    BY <2>1, <2>2, <2>3, <2>4 DEF Next, Step, Rest
<1>3. Cardinality(Unrecorded') <= Cardinality(Unrecorded)
  BY <1>2, UnrecordedFinite, FS_Subset
<1>4. faults'["file"] + faults'["crash"] = faults["file"] + faults["crash"]
  <2>1. faults["file"] \in Nat /\ faults["crash"] \in Nat
    BY DEF TypeOK, Faults
  <2>2. CASE RetrySearch \/ SearchFails \/ SaveRaises
    BY <2>1, <2>2, FaultPays DEF RetrySearch, SearchFails, SaveRaises, Faults
  <2>3. CASE ~(RetrySearch \/ SearchFails \/ SaveRaises)
    BY <2>3 DEF Next, Step, Rest, vars, StartRun, SkipKeyword, MarkCompleted,
                ClearCheckpoint, SaveProducts
  <2>4. QED
    BY <2>2, <2>3
<1>5. repeats \in Nat /\ Cardinality(Unrecorded) \in Nat
  BY UnrecordedFinite DEF TypeOK
<1>6. Cardinality(Unrecorded') \in Nat
  BY <1>2, UnrecordedFinite, FS_Subset, FS_CardinalityType
<1>7. faults["file"] \in Nat /\ faults["crash"] \in Nat
  BY DEF TypeOK, Faults
<1>8. repeats + Cardinality(Unrecorded) <= faults["file"] + faults["crash"]
  BY DEF SearchInv, Paid
<1>9. QED
  BY <1>1, <1>3, <1>4, <1>5, <1>6, <1>7, <1>8 DEF Paid

LEMMA SearchInvHolds == Spec => []SearchInv
<1>1. Init => SearchInv
  <2> SUFFICES ASSUME Init PROVE SearchInv
    OBVIOUS
  <2>1. Unrecorded = {} /\ repeats = 0 /\ faults["file"] = 0 /\ faults["crash"] = 0
    BY DEF Init, Unrecorded, Faults
  <2>2. Paid
    BY <2>1, FS_EmptySet DEF Paid
  <2>3. QED
    BY <2>2 DEF Init, SearchInv, ClearedLast, KnownInMemory
<1>2. TypeOK /\ SearchInv /\ [Next]_vars => SearchInv'
  BY ClearedNext, KnownNext, PaidSearch, PaidFault, PaidOther DEF SearchInv
<1>3. QED
  BY <1>1, <1>2, TypeCorrect, PTL DEF Spec

\* The checkpoint does its work: a failed write of it, or a run that dies, costs
\* at most one search again, for any keywords, errors and crashes.
THEOREM FewAreSearchedAgain == Spec => []FewSearchedAgain
<1>1. TypeOK /\ SearchInv => FewSearchedAgain
  <2> SUFFICES ASSUME TypeOK, SearchInv PROVE FewSearchedAgain
    OBVIOUS
  <2>1. /\ repeats \in Nat /\ Cardinality(Unrecorded) \in Nat
        /\ faults["file"] \in Nat /\ faults["crash"] \in Nat
    BY UnrecordedFinite DEF TypeOK, Faults
  <2>2. QED
    BY <2>1 DEF SearchInv, Paid, FewSearchedAgain
<1>2. QED
  BY <1>1, SearchInvHolds, TypeCorrect, PTL
=============================================================================
