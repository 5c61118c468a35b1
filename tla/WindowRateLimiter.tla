-------------------------- MODULE WindowRateLimiter --------------------------
(***************************************************************************)
(* WindowRateLimiter (product_data_collector/common/rate_limiter.py): one  *)
(* limiter, shared by threads, that lets at most MaxCalls[i] calls through *)
(* in Period[i] for each of its windows i at once.  A thread evaluates the *)
(* windows, and sleeps, with the lock held.                                *)
(*                                                                         *)
(* Every granted call is appended to the deque of every window, so the     *)
(* deques are suffixes of one log: granted holds the times of all grants   *)
(* and window i's deque starts at first[i].  Time is discrete; a tick is   *)
(* the clock's resolution.                                                 *)
(***************************************************************************)
EXTENDS Integers, Sequences

CONSTANTS
    Thread,
    Window,           \* the limiter's windows
    MaxCalls,         \* window -> max_calls
    Period,           \* window -> period_seconds
    CallsPerThread,   \* bound: calls a thread makes
    MaxIdleTime       \* bound: the clock stands still then, unless one sleeps

\* The constructor's checks.
ASSUME LimiterAssumption ==
    /\ Window # {}
    /\ MaxCalls \in [Window -> Nat \ {0}]
    /\ Period \in [Window -> Nat \ {0}]
    /\ CallsPerThread \in Nat
    /\ MaxIdleTime \in Nat

VARIABLES
    now,       \* the monotonic clock
    pc,
    readAt,    \* thread -> the clock it read in this round of its loop
    wakeAt,    \* thread -> when its sleep is over
    slept,     \* thread -> it has slept in this call (history)
    calls,     \* thread -> calls begun
    granted,
    first

limiterVars == <<now, pc, readAt, wakeAt, slept, calls, granted, first>>

Locations == {"idle", "waiting", "read", "check", "sleep"}

\* The lock is held from acquiring it to returning.
Locked == {"read", "check", "sleep"}

LimiterInit ==
    /\ now = 0
    /\ pc = [t \in Thread |-> "idle"]
    /\ readAt = [t \in Thread |-> 0]
    /\ wakeAt = [t \in Thread |-> 0]
    /\ slept = [t \in Thread |-> FALSE]
    /\ calls = [t \in Thread |-> 0]
    /\ granted = <<>>
    /\ first = [i \in Window |-> 1]

GoTo(t, location) == pc' = [pc EXCEPT ![t] = location]

Tick ==
    /\ \/ now < MaxIdleTime
       \/ \E t \in Thread : pc[t] = "sleep" /\ now < wakeAt[t]
    /\ now' = now + 1
    /\ UNCHANGED <<pc, readAt, wakeAt, slept, calls, granted, first>>

\* A thread wants to send a request.
Call(t) ==
    /\ pc[t] = "idle"
    /\ calls[t] < CallsPerThread
    /\ calls' = [calls EXCEPT ![t] = @ + 1]
    /\ slept' = [slept EXCEPT ![t] = FALSE]
    /\ GoTo(t, "waiting")
    /\ UNCHANGED <<now, readAt, wakeAt, granted, first>>

LockFree == \A t \in Thread : pc[t] \notin Locked

Acquire(t) ==
    /\ pc[t] = "waiting"
    /\ LockFree
    /\ GoTo(t, "read")
    /\ UNCHANGED <<now, readAt, wakeAt, slept, calls, granted, first>>

ReadClock(t) ==
    /\ pc[t] = "read"
    /\ readAt' = [readAt EXCEPT ![t] = now]
    /\ GoTo(t, "check")
    /\ UNCHANGED <<now, wakeAt, slept, calls, granted, first>>

\* Mutant: a call leaves its window one tick early.
ExpiredEarly(i, k, at) == at - granted[k] >= Period[i] - 1

Expired(i, k, at) == at - granted[k] >= Period[i]

\* Mutant: the deques are never emptied.
NeverExpire(i, at, start) == start = first[i]

\* popleft while the oldest call of window i is out of the window: start is
\* where the deque then begins.
Expire(i, at, start) ==
    /\ start \in first[i]..(Len(granted) + 1)
    /\ \A k \in first[i]..(start - 1) : Expired(i, k, at)
    /\ start <= Len(granted) => ~Expired(i, start, at)

\* Mutant: one call too many.
OverFull(i, start) == Len(granted) + 1 - start > MaxCalls[i]

Full(i, start) == Len(granted) + 1 - start >= MaxCalls[i]

FullWindows(starts) == {i \in Window : Full(i, starts[i])}

Waits(starts, at) ==
    {Period[i] - (at - granted[starts[i]]) : i \in FullWindows(starts)}

\* Mutant: the shortest wait is taken for all windows.
Shortest(wait, waits) == \A other \in waits : wait <= other

Longest(wait, waits) == \A other \in waits : other <= wait

\* Every window has room: the call is recorded in all of them at the time
\* read, and the lock is released.
Grant(t, starts) ==
    /\ FullWindows(starts) = {}
    /\ granted' = Append(granted, readAt[t])
    /\ GoTo(t, "idle")
    /\ UNCHANGED <<wakeAt, slept>>

\* Some window is full: the thread sleeps, lock held, for the longest of the
\* windows' waits.
Sleep(t, starts) ==
    /\ \E wait \in Waits(starts, readAt[t]) :
        /\ Longest(wait, Waits(starts, readAt[t]))
        /\ wakeAt' = [wakeAt EXCEPT ![t] = now + wait]
    /\ slept' = [slept EXCEPT ![t] = TRUE]
    /\ GoTo(t, "sleep")
    /\ UNCHANGED granted

Check(t) ==
    /\ pc[t] = "check"
    /\ \E starts \in [Window -> 1..(Len(granted) + 1)] :
        /\ \A i \in Window : Expire(i, readAt[t], starts[i])
        /\ first' = starts
        /\ Grant(t, starts) \/ Sleep(t, starts)
    /\ UNCHANGED <<now, readAt, calls>>

Wake(t) ==
    /\ pc[t] = "sleep"
    /\ now >= wakeAt[t]
    /\ GoTo(t, "read")
    /\ UNCHANGED <<now, readAt, wakeAt, slept, calls, granted, first>>

\* Every thread has made its calls.
LimiterRest ==
    /\ \A t \in Thread : pc[t] = "idle" /\ calls[t] = CallsPerThread
    /\ UNCHANGED limiterVars

LimiterStep(t) == Acquire(t) \/ ReadClock(t) \/ Check(t) \/ Wake(t)

LimiterNext == Tick \/ LimiterRest \/ \E t \in Thread : Call(t) \/ LimiterStep(t)

LimiterSpec == LimiterInit /\ [][LimiterNext]_limiterVars

\* Time passes and a thread that can go on does.
LimiterFairness == WF_limiterVars(Tick) /\ \A t \in Thread : WF_limiterVars(LimiterStep(t))

LimiterFairSpec == LimiterSpec /\ LimiterFairness

-----------------------------------------------------------------------------
(* Properties. *)

\* The lock has one holder, a deque never holds more than its window allows.
LimiterTypeOK ==
    /\ now \in Nat
    /\ pc \in [Thread -> Locations]
    /\ \A t, u \in Thread : pc[t] \in Locked /\ pc[u] \in Locked => t = u
    /\ readAt \in [Thread -> Nat]
    /\ wakeAt \in [Thread -> Nat]
    /\ slept \in [Thread -> BOOLEAN]
    /\ calls \in [Thread -> 0..CallsPerThread]
    /\ granted \in Seq(Nat)
    /\ first \in [Window -> Nat \ {0}]
    /\ \A i \in Window :
        /\ first[i] <= Len(granted) + 1
        /\ Len(granted) + 1 - first[i] <= MaxCalls[i]

\* No Period[i] ever sees more than MaxCalls[i] grants, for all windows and
\* whichever threads they go to.
WindowRespected ==
    \A i \in Window : \A k \in 1..(Len(granted) - MaxCalls[i]) :
        granted[k + MaxCalls[i]] - granted[k] >= Period[i]

\* One sleep is enough: it is as long as the windows ask for together, so the
\* loop never goes round a third time.
SleepsOnce ==
    [][\A t \in Thread : pc[t] = "check" /\ pc'[t] = "sleep" => ~slept[t]]_limiterVars

\* Every call is let through in the end, although the lock is held while its
\* holder sleeps.
CallsGranted == \A t \in Thread : pc[t] = "waiting" ~> pc[t] = "idle"
=============================================================================
