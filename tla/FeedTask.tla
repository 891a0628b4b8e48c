------------------------------ MODULE FeedTask ------------------------------
(***************************************************************************)
(* The poll task of a feed: start(), stop() and _loop() of AtmosFeed and   *)
(* of InfoFeed (feed.py), which are the same line by line.  What a poll    *)
(* does is left to the modules that extend this one.                       *)
(*                                                                         *)
(* A task is a member of Loops; start() creates each of them once.         *)
(***************************************************************************)
EXTENDS Naturals

CONSTANTS
    Loops,      \* the tasks that start() creates
    Stoppers,   \* tasks that call stop(), each of them once
    None        \* Python's None

ASSUME FeedTaskAssumption == Loops \cap {None, "idle", "returned"} = {}

VARIABLES
    task,       \* _task
    phase,      \* what each loop task is doing
    doomed,     \* loop tasks on which stop() called cancel()
    stopping    \* where each caller of stop() is: the task it waits for

life == <<task, phase, doomed, stopping>>

LifeTypeOK ==
    /\ task \in Loops \cup {None}
    /\ phase \in [Loops -> {"unborn", "created", "polling", "sleeping", "done"}]
    /\ doomed \subseteq Loops
    /\ stopping \in [Stoppers -> {"idle", "returned"} \cup Loops]

LifeInit ==
    /\ task = None
    /\ phase = [l \in Loops |-> "unborn"]
    /\ doomed = {}
    /\ stopping = [u \in Stoppers |-> "idle"]

Done(l) == phase[l] = "done"

Live(l) == phase[l] \notin {"unborn", "done"}

\* A cancelled task takes no step but the one out of its loop.
Runs(l) == Live(l) /\ l \notin doomed

-----------------------------------------------------------------------------

\* Mutant: start() does not look at the task it has.
StartAnother(l) ==
    /\ phase[l] = "unborn"
    /\ task' = l
    /\ phase' = [phase EXCEPT ![l] = "created"]
    /\ UNCHANGED <<doomed, stopping>>

\* start() when there is no task or it has ended; else the same task returns.
Start(l) ==
    /\ phase[l] = "unborn"
    /\ task # None => Done(task)
    /\ task' = l
    /\ phase' = [phase EXCEPT ![l] = "created"]
    /\ UNCHANGED <<doomed, stopping>>

\* The loop enters poll_once(), first or when its interval is over.
Begins(l) ==
    /\ Runs(l)
    /\ phase[l] # "polling"
    /\ phase' = [phase EXCEPT ![l] = "polling"]
    /\ UNCHANGED <<task, doomed, stopping>>

\* poll_once() has returned.
Sleeps(l) ==
    /\ Runs(l)
    /\ phase[l] = "polling"
    /\ phase' = [phase EXCEPT ![l] = "sleeping"]
    /\ UNCHANGED <<task, doomed, stopping>>

\* poll_once() has raised: the error is logged, and the task is over.
Raises(l) ==
    /\ Runs(l)
    /\ phase' = [phase EXCEPT ![l] = "done"]
    /\ UNCHANGED <<task, doomed, stopping>>

\* The cancelled loop runs: it leaves poll_once() or sleep() by CancelledError.
Cancelled(l) ==
    /\ l \in doomed
    /\ ~Done(l)
    /\ phase' = [phase EXCEPT ![l] = "done"]
    /\ UNCHANGED <<task, doomed, stopping>>

\* Mutant: stop() waits for the task without cancelling it.
StopPolitely(u) ==
    /\ stopping[u] = "idle"
    /\ task # None
    /\ task' = None
    /\ stopping' = [stopping EXCEPT ![u] = task]
    /\ UNCHANGED <<phase, doomed>>

\* stop() up to `await task`: the reference goes first, then the task is told.
Stop(u) ==
    /\ stopping[u] = "idle"
    /\ task # None
    /\ task' = None
    /\ doomed' = IF Done(task) THEN doomed ELSE doomed \cup {task}
    /\ stopping' = [stopping EXCEPT ![u] = task]
    /\ UNCHANGED phase

\* stop() when there is no task.
StopAtOnce(u) ==
    /\ stopping[u] = "idle"
    /\ task = None
    /\ stopping' = [stopping EXCEPT ![u] = "returned"]
    /\ UNCHANGED <<task, phase, doomed>>

\* Mutant: stop() does not wait for the cancelled task.
StopReturnsEarly(u) ==
    /\ stopping[u] \in Loops
    /\ stopping' = [stopping EXCEPT ![u] = "returned"]
    /\ UNCHANGED <<task, phase, doomed>>

\* `await task` ends, and stop() with it, by return or with the task's error.
StopReturns(u) ==
    /\ stopping[u] \in Loops
    /\ Done(stopping[u])
    /\ stopping' = [stopping EXCEPT ![u] = "returned"]
    /\ UNCHANGED <<task, phase, doomed>>

Managing ==
    \/ \E l \in Loops : Start(l)
    \/ \E u \in Stoppers : Stop(u) \/ StopAtOnce(u) \/ StopReturns(u)

LifeNext ==
    \/ Managing
    \/ \E l \in Loops : Begins(l) \/ Sleeps(l) \/ Raises(l) \/ Cancelled(l)

LifeSpec == LifeInit /\ [][LifeNext]_life

-----------------------------------------------------------------------------
(* What start() and stop() promise *)

\* At most one loop is running that was not told to stop, and it is the one
\* that stop() would stop: no task is lost while it polls.
OneLoop == \A l \in Loops : Runs(l) => l = task

\* "Cancel the poll loop and wait until it finishes" (feed.py:255): as long as
\* a loop that was told to stop is still running, a caller of stop() waits for
\* it.  (The one that told it: another stop() meanwhile returns at once.)
StopWaits ==
    \A l \in doomed : Live(l) => \E u \in Stoppers : stopping[u] = l

\* stop() always comes back, whatever the loop is waiting for.
StopComesBack ==
    \A u \in Stoppers : stopping[u] \in Loops ~> stopping[u] = "returned"

=============================================================================
