--------------------------- MODULE FeedTaskProofs ---------------------------
(***************************************************************************)
(* One loop at a time, and somebody waits for each that was told to stop,  *)
(* for any number of loops and of callers of stop().                       *)
(***************************************************************************)
EXTENDS FeedTask, TLAPS

\* Tasks that were told to stop, and the task that would be, were created.
Created ==
    /\ \A l \in doomed : phase[l] # "unborn"
    /\ task # None => phase[task] # "unborn"

\* The inductive invariant: OneLoop and StopWaits need each other's types and
\* that no task is doomed before it is created.
LifeInv == LifeTypeOK /\ Created /\ OneLoop /\ StopWaits

\* None is no task, nor is a state of a caller of stop() (feed.py:256).
LEMMA LoopsAreTasks ==
    ASSUME NEW l \in Loops
    PROVE  l # None /\ l # "idle" /\ l # "returned"
BY FeedTaskAssumption

LEMMA InitEstablishes == LifeInit => LifeInv
BY LoopsAreTasks DEF LifeInit, LifeInv, LifeTypeOK, Created, OneLoop, StopWaits, Runs, Live

\* start() makes a loop only when none runs (feed.py:250).
LEMMA StartKeeps ==
    ASSUME LifeInv, NEW l \in Loops, Start(l)
    PROVE  LifeInv'
<1>1. LifeTypeOK'
    BY DEF LifeInv, LifeTypeOK, Start
<1>2. \A k \in Loops : k # l => phase'[k] = phase[k]
    BY DEF LifeInv, LifeTypeOK, Start
<1>3. phase'[l] = "created" /\ l \notin doomed
    BY DEF LifeInv, LifeTypeOK, Created, Start
<1>4. Created'
    BY <1>2, <1>3 DEF LifeInv, LifeTypeOK, Created, Start
<1>5. \A k \in Loops : ~Runs(k)
    BY LoopsAreTasks DEF LifeInv, OneLoop, Start, Done, Runs, Live
<1>6. OneLoop'
    BY <1>2, <1>5 DEF OneLoop, Runs, Live, Start
<1>7. StopWaits'
    BY <1>2, <1>3 DEF LifeInv, LifeTypeOK, StopWaits, Live, Start
<1> QED
    BY <1>1, <1>4, <1>6, <1>7 DEF LifeInv

\* stop() tells the one loop that runs, and waits for it (feed.py:254).
LEMMA StopKeeps ==
    ASSUME LifeInv, NEW u \in Stoppers, Stop(u)
    PROVE  LifeInv'
<1>1. task \in Loops /\ task # None
    BY DEF LifeInv, LifeTypeOK, Stop
<1>2. LifeTypeOK'
    BY <1>1 DEF LifeInv, LifeTypeOK, Stop
<1>3. Created'
    BY <1>1 DEF LifeInv, Created, Stop
<1>4. OneLoop'
    BY <1>1 DEF LifeInv, OneLoop, Stop, Runs, Live, Done
<1>5. StopWaits'
    <2> SUFFICES ASSUME NEW l \in doomed', Live(l)'
                 PROVE  \E v \in Stoppers : stopping'[v] = l
        BY DEF StopWaits
    <2>1. stopping'[u] = task
        BY DEF LifeInv, LifeTypeOK, Stop
    <2>2. CASE l = task
        BY <2>1, <2>2
    <2>3. CASE l # task
        <3>1. l \in doomed /\ l \in Loops /\ Live(l)
            BY <2>3 DEF LifeInv, LifeTypeOK, Stop, Live
        <3>2. PICK v \in Stoppers : stopping[v] = l
            BY <3>1 DEF LifeInv, StopWaits
        <3>3. v # u
            BY <3>1, <3>2, LoopsAreTasks DEF Stop
        <3> QED
            BY <3>2, <3>3 DEF LifeInv, LifeTypeOK, Stop
    <2> QED
        BY <2>2, <2>3
<1> QED
    BY <1>2, <1>3, <1>4, <1>5 DEF LifeInv

\* A caller of stop() that has nothing to wait for, or no more (feed.py:257, 262).
LEMMA ReturnKeeps ==
    ASSUME LifeInv, NEW u \in Stoppers, StopAtOnce(u) \/ StopReturns(u)
    PROVE  LifeInv'
<1>1. LifeTypeOK' /\ Created' /\ OneLoop'
    BY DEF LifeInv, LifeTypeOK, Created, OneLoop, Runs, Live, StopAtOnce, StopReturns
<1>2. StopWaits'
    <2> SUFFICES ASSUME NEW l \in doomed, Live(l)
                 PROVE  \E v \in Stoppers : stopping'[v] = l
        BY DEF StopWaits, Live, StopAtOnce, StopReturns
    <2>1. l \in Loops
        BY DEF LifeInv, LifeTypeOK
    <2>2. PICK v \in Stoppers : stopping[v] = l
        BY DEF LifeInv, StopWaits
    <2>3. v # u
        BY <2>1, <2>2, LoopsAreTasks DEF StopAtOnce, StopReturns, Done, Live
    <2> QED
        BY <2>2, <2>3 DEF LifeInv, LifeTypeOK, StopAtOnce, StopReturns
<1> QED
    BY <1>1, <1>2 DEF LifeInv

\* A loop that goes on was not told to stop; one that ends is waited for no more
\* than before (feed.py:275).
LEMMA LoopKeeps ==
    ASSUME LifeInv, NEW l \in Loops, Begins(l) \/ Sleeps(l) \/ Raises(l) \/ Cancelled(l)
    PROVE  LifeInv'
<1>1. UNCHANGED <<task, doomed, stopping>>
    BY DEF Begins, Sleeps, Raises, Cancelled
<1>2. \A k \in Loops : k # l => phase'[k] = phase[k]
    BY DEF LifeInv, LifeTypeOK, Begins, Sleeps, Raises, Cancelled
<1>3. phase'[l] \in {"polling", "sleeping", "done"}
    BY DEF LifeInv, LifeTypeOK, Begins, Sleeps, Raises, Cancelled
<1>4. phase'[l] = "done" \/ Runs(l)
    BY DEF LifeInv, LifeTypeOK, Begins, Sleeps, Raises, Cancelled
<1>5. LifeTypeOK'
    BY DEF LifeInv, LifeTypeOK, Begins, Sleeps, Raises, Cancelled
<1>6. Created'
    BY <1>1, <1>2, <1>3 DEF LifeInv, LifeTypeOK, Created
<1>7. OneLoop'
    BY <1>1, <1>2, <1>4 DEF LifeInv, OneLoop, Runs, Live
<1>8. StopWaits'
    BY <1>1, <1>2, <1>4 DEF LifeInv, LifeTypeOK, StopWaits, Runs, Live
<1> QED
    BY <1>5, <1>6, <1>7, <1>8 DEF LifeInv

LEMMA LifeInvIsInductive == LifeInv /\ [LifeNext]_life => LifeInv'
<1> SUFFICES ASSUME LifeInv, [LifeNext]_life
             PROVE  LifeInv'
    OBVIOUS
<1>1. CASE Managing
    BY <1>1, StartKeeps, StopKeeps, ReturnKeeps DEF Managing
<1>2. CASE \E l \in Loops : Begins(l) \/ Sleeps(l) \/ Raises(l) \/ Cancelled(l)
    BY <1>2, LoopKeeps
<1>3. CASE UNCHANGED life
    BY <1>3 DEF life, LifeInv, LifeTypeOK, Created, OneLoop, StopWaits, Runs, Live
<1> QED
    BY <1>1, <1>2, <1>3 DEF LifeNext

LEMMA LifeInvHolds == LifeSpec => []LifeInv
BY InitEstablishes, LifeInvIsInductive, PTL DEF LifeSpec

\* However start(), stop() and the loops interleave, at most one loop runs that
\* was not told to stop, and stop() would stop it (feed.py:244, 254).
THEOREM OneLoopAtATime == LifeSpec => []OneLoop
BY LifeInvHolds, PTL DEF LifeInv

\* A loop that was told to stop and still runs is waited for by a caller of
\* stop() (feed.py:261).
THEOREM StopsAreAwaited == LifeSpec => []StopWaits
BY LifeInvHolds, PTL DEF LifeInv

=============================================================================
