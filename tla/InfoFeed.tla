------------------------------ MODULE InfoFeed ------------------------------
(***************************************************************************)
(* InfoFeed (feed.py): a task fetches one Info dump after the other and    *)
(* publishes those that differ from the one before.                        *)
(*                                                                         *)
(* The module composes AtmosClient (a fetch is fetch_info(), many frames   *)
(* under the data lock) with EventBus and the task of FeedTask.  Others    *)
(* poll too.  Subscribers are left to EventBus, other operations of the    *)
(* client to AtmosClient: they do not touch what is compared here.         *)
(* A dump has one row in each chunk.  What a row says is a version number  *)
(* that grows, and the gateway reads it when it answers with its chunk.    *)
(***************************************************************************)
EXTENDS FeedTask, Integers, Sequences, SequencesExt

CONSTANTS
    Pollers,    \* tasks that call poll_once() themselves
    App,        \* the task that may call aclose()
    Controller, \* ac16
    RowCount,   \* how many rows its dump has
    MaxVersion, \* bound on the changes of a row
    Link,       \* the client's connection
    Lossy,      \* {Link} if it may be lost
    MaxCalls, MaxPending

VARIABLES
    socket, lock, pc, on, req, calls, conn, wire, inbox, abandoned,  \* Exchange
    data_lock, step, at, parts, helloed, cursor,             \* AtmosClient
    seq, subs, queue, stage, log, joined, taken,             \* EventBus
    now,        \* what the rows say at the gateway
    dump        \* dump: what they say in the stored one

exchange == <<socket, lock, pc, on, req, calls, conn, wire, inbox, abandoned>>
operations == <<data_lock, step, at, parts, helloed, cursor>>
bus == <<seq, subs, queue, stage, log, joined, taken>>
vars == <<exchange, operations, bus, life, now, dump>>

Readers == Loops \cup Pollers
Rows == 0..RowCount - 1
Versions == 0..MaxVersion
NoDump == [r \in Rows |-> -1]

FetchInfo == <<[name |-> "info", of |-> Controller]>>

C == INSTANCE AtmosClient WITH
        Tasks <- Readers,
        Script <- [t \in Readers |-> FetchInfo],
        Looping <- Readers,
        Impatient <- Loops,
        Chunks <- RowCount,
        Contents <- Versions,
        Missing <- {},
        Endless <- {},
        MaxChunks <- RowCount

ASSUME InfoFeedAssumption ==
    /\ RowCount \in Nat \ {0}
    /\ MaxVersion \in Nat
    /\ Lossy \subseteq {Link}
    /\ None # Link /\ None \notin C!Requests
    /\ MaxCalls \in Nat \ {0}
    /\ MaxPending \in Nat

B == INSTANCE EventBus WITH
        Consumers <- {},
        Updates <- [Rows -> Versions],
        MaxEvents <- 0

TypeOK ==
    /\ C!TypeOK
    /\ B!TypeOK
    /\ LifeTypeOK
    /\ now \in [Rows -> Versions]
    /\ dump \in [Rows -> Versions \cup {-1}]

Init ==
    /\ C!Init
    /\ B!Init
    /\ LifeInit
    /\ now = [r \in Rows |-> 0]
    /\ dump = NoDump

-----------------------------------------------------------------------------
(* poll_once() *)

\* What the dump says that task p has when it takes the next chunk.
Sample(p) == [r \in Rows |-> C!Got(p)[r + 1].said]

\* Mutant: every dump is published.
AbsorbAll(rows) ==
    /\ dump' = rows
    /\ B!PublishAll(<<rows>>)

\* Mutant: a dump once stored is kept.
AbsorbFirst(rows) ==
    IF dump # NoDump
    THEN UNCHANGED <<dump, bus>>
    ELSE dump' = rows /\ B!PublishAll(<<rows>>)

\* What poll_once() does with a dump: compare, store and publish, without a
\* suspension.
Absorb(rows) ==
    IF dump = rows
    THEN UNCHANGED <<dump, bus>>
    ELSE dump' = rows /\ B!PublishAll(<<rows>>)

\* The last chunk arrives, fetch_info() assembles the dump and returns it, and
\* the rest of poll_once() follows at once.
PollReturns(p) ==
    /\ C!Receiving(p)
    /\ C!Completes(p)
    /\ C!Finish(p)
    /\ Absorb(Sample(p))

\* fetch_info() raises: nothing is stored or published.
PollRaises(p) ==
    /\ \/ C!NotConnected(p)
       \/ C!Receiving(p) /\ ~C!Completes(p) /\ C!Finish(p)
       \/ C!Fail(p)
    /\ UNCHANGED <<dump, bus>>

\* Between the first request for the data lock and the last chunk.
PollGoesOn(p) ==
    /\ C!Call(p) \/ C!Send(p) \/ C!NextChunk(p)
    /\ UNCHANGED <<dump, bus>>

PollBegins(p) == C!AskDataLock(p) /\ UNCHANGED <<dump, bus>>

PollerStep(p) ==
    /\ PollBegins(p) \/ PollGoesOn(p) \/ PollReturns(p) \/ PollRaises(p)
    /\ UNCHANGED <<life, now>>

-----------------------------------------------------------------------------
(* start(), stop() and _loop() *)

ManagingStep ==
    /\ Managing
    /\ UNCHANGED <<exchange, operations, bus, now, dump>>

LoopStep(l) ==
    /\ \/ Begins(l) /\ PollBegins(l)
       \/ Runs(l) /\ PollGoesOn(l) /\ UNCHANGED life
       \/ Sleeps(l) /\ PollReturns(l)
       \/ Raises(l) /\ PollRaises(l)
    /\ UNCHANGED now

\* The cancelled task ends where it is suspended, and lets both locks go.
LoopCancelled(l) ==
    /\ Cancelled(l)
    /\ \/ phase[l] # "polling" /\ UNCHANGED <<exchange, operations>>
       \/ C!Cancel(l)
    /\ UNCHANGED <<bus, now, dump>>

-----------------------------------------------------------------------------
(* The connection and the gateway *)

\* The gateway answers an Info request with what the row says at that moment;
\* a request beyond the end of a dump finds nothing that counts.
Answer ==
    /\ wire[Link] # << >>
    /\ LET row == C!Dump(Head(wire[Link]).req).next IN
        C!AnswerSaying(IF row \in Rows THEN now[row] ELSE 0)
    /\ UNCHANGED <<bus, life, now, dump>>

LinkStep ==
    /\ C!LinkStep
    /\ UNCHANGED <<bus, life, now, dump>>

Change(r) ==
    /\ now[r] < MaxVersion
    /\ now' = [now EXCEPT ![r] = @ + 1]
    /\ UNCHANGED <<exchange, operations, bus, life, dump>>

Next ==
    \/ ManagingStep
    \/ \E l \in Loops : LoopStep(l) \/ LoopCancelled(l)
    \/ \E p \in Pollers : PollerStep(p)
    \/ Answer
    \/ LinkStep
    \/ \E r \in Rows : Change(r)

Spec == Init /\ [][Next]_vars

\* The event loop runs every task that can run, an interval ends, a gateway
\* answers, close() has a timeout.
FairSpec ==
    /\ Spec
    /\ \A l \in Loops : WF_vars(LoopStep(l)) /\ WF_vars(LoopCancelled(l))
    /\ \A u \in Stoppers : WF_vars(StopReturns(u) /\ ManagingStep)
    /\ \A p \in Pollers : WF_vars(PollerStep(p))
    /\ WF_vars(Answer)
    /\ WF_vars(C!X!CloseDone(Link) /\ LinkStep)

-----------------------------------------------------------------------------
(* What the feed promises *)

\* "Fetch one Info dump and publish when it differs from the last one"
\* (feed.py:317): the stored dump is the one published last, and no dump is
\* published twice in a row, whoever polls.
DumpIsLastEvent ==
    /\ dump = IF log = << >> THEN NoDump ELSE Last(log).update
    /\ \A i \in 2..Len(log) : log[i - 1].update # log[i].update

\* Every row of the stored dump says what it has said at the gateway, and steps
\* only forward, although a poll compares with a dump that another poll may
\* have stored since it began, and although a dump is put together from chunks
\* of different moments.
Gateway == INSTANCE Mirror WITH Keys <- Rows, source <- now, copy <- dump
MirrorsGateway == Gateway!Spec

\* A poll of the loop fails only when the connection has ended or was closed,
\* or when a stop() cut an exchange short: no other poll ever kills the loop.
FailsForAReason ==
    [][\A l \in Loops :
        Runs(l) /\ phase'[l] = "done"
            => socket = None \/ conn[Link] # "open" \/ abandoned # {}]_vars

\* While a loop runs, what a row says gets into the stored dump.
RowsGetThrough ==
    \A r \in Rows, v \in Versions :
        (task # None /\ now[r] = v)
            ~> (dump[r] >= v \/ task = None \/ Done(task) \/ abandoned # {})

=============================================================================
