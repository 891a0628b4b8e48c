----------------------------- MODULE AtmosFeed ------------------------------
(***************************************************************************)
(* AtmosFeed (feed.py): a task polls a fixed set of registers through the  *)
(* client and publishes the words that changed.                            *)
(*                                                                         *)
(* The module composes Exchange (a read is one exchange()) with EventBus   *)
(* (a poll publishes at once).  The client was connected when the feed was *)
(* made; it has other users, and it may be closed or lose its connection   *)
(* under the feed.  A register is a version number: each change of its raw *)
(* word makes a new one.                                                   *)
(***************************************************************************)
EXTENDS FeedTask, Integers, Sequences, FiniteSets, SequencesExt

CONSTANTS
    Pollers,    \* tasks that call poll_once() themselves
    Others,     \* tasks that read other registers over the same client
    Impatient,  \* those of the others that may be cancelled
    App,        \* the task that may call aclose()
    Ids,        \* the feed's register_ids
    Foreign,    \* the registers the others read
    MayHide,    \* registers whose record may be hidden or unavailable
    MaxVersion, \* bound on the changes of a register
    Consumers,  \* subscriptions to the feed's bus
    Link,       \* the client's connection
    Lossy,      \* {Link} if it may be lost
    MaxCalls, MaxPending

ASSUME AtmosFeedAssumption ==
    /\ MaxVersion \in Nat
    /\ Ids \cap Foreign = {}
    /\ IsFiniteSet(Ids) /\ IsFiniteSet(Foreign)
    /\ Impatient \subseteq Others
    /\ Loops \cap Pollers = {} /\ Others \cap (Loops \cup Pollers) = {}
    /\ Lossy \subseteq {Link}
    /\ None \notin {Link, Ids, Foreign}
    /\ MaxCalls \in Nat \ {0}
    /\ MaxPending \in Nat

VARIABLES
    socket, lock, pc, on, req, calls, conn, wire, inbox, abandoned,  \* Exchange
    seq, subs, queue, stage, log, joined, taken,             \* EventBus
    reg,        \* the gateway's registers
    store,      \* ValueStore
    asked       \* the registers when a poll was begun (ghost)

exchange == <<socket, lock, pc, on, req, calls, conn, wire, inbox, abandoned>>
bus == <<seq, subs, queue, stage, log, joined, taken>>
vars == <<exchange, bus, reg, life, store, asked>>

Readers == Loops \cup Pollers
Registers == Ids \cup Foreign
Versions == 0..MaxVersion
NoValue == -1

X == INSTANCE Exchange WITH
        Tasks <- Readers \cup Others \cup {App},
        Connectors <- {App},
        MayCancel <- Loops \cup Impatient,
        Sockets <- {Link},
        Requests <- {Ids, Foreign},
        Silent <- {},
        Replies <- UNION {[r -> Versions \cup {NoValue}] : r \in {Ids, Foreign}}

B == INSTANCE EventBus WITH
        Updates <- [id : Registers, value : Versions],
        MaxEvents <- 0

TypeOK ==
    /\ X!TypeOK
    /\ B!TypeOK
    /\ reg \in [Registers -> Versions]
    /\ LifeTypeOK
    /\ store \in [Registers -> Versions \cup {NoValue}]
    /\ asked \in [Readers -> [Ids -> Versions]]

Zero == [x \in Ids |-> 0]

Init ==
    /\ X!Connected(Link)
    /\ B!Init
    /\ reg = [x \in Registers |-> 0]
    /\ LifeInit
    /\ store = [x \in Registers |-> NoValue]
    /\ asked = [p \in Readers |-> Zero]

-----------------------------------------------------------------------------
(* poll_once() *)

\* poll_once() up to the lock of the client.
BeginPoll(p) ==
    /\ X!ExchangeCall(p, Ids)
    /\ asked' = [asked EXCEPT ![p] = [x \in Ids |-> reg[x]]]

\* Mutant: records without a word are not skipped.
ChangedOrMissing(sample) == {x \in DOMAIN sample : store[x] # sample[x]}

\* Mutant: a word once stored is kept.
FirstSeen(sample) ==
    {x \in DOMAIN sample : sample[x] # NoValue /\ store[x] = NoValue}

\* The registers whose word is there and differs from the stored one.
Changed(sample) ==
    {x \in DOMAIN sample : sample[x] # NoValue /\ store[x] # sample[x]}

\* Mutant: the first sample is stored without an event.
AbsorbFirstQuietly(sample) ==
    /\ store' = [x \in Registers |->
            IF x \in Changed(sample) THEN sample[x] ELSE store[x]]
    /\ B!PublishAll(SetToSeq({[id |-> x, value |-> sample[x]] :
            x \in {y \in Changed(sample) : store[y] # NoValue}}))

\* What poll_once() does with the records, without a suspension.
Absorb(sample) ==
    /\ store' = [x \in Registers |->
            IF x \in Changed(sample) THEN sample[x] ELSE store[x]]
    /\ B!PublishAll(SetToSeq({[id |-> x, value |-> sample[x]] : x \in Changed(sample)}))

\* read_registers() returns a sample; the rest of poll_once() follows at once.
PollReturns(p) ==
    /\ X!Return(p)
    /\ Absorb(X!Received(p).reply)
    /\ asked' = [asked EXCEPT ![p] = Zero]

\* read_registers() raises; nothing is stored or published.
PollRaises(p) ==
    /\ X!SendFails(p) \/ X!ReceiveFails(p)
    /\ asked' = [asked EXCEPT ![p] = Zero]
    /\ UNCHANGED <<bus, store>>

\* A task that polls by itself; an error goes to it and changes nothing here.
PollerStep(p) ==
    /\ \/ BeginPoll(p) /\ UNCHANGED <<bus, store>>
       \/ X!Send(p) /\ UNCHANGED <<bus, store, asked>>
       \/ PollReturns(p)
       \/ PollRaises(p)
    /\ UNCHANGED <<reg, life>>

-----------------------------------------------------------------------------
(* start(), stop() and _loop() *)

ManagingStep ==
    /\ Managing
    /\ UNCHANGED <<exchange, bus, reg, store, asked>>

\* The loop begins its first poll, or the next one after the interval.  Without
\* a socket poll_once() raises NotConnectedError and the task ends.
LoopPolls(l) ==
    /\ \/ Begins(l) /\ BeginPoll(l)
       \/ /\ Raises(l)
          /\ phase[l] # "polling" /\ socket = None
          /\ UNCHANGED <<exchange, asked>>
    /\ UNCHANGED <<bus, reg, store>>

LoopSends(l) ==
    /\ Runs(l)
    /\ X!Send(l)
    /\ UNCHANGED <<bus, reg, life, store, asked>>

\* A poll is done: publish, then sleep.
LoopAbsorbs(l) == Sleeps(l) /\ PollReturns(l) /\ UNCHANGED reg

LoopRaises(l) == Raises(l) /\ PollRaises(l) /\ UNCHANGED reg

\* The cancelled task ends where it is suspended.
LoopCancelled(l) ==
    /\ Cancelled(l)
    /\ \/ phase[l] # "polling" /\ UNCHANGED exchange
       \/ X!CancelQueued(l)
       \/ X!CancelWaiting(l)
    /\ asked' = [asked EXCEPT ![l] = Zero]
    /\ UNCHANGED <<bus, reg, store>>

LoopStep(l) ==
    LoopPolls(l) \/ LoopSends(l) \/ LoopAbsorbs(l) \/ LoopRaises(l) \/ LoopCancelled(l)

-----------------------------------------------------------------------------
(* Other users of the client, subscribers, and the gateway *)

\* Another feed on the same client, for instance, that may be stopped.
OtherStep(o) ==
    /\ \/ X!ExchangeCall(o, Foreign)
       \/ X!Send(o)
       \/ X!SendFails(o)
       \/ X!Return(o)
       \/ X!ReceiveFails(o)
       \/ X!CancelQueued(o)
       \/ X!CancelWaiting(o)
    /\ UNCHANGED <<bus, reg, life, store, asked>>

\* The gateway answers a read with the words of that moment; some records may
\* be hidden.
Answer ==
    /\ wire[Link] # << >>
    /\ \E hidden \in SUBSET MayHide :
            X!Answer(Link, [x \in Head(wire[Link]).req |->
                                IF x \in hidden THEN NoValue ELSE reg[x]])
    /\ UNCHANGED <<bus, reg, life, store, asked>>

LinkStep ==
    /\ X!AClose(App) \/ X!CloseDone(Link) \/ X!Drop(Link)
    /\ UNCHANGED <<bus, reg, life, store, asked>>

\* A polled register changes at the gateway.
Change(x) ==
    /\ reg[x] < MaxVersion
    /\ reg' = [reg EXCEPT ![x] = @ + 1]
    /\ UNCHANGED <<exchange, bus, life, store, asked>>

Subscribing ==
    /\ B!Consuming
    /\ UNCHANGED <<exchange, reg, life, store, asked>>

Next ==
    \/ ManagingStep
    \/ \E l \in Loops : LoopStep(l)
    \/ \E p \in Pollers : PollerStep(p)
    \/ \E o \in Others : OtherStep(o)
    \/ Answer
    \/ LinkStep
    \/ \E x \in Ids : Change(x)
    \/ Subscribing

Spec == Init /\ [][Next]_vars

\* The event loop runs every task that can run, an interval ends, a gateway
\* answers, close() has a timeout.
FairSpec ==
    /\ Spec
    /\ \A l \in Loops : WF_vars(LoopStep(l))
    /\ \A u \in Stoppers : WF_vars(StopReturns(u) /\ ManagingStep)
    /\ \A p \in Pollers : WF_vars(PollerStep(p))
    /\ \A o \in Others : WF_vars(X!Send(o) /\ OtherStep(o))
                         /\ WF_vars((X!Return(o) \/ X!ReceiveFails(o)) /\ OtherStep(o))
                         /\ WF_vars(X!SendFails(o) /\ OtherStep(o))
    /\ WF_vars(Answer)
    /\ WF_vars(X!CloseDone(Link) /\ LinkStep)

-----------------------------------------------------------------------------
(* What the feed promises *)

\* Event i is the last one about register x.
Newest(i, x) == log[i].update.id = x /\ \A j \in i + 1..Len(log) : log[j].update.id # x

\* The store holds the last published word of each register, and no word that
\* was not published: a subscriber can rebuild the store from the events.  No
\* event repeats an earlier one or goes back behind it, whoever polls.
StoreIsLastEvent ==
    /\ \A x \in Registers :
        \/ store[x] = NoValue /\ \A i \in 1..Len(log) : log[i].update.id # x
        \/ \E i \in 1..Len(log) : Newest(i, x) /\ log[i].update.value = store[x]
    /\ \A i, j \in 1..Len(log) :
        i < j /\ log[i].update.id = log[j].update.id => log[i].update.value < log[j].update.value

\* "Published only when the raw word changes" (feed.py:188), by whichever task
\* polls and however late an answer is: the store takes words that the gateway
\* has had, each register newer and newer ones, no step back and no repetition.
Gateway == INSTANCE Mirror WITH Keys <- Registers, source <- reg, copy <- store
MirrorsGateway == Gateway!Spec

\* "Poll a fixed set of registers and publish changes" (feed.py:185): nothing
\* but the configured registers gets into the store.
OnlyConfigured == \A x \in Registers \ Ids : store[x] = NoValue

\* The same, where the code achieves it: no exchange of the client was
\* cancelled after it had sent.
OnlyConfiguredUnlessAbandoned == abandoned = {} => OnlyConfigured

\* When a poll ends, the store is as new as the poll: a record that was there
\* leaves a word that the register held after the poll had begun, or newer.
\* (Unless a sent request was abandoned.)
PollIsFresh ==
    [][\A p \in Readers :
        X!Return(p) /\ abandoned = {} =>
            \A x \in Ids \cap DOMAIN X!Received(p).reply :
                X!Received(p).reply[x] # NoValue => store'[x] >= asked[p][x]]_vars

\* While a loop runs, every change of a polled register gets to the store.
ChangesGetThrough ==
    \A x \in Ids, v \in Versions :
        (task # None /\ reg[x] = v)
            ~> (store[x] >= v \/ task = None \/ Done(task) \/ abandoned # {})

=============================================================================
