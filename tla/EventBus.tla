------------------------------ MODULE EventBus ------------------------------
(***************************************************************************)
(* EventBus and InfoEventBus (feed.py): a multicast bus with one unbounded *)
(* queue per subscription.                                                 *)
(*                                                                         *)
(* The bus's own lock is never held over a suspension and put() on an      *)
(* unbounded queue never suspends, so publish() is one step of the task    *)
(* that calls it.  subscribe() is an async generator: its body, and with   *)
(* it the registration, runs only when the consumer first asks for an      *)
(* event.                                                                  *)
(***************************************************************************)
EXTENDS Integers, Sequences

CONSTANTS
    Consumers,  \* subscriptions: one call of subscribe() each
    Updates,    \* what is published
    MaxEvents   \* bound on the events of a run

ASSUME EventBusAssumption == MaxEvents \in Nat

VARIABLES
    seq,        \* _seq
    subs,       \* the subscriptions whose queue is in _subs
    queue,      \* the queue of each subscription
    stage,      \* how far each generator is
    log,        \* every event published so far (ghost)
    joined,     \* Len(log) when the queue was registered (ghost)
    taken       \* how many events each consumer has been handed (ghost)

vars == <<seq, subs, queue, stage, log, joined, taken>>

Events == [seq : Nat, update : Updates]

TypeOK ==
    /\ seq \in Nat
    /\ subs \subseteq Consumers
    /\ queue \in [Consumers -> Seq(Events)]
    /\ stage \in [Consumers -> {"none", "created", "listening", "left"}]
    /\ log \in Seq(Events)
    /\ joined \in [Consumers -> Nat]
    /\ taken \in [Consumers -> Nat]

Init ==
    /\ seq = 0
    /\ subs = {}
    /\ queue = [c \in Consumers |-> << >>]
    /\ stage = [c \in Consumers |-> "none"]
    /\ log = << >>
    /\ joined = [c \in Consumers |-> 0]
    /\ taken = [c \in Consumers |-> 0]

\* The call subscribe(): a generator object, nothing else.
Subscribe(c) ==
    /\ stage[c] = "none"
    /\ stage' = [stage EXCEPT ![c] = "created"]
    /\ UNCHANGED <<seq, subs, queue, log, joined, taken>>

\* Mutant: the generator waits on a queue that the bus does not know.
RegisterNothing(c) ==
    /\ stage[c] = "created"
    /\ stage' = [stage EXCEPT ![c] = "listening"]
    /\ joined' = [joined EXCEPT ![c] = Len(log)]
    /\ UNCHANGED <<seq, subs, queue, log, taken>>

\* The first request for an event runs the generator up to queue.get().
Register(c) ==
    /\ stage[c] = "created"
    /\ stage' = [stage EXCEPT ![c] = "listening"]
    /\ subs' = subs \cup {c}
    /\ joined' = [joined EXCEPT ![c] = Len(log)]
    /\ UNCHANGED <<seq, queue, log, taken>>

\* The events that publishing the updates of us, in order, makes.
Numbered(us) == [i \in 1..Len(us) |-> [seq |-> seq + i - 1, update |-> us[i]]]

\* Mutant: only idle subscribers, with an empty queue, are told.
PublishToIdle(us) ==
    /\ log' = log \o Numbered(us)
    /\ seq' = seq + Len(us)
    /\ queue' = [c \in Consumers |->
            IF c \in subs /\ queue[c] = << >> THEN queue[c] \o Numbered(us) ELSE queue[c]]
    /\ UNCHANGED <<subs, stage, joined, taken>>

\* publish() for each update of us, by one task in one go.
PublishAll(us) ==
    /\ log' = log \o Numbered(us)
    /\ seq' = seq + Len(us)
    /\ queue' = [c \in Consumers |->
            IF c \in subs THEN queue[c] \o Numbered(us) ELSE queue[c]]
    /\ UNCHANGED <<subs, stage, joined, taken>>

Publish(u) == Len(log) < MaxEvents /\ PublishAll(<<u>>)

\* queue.get() returns and the generator yields the event.
Take(c) ==
    /\ stage[c] = "listening"
    /\ queue[c] # << >>
    /\ queue' = [queue EXCEPT ![c] = Tail(@)]
    /\ taken' = [taken EXCEPT ![c] = @ + 1]
    /\ UNCHANGED <<seq, subs, stage, log, joined>>

\* The consumer is cancelled in queue.get() or closes the generator.
Leave(c) ==
    /\ stage[c] \in {"created", "listening"}
    /\ stage' = [stage EXCEPT ![c] = "left"]
    /\ subs' = subs \ {c}
    /\ UNCHANGED <<seq, queue, log, joined, taken>>

Consuming ==
    \E c \in Consumers : Subscribe(c) \/ Register(c) \/ Take(c) \/ Leave(c)

Next == Consuming \/ \E u \in Updates : Publish(u)

Spec == Init /\ [][Next]_vars

\* A consumer that is listening is resumed when its queue is not empty.
FairSpec == Spec /\ \A c \in Consumers : WF_vars(Take(c))

-----------------------------------------------------------------------------

\* last_seq()
LastSeq == IF seq - 1 > -1 THEN seq - 1 ELSE -1

\* Events are numbered from 0 without gaps, and last_seq() is the number of the
\* newest one.
Numbering ==
    /\ seq = Len(log)
    /\ \A i \in 1..Len(log) : log[i].seq = i - 1
    /\ LastSeq = IF log = << >> THEN -1 ELSE log[Len(log)].seq

\* The registered queues are those of the generators that wait for an event.
Registered == subs = {c \in Consumers : stage[c] = "listening"}

\* A subscriber has been handed, or finds in its queue, every event published
\* since its registration, once and in order, however the calls of publish(),
\* subscribe() and the departures of other subscribers interleave.
Delivery ==
    \A c \in subs :
        /\ joined[c] + taken[c] <= Len(log)
        /\ queue[c] = SubSeq(log, joined[c] + taken[c] + 1, Len(log))

\* A listening subscriber is handed every event, unless it leaves.
EventuallyDelivered ==
    \A c \in Consumers, n \in 1..MaxEvents :
        (stage[c] = "listening" /\ joined[c] < n /\ n <= Len(log))
            ~> (stage[c] = "left" \/ joined[c] + taken[c] >= n)

=============================================================================
