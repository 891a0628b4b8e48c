--------------------------- MODULE AtmosFeedProofs --------------------------
(***************************************************************************)
(* AtmosFeed implements the task of FeedTask, so its loops are one at a    *)
(* time, and it implements Mirror: its store takes words that the gateway  *)
(* has had, newer and newer ones.  For any tasks, registers and changes.   *)
(***************************************************************************)
EXTENDS AtmosFeed, FeedTaskProofs, SequenceTheorems, FiniteSetTheorems

-----------------------------------------------------------------------------
(* The task *)

\* A step of the feed is a step of its task or leaves it alone.
LEMMA TaskStep == [Next]_vars => [LifeNext]_life
<1> SUFFICES ASSUME [Next]_vars
             PROVE  [LifeNext]_life
    OBVIOUS
<1>1. CASE ManagingStep
    BY <1>1 DEF ManagingStep, LifeNext
<1>2. ASSUME NEW l \in Loops, LoopStep(l)
      PROVE  [LifeNext]_life
    BY <1>2 DEF LoopStep, LoopPolls, LoopSends, LoopAbsorbs, LoopRaises, LoopCancelled, LifeNext
<1>3. ASSUME NEW p \in Pollers, PollerStep(p)
      PROVE  [LifeNext]_life
    BY <1>3 DEF PollerStep
<1>4. ASSUME NEW o \in Others, OtherStep(o)
      PROVE  [LifeNext]_life
    BY <1>4 DEF OtherStep
<1>5. CASE Answer \/ LinkStep \/ Subscribing \/ \E x \in Ids : Change(x)
    BY <1>5 DEF Answer, LinkStep, Subscribing, Change
<1>6. CASE UNCHANGED vars
    BY <1>6 DEF vars, life
<1> QED
    BY <1>1, <1>2, <1>3, <1>4, <1>5, <1>6 DEF Next

\* The feed's start(), stop() and loop are those of FeedTask (feed.py:244).
LEMMA FeedHasTask == Spec => LifeSpec
<1>1. Init => LifeInit
    BY DEF Init
<1> QED
    BY <1>1, TaskStep, PTL DEF Spec, LifeSpec

\* A feed has at most one loop that was not told to stop, whatever its polls
\* wait for and however they end (feed.py:244).
THEOREM FeedHasOneLoop == Spec => []OneLoop
BY FeedHasTask, OneLoopAtATime, PTL

\* As long as a loop that was told to stop is in a poll, a caller of stop()
\* waits for it (feed.py:254).
THEOREM FeedStopWaits == Spec => []StopWaits
BY FeedHasTask, StopsAreAwaited, PTL

-----------------------------------------------------------------------------
(* The client *)

XP == INSTANCE ExchangeProofs WITH
        Tasks <- Readers \cup Others \cup {App},
        Connectors <- {App},
        MayCancel <- Loops \cup Impatient,
        Sockets <- {Link},
        Requests <- {Ids, Foreign},
        Silent <- {},
        Replies <- UNION {[r -> Versions \cup {NoValue}] : r \in {Ids, Foreign}}

\* A feed uses the client as the tasks of Exchange do.
LEMMA ClientAssumption == XP!ExchangeAssumption
BY AtmosFeedAssumption DEF XP!ExchangeAssumption, Readers

Users == Readers \cup Others \cup {App}

\* What one user of the client does in an exchange().
LEMMA UserStep ==
    ASSUME NEW t \in Users,
           \/ X!ExchangeCall(t, Ids) \/ X!ExchangeCall(t, Foreign)
           \/ X!Send(t) \/ X!SendFails(t) \/ X!Return(t) \/ X!ReceiveFails(t)
           \/ X!CancelQueued(t) /\ t \in Loops \cup Impatient
           \/ X!CancelWaiting(t) /\ t \in Loops \cup Impatient
    PROVE  XP!Next
<1>. SUFFICES XP!Exchanging(t)
  BY DEF XP!Next, Users
<1>1. ASSUME NEW r \in {Ids, Foreign}, X!ExchangeCall(t, r)
      PROVE  XP!Exchanging(t)
  <2>1. XP!ExchangeCall(t, r)
    BY <1>1 DEF X!ExchangeCall, XP!ExchangeCall, X!Ready, XP!Ready, X!Following, XP!Following
  <2>. QED
    BY <2>1 DEF XP!Exchanging
<1>2. CASE X!Send(t) \/ X!SendFails(t)
  <2>1. XP!Send(t) \/ XP!SendFails(t)
    BY <1>2 DEF X!Send, XP!Send, X!SendFails, XP!SendFails, X!Leave, XP!Leave,
        X!Owns, XP!Owns, X!MyId, XP!MyId
  <2>. QED
    BY <2>1 DEF XP!Exchanging
<1>3. CASE X!Return(t) \/ X!ReceiveFails(t)
  <2>1. XP!Return(t) \/ XP!ReceiveFails(t)
    BY <1>3 DEF X!Return, XP!Return, X!ReceiveFails, XP!ReceiveFails, X!Receives, XP!Receives,
        X!Leave, XP!Leave
  <2>. QED
    BY <2>1 DEF XP!Exchanging, XP!Receive
<1>4. CASE X!CancelQueued(t) \/ X!CancelWaiting(t)
  <2>1. XP!CancelQueued(t) \/ XP!CancelWaiting(t)
    BY <1>4 DEF X!CancelQueued, XP!CancelQueued, X!CancelWaiting, XP!CancelWaiting,
        X!Leave, XP!Leave, X!RemoveAt, XP!RemoveAt
  <2>. QED
    BY <2>1 DEF XP!Exchanging
<1>. QED
  BY <1>1, <1>2, <1>3, <1>4

\* What the feed and its surroundings do to the client is what the tasks, the
\* library and the gateway of Exchange do.
LEMMA ClientStep == XP!TypeOK /\ reg \in [Registers -> Versions] /\ [Next]_vars => [XP!Next]_(XP!vars)
<1>. SUFFICES ASSUME XP!TypeOK, reg \in [Registers -> Versions], [Next]_vars
              PROVE  [XP!Next]_(XP!vars)
  OBVIOUS
<1>1. ASSUME NEW p \in Pollers, PollerStep(p)
      PROVE  [XP!Next]_(XP!vars)
  BY <1>1, UserStep DEF PollerStep, BeginPoll, PollReturns, PollRaises, Users, Readers
<1>2. ASSUME NEW l \in Loops, LoopStep(l)
      PROVE  [XP!Next]_(XP!vars)
  <2>1. CASE UNCHANGED exchange
    BY <2>1 DEF exchange, XP!vars, XP!client
  <2>. QED
    BY <1>2, <2>1, UserStep DEF LoopStep, LoopPolls, LoopSends, LoopAbsorbs, LoopRaises,
        LoopCancelled, BeginPoll, PollReturns, PollRaises, Users, Readers
<1>3. ASSUME NEW o \in Others, OtherStep(o)
      PROVE  [XP!Next]_(XP!vars)
  BY <1>3, UserStep DEF OtherStep, Users, X!CancelQueued, X!CancelWaiting
<1>4. CASE Answer
  <2>1. PICK hidden \in SUBSET MayHide :
            X!Answer(Link, [x \in Head(wire[Link]).req |->
                                IF x \in hidden THEN NoValue ELSE reg[x]])
    BY <1>4 DEF Answer
  <2>. DEFINE b == [x \in Head(wire[Link]).req |-> IF x \in hidden THEN NoValue ELSE reg[x]]
  <2>2. Head(wire[Link]).req \in {Ids, Foreign}
    <3>1. wire[Link] \in Seq(XP!Messages) /\ wire[Link] # << >>
      BY <1>4 DEF Answer, XP!TypeOK
    <3>2. Head(wire[Link]) \in XP!Messages
      BY <3>1
    <3>. QED
      BY <3>2 DEF XP!Messages
  <2>3. b \in [Head(wire[Link]).req -> Versions \cup {NoValue}]
    BY <2>2 DEF Registers
  <2>4. XP!Answer(Link, b)
    BY <2>1 DEF X!Answer, XP!Answer, X!Alive, XP!Alive, X!client, XP!client
  <2>. QED
    BY <2>2, <2>3, <2>4 DEF XP!Next, XP!Environment, XP!Handle
<1>5. CASE LinkStep
  <2>1. XP!AClose(App) \/ XP!CloseDone(Link) \/ XP!Drop(Link)
    BY <1>5 DEF LinkStep, X!AClose, XP!AClose, X!CloseDone, XP!CloseDone, X!Drop, XP!Drop,
        X!Closed, XP!Closed, X!Ready, XP!Ready, X!client, XP!client
  <2>. QED
    BY <2>1 DEF XP!Next, XP!Connecting, XP!Environment
<1>6. CASE ManagingStep \/ Subscribing \/ (\E x \in Ids : Change(x)) \/ UNCHANGED vars
  BY <1>6 DEF ManagingStep, Subscribing, Change, vars, exchange, XP!vars, XP!client
<1>. QED
  BY <1>1, <1>2, <1>3, <1>4, <1>5, <1>6 DEF Next
-----------------------------------------------------------------------------
(* The store *)

\* The answer says the word of register x.
Says(answer, x) == x \in DOMAIN answer.reply /\ answer.reply[x] # NoValue

\* What the store has of x, what the answers on their way say of x, in their
\* order, and what the gateway has: each is no older than the one before.
Ordered(box, source, copy, x) ==
    /\ copy[x] <= source[x]
    /\ \A i \in 1..Len(box) : Says(box[i], x) =>
            copy[x] <= box[i].reply[x] /\ box[i].reply[x] <= source[x]
    /\ \A i, j \in 1..Len(box) : i < j /\ Says(box[i], x) /\ Says(box[j], x) =>
            box[i].reply[x] <= box[j].reply[x]

InOrder == \A x \in Registers : Ordered(inbox[Link], reg, store, x)

StoreInv ==
    /\ XP!Inv
    /\ reg \in [Registers -> Versions]
    /\ store \in [Registers -> Int]
    /\ InOrder

\* A new answer says what the gateway has now.
LEMMA OrderedAnswer ==
    ASSUME NEW S, NEW box \in Seq(S), NEW answer \in S, NEW x, NEW source, NEW copy,
           source[x] \in Int, copy[x] \in Int,
           \A i \in 1..Len(box) : Says(box[i], x) => box[i].reply[x] \in Int,
           Says(answer, x) => answer.reply[x] = source[x],
           Ordered(box, source, copy, x)
    PROVE  Ordered(Append(box, answer), source, copy, x)
<1>. DEFINE more == Append(box, answer)
<1>1. Len(more) = Len(box) + 1 /\ more[Len(box) + 1] = answer
  OBVIOUS
<1>2. \A i \in 1..Len(box) : more[i] = box[i]
  OBVIOUS
<1>3. \A i \in 1..Len(more) : i \in 1..Len(box) \/ i = Len(box) + 1
  BY <1>1
<1>. HIDE DEF more
<1>4. \A i \in 1..Len(more) : Says(more[i], x) =>
            copy[x] <= more[i].reply[x] /\ more[i].reply[x] <= source[x]
  BY <1>1, <1>2, <1>3 DEF Ordered
<1>5. ASSUME NEW i \in 1..Len(more), NEW j \in 1..Len(more), i < j,
             Says(more[i], x), Says(more[j], x)
      PROVE  more[i].reply[x] <= more[j].reply[x]
  <2>1. i \in 1..Len(box)
    BY <1>1, <1>5
  <2>. QED
    BY <2>1, <1>1, <1>2, <1>3, <1>5 DEF Ordered
<1>. QED
  BY <1>4, <1>5 DEF Ordered, more

\* The oldest answer is taken, and the copy is left or takes what it says.
LEMMA OrderedTake ==
    ASSUME NEW S, NEW box \in Seq(S), box # << >>, NEW x,
           NEW source, NEW copy, NEW next, source[x] \in Int, copy[x] \in Int,
           \A i \in 1..Len(box) : Says(box[i], x) => box[i].reply[x] \in Int,
           \/ next[x] = copy[x]
           \/ Says(Head(box), x) /\ next[x] = Head(box).reply[x],
           Ordered(box, source, copy, x)
    PROVE  Ordered(Tail(box), source, next, x)
<1>. DEFINE rest == Tail(box)
<1>1. Len(rest) = Len(box) - 1 /\ Head(box) = box[1] /\ 1 \in 1..Len(box)
  OBVIOUS
<1>2. \A i \in 1..Len(rest) : rest[i] = box[i + 1] /\ i + 1 \in 1..Len(box)
  OBVIOUS
<1>. HIDE DEF rest
<1>3. next[x] <= source[x]
  BY <1>1 DEF Ordered
<1>4. ASSUME NEW i \in 1..Len(rest), Says(rest[i], x)
      PROVE  next[x] <= rest[i].reply[x] /\ rest[i].reply[x] <= source[x]
  BY <1>1, <1>2, <1>4 DEF Ordered
<1>5. ASSUME NEW i \in 1..Len(rest), NEW j \in 1..Len(rest), i < j,
             Says(rest[i], x), Says(rest[j], x)
      PROVE  rest[i].reply[x] <= rest[j].reply[x]
  BY <1>2, <1>5 DEF Ordered
<1>. QED
  BY <1>3, <1>4, <1>5 DEF Ordered, rest

\* An answer says versions, and the box of the connection is a sequence of them.
LEMMA AnswersSayVersions ==
    ASSUME XP!TypeOK
    PROVE  /\ inbox[Link] \in Seq(XP!Answers)
           /\ \A i \in 1..Len(inbox[Link]), x \in Registers :
                Says(inbox[Link][i], x) => inbox[Link][i].reply[x] \in Versions
<1>1. inbox[Link] \in Seq(XP!Answers)
  BY DEF XP!TypeOK
<1>2. ASSUME NEW i \in 1..Len(inbox[Link]), NEW x \in Registers, Says(inbox[Link][i], x)
      PROVE  inbox[Link][i].reply[x] \in Versions
  <2>1. inbox[Link][i] \in XP!Answers
    BY <1>1
  <2>2. inbox[Link][i].reply \in UNION {[r -> Versions \cup {NoValue}] : r \in {Ids, Foreign}}
    BY <2>1 DEF XP!Answers
  <2>. QED
    BY <1>2, <2>2 DEF Says
<1>. QED
  BY <1>1, <1>2

\* A user of the client takes the oldest answer of the connection.
LEMMA TakesOldest ==
    ASSUME XP!Inv, NEW t \in Users, X!Return(t)
    PROVE  /\ inbox[Link] # << >>
           /\ X!Received(t) = Head(inbox[Link])
           /\ inbox'[Link] = Tail(inbox[Link])
<1>1. pc[t] = "waiting" /\ inbox[on[t]] # << >> /\ inbox' = [inbox EXCEPT ![on[t]] = Tail(@)]
  BY DEF X!Return, X!Receives
<1>2. on[t] = Link
  BY <1>1 DEF XP!Inv, XP!Pairing, XP!CallersHold, XP!InExchange, Users
<1>. QED
  BY <1>1, <1>2 DEF X!Received, XP!Inv, XP!TypeOK

\* A step that takes the oldest answer keeps the order, whether its word goes
\* to the store or to somebody else.
LEMMA TakeKeepsOrder ==
    ASSUME StoreInv, NEW t \in Users, X!Return(t), UNCHANGED reg,
           UNCHANGED store \/ Absorb(X!Received(t).reply)
    PROVE  /\ InOrder'
           /\ store' \in [Registers -> Int]
           /\ \A x \in Registers :
                store'[x] # store[x] => store[x] < store'[x] /\ store'[x] <= reg[x]
<1>. DEFINE box == inbox[Link]
<1>1. /\ box \in Seq(XP!Answers) /\ box # << >> /\ X!Received(t) = Head(box)
      /\ inbox'[Link] = Tail(box)
      /\ \A i \in 1..Len(box), x \in Registers :
            Says(box[i], x) => box[i].reply[x] \in Versions
  BY TakesOldest, AnswersSayVersions DEF StoreInv, XP!Inv
<1>2. 1 \in 1..Len(box) /\ Head(box) = box[1]
  BY <1>1
<1>. HIDE DEF box
<1>3. ASSUME NEW x \in Registers
      PROVE  \/ store'[x] = store[x]
             \/ Says(Head(box), x) /\ store'[x] = Head(box).reply[x] /\ store'[x] # store[x]
  BY <1>1 DEF Absorb, Changed, Says, StoreInv
<1>4. store' \in [Registers -> Int]
  <2>1. CASE UNCHANGED store
    BY <2>1 DEF StoreInv
  <2>2. CASE Absorb(X!Received(t).reply)
    <3>1. store' = [x \in Registers |-> store'[x]]
      BY <2>2 DEF Absorb
    <3>2. \A x \in Registers : store'[x] \in Int
      <4>1. Versions \subseteq Int
        BY AtmosFeedAssumption DEF Versions
      <4>2. \A x \in Registers : Says(Head(box), x) => Head(box).reply[x] \in Versions
        BY <1>1, <1>2
      <4>3. \A x \in Registers : store[x] \in Int
        BY DEF StoreInv
      <4>. QED
        BY <1>3, <4>1, <4>2, <4>3
    <3>. QED
      BY <3>1, <3>2
  <2>. QED
    BY <2>1, <2>2
<1>5. ASSUME NEW x \in Registers
      PROVE  /\ Ordered(box, reg, store, x)
             /\ reg[x] \in Int /\ store[x] \in Int
             /\ \A i \in 1..Len(box) : Says(box[i], x) => box[i].reply[x] \in Int
  BY <1>1, AtmosFeedAssumption DEF StoreInv, InOrder, Versions, box
<1>6. ASSUME NEW x \in Registers
      PROVE  Ordered(inbox[Link], reg, store, x)'
  <2>1. Ordered(Tail(box), reg, store', x)
    BY <1>1, <1>3, <1>5, OrderedTake
  <2>2. reg' = reg /\ inbox'[Link] = Tail(box)
    BY <1>1
  <2>. QED
    BY <2>1, <2>2 DEF Ordered
<1>7. ASSUME NEW x \in Registers, store'[x] # store[x]
      PROVE  store[x] < store'[x] /\ store'[x] <= reg[x]
  <2>1. Says(box[1], x) /\ store'[x] = box[1].reply[x]
    BY <1>2, <1>3, <1>7
  <2>2. store[x] <= box[1].reply[x] /\ box[1].reply[x] <= reg[x] /\ box[1].reply[x] \in Int
    BY <1>2, <1>5, <2>1 DEF Ordered
  <2>. QED
    BY <1>5, <1>7, <2>1, <2>2
<1>. QED
  BY <1>4, <1>6, <1>7 DEF InOrder

\* The answer of the gateway.
LEMMA AnswerKeepsOrder == StoreInv /\ Answer => InOrder'
<1>. SUFFICES ASSUME StoreInv, Answer, NEW x \in Registers
              PROVE  Ordered(inbox[Link], reg, store, x)'
  BY DEF InOrder
<1>1. PICK hidden \in SUBSET MayHide :
          X!Answer(Link, [y \in Head(wire[Link]).req |->
                              IF y \in hidden THEN NoValue ELSE reg[y]])
  BY DEF Answer
<1>. DEFINE said == [y \in Head(wire[Link]).req |-> IF y \in hidden THEN NoValue ELSE reg[y]]
            answer == [id |-> Head(wire[Link]).id, req |-> Head(wire[Link]).req, reply |-> said]
<1>2. inbox'[Link] = Append(inbox[Link], answer) /\ UNCHANGED <<reg, store>>
  BY <1>1 DEF Answer, X!Answer, StoreInv, XP!Inv, XP!TypeOK
<1>3. Says(answer, x) => answer.reply[x] = reg[x]
  BY DEF Says
<1>4. inbox[Link] \in Seq(XP!Answers \cup {answer})
  BY AnswersSayVersions DEF StoreInv, XP!Inv
<1>5. /\ Ordered(inbox[Link], reg, store, x)
      /\ reg[x] \in Int /\ store[x] \in Int
      /\ \A i \in 1..Len(inbox[Link]) :
            Says(inbox[Link][i], x) => inbox[Link][i].reply[x] \in Int
  BY AnswersSayVersions, AtmosFeedAssumption DEF StoreInv, InOrder, Versions, XP!Inv
<1>. HIDE DEF said, answer
<1>6. Ordered(Append(inbox[Link], answer), reg, store, x)
  BY <1>3, <1>4, <1>5, OrderedAnswer
<1>. QED
  BY <1>2, <1>6 DEF Ordered

\* What neither brings nor takes an answer, nor changes a register.
LEMMA QuietStep ==
    ASSUME StoreInv, UNCHANGED <<inbox, reg, store>>
    PROVE  InOrder' /\ store' \in [Registers -> Int] /\ reg' \in [Registers -> Versions]
BY DEF StoreInv, InOrder, Ordered

\* A register gets newer.
LEMMA ChangeKeepsOrder ==
    ASSUME StoreInv, NEW x \in Ids, Change(x)
    PROVE  /\ InOrder' /\ store' \in [Registers -> Int] /\ reg' \in [Registers -> Versions]
           /\ Gateway!Change(x)
<1>1. /\ reg' = [reg EXCEPT ![x] = @ + 1] /\ reg[x] < MaxVersion
      /\ UNCHANGED <<inbox, store>>
  BY DEF Change, exchange
<1>2. reg' \in [Registers -> Versions]
  BY <1>1, AtmosFeedAssumption DEF StoreInv, Versions, Registers
<1>3. \A y \in Registers : reg[y] <= reg'[y] /\ reg[y] \in Int /\ reg'[y] \in Int /\ store[y] \in Int
  BY <1>1, <1>2, AtmosFeedAssumption DEF StoreInv, Versions
<1>4. \A i \in 1..Len(inbox[Link]), y \in Registers :
            Says(inbox[Link][i], y) => inbox[Link][i].reply[y] \in Int
  BY AnswersSayVersions, AtmosFeedAssumption DEF StoreInv, XP!Inv, Versions
<1>5. ASSUME NEW y \in Registers
      PROVE  Ordered(inbox[Link], reg, store, y)'
  <2>1. Ordered(inbox[Link], reg, store, y)
    BY <1>5 DEF StoreInv, InOrder
  <2>2. /\ reg[y] <= reg'[y] /\ reg[y] \in Int /\ reg'[y] \in Int /\ store[y] \in Int
        /\ store'[y] = store[y] /\ inbox'[Link] = inbox[Link]
    BY <1>1, <1>3, <1>5
  <2>3. store[y] <= reg'[y]
    BY <2>1, <2>2 DEF Ordered
  <2>4. ASSUME NEW i \in 1..Len(inbox[Link]), Says(inbox[Link][i], y)
        PROVE  inbox[Link][i].reply[y] <= reg'[y]
    <3>1. inbox[Link][i].reply[y] <= reg[y]
      BY <2>1, <2>4 DEF Ordered
    <3>2. inbox[Link][i].reply[y] \in Int
      BY <1>4, <1>5, <2>4
    <3>. QED
      BY <2>2, <3>1, <3>2
  <2>. QED
    BY <2>1, <2>2, <2>3, <2>4 DEF Ordered
<1>. QED
  BY <1>1, <1>2, <1>5 DEF InOrder, Gateway!Change, StoreInv

\* Every step of the feed refreshes the store, changes a register or does
\* neither.
LEMMA StoreStep == StoreInv /\ [Next]_vars => StoreInv' /\ [Gateway!Next]_(Gateway!vars)
<1>. SUFFICES ASSUME StoreInv, [Next]_vars
              PROVE  StoreInv' /\ [Gateway!Next]_(Gateway!vars)
  OBVIOUS
<1>. DEFINE Kept == InOrder' /\ store' \in [Registers -> Int] /\ reg' \in [Registers -> Versions]
            Mirrored == [Gateway!Next]_(Gateway!vars)
<1>1. XP!Inv'
  <2>1. [XP!Next]_(XP!vars)
    BY ClientStep DEF StoreInv, XP!Inv
  <2>. QED
    BY <2>1, ClientAssumption, XP!PairingStep DEF StoreInv
<1>. SUFFICES Kept /\ Mirrored
  BY <1>1 DEF StoreInv
<1>2. ASSUME UNCHANGED <<inbox, reg, store>>
      PROVE  Kept /\ Mirrored
  BY <1>2, QuietStep DEF Gateway!vars
<1>3. ASSUME NEW t \in Users, X!Return(t), UNCHANGED reg,
             UNCHANGED store \/ Absorb(X!Received(t).reply)
      PROVE  Kept /\ Mirrored
  <2>1. Gateway!Refresh
    BY <1>3, TakeKeepsOrder DEF Gateway!Refresh
  <2>. QED
    BY <1>3, <2>1, TakeKeepsOrder DEF Gateway!Next, StoreInv
<1>4. ASSUME NEW p \in Pollers, PollerStep(p)
      PROVE  Kept /\ Mirrored
  <2>1. CASE PollReturns(p)
    BY <1>3, <1>4, <2>1 DEF PollerStep, PollReturns, Users, Readers
  <2>2. CASE ~PollReturns(p)
    BY <1>2, <1>4, <2>2 DEF PollerStep, BeginPoll, PollRaises, X!ExchangeCall, X!Send,
        X!SendFails, X!ReceiveFails
  <2>. QED
    BY <2>1, <2>2
<1>5. ASSUME NEW l \in Loops, LoopStep(l)
      PROVE  Kept /\ Mirrored
  <2>1. CASE LoopAbsorbs(l)
    BY <1>3, <2>1 DEF LoopAbsorbs, PollReturns, Users, Readers
  <2>2. CASE LoopPolls(l) \/ LoopSends(l)
    BY <1>2, <2>2 DEF LoopPolls, LoopSends, BeginPoll, X!ExchangeCall, X!Send, exchange
  <2>3. CASE LoopRaises(l) \/ LoopCancelled(l)
    BY <1>2, <2>3 DEF LoopRaises, LoopCancelled, PollRaises, X!SendFails, X!ReceiveFails,
        X!CancelQueued, X!CancelWaiting, exchange
  <2>. QED
    BY <1>5, <2>1, <2>2, <2>3 DEF LoopStep
<1>6. ASSUME NEW o \in Others, OtherStep(o)
      PROVE  Kept /\ Mirrored
  <2>1. CASE X!Return(o)
    BY <1>3, <1>6, <2>1 DEF OtherStep, Users
  <2>2. CASE ~X!Return(o)
    BY <1>2, <1>6, <2>2 DEF OtherStep, X!ExchangeCall, X!Send, X!SendFails, X!ReceiveFails,
        X!CancelQueued, X!CancelWaiting
  <2>. QED
    BY <2>1, <2>2
<1>7. CASE Answer
  BY <1>7, AnswerKeepsOrder DEF Answer, StoreInv, Gateway!vars
<1>8. ASSUME NEW x \in Ids, Change(x)
      PROVE  Kept /\ Mirrored
  BY <1>8, ChangeKeepsOrder DEF Gateway!Next, Registers
<1>9. CASE LinkStep \/ ManagingStep \/ Subscribing \/ UNCHANGED vars
  BY <1>2, <1>9 DEF LinkStep, ManagingStep, Subscribing, vars, exchange, X!AClose,
      X!CloseDone, X!Drop, X!Closed
<1>. QED
  BY <1>4, <1>5, <1>6, <1>7, <1>8, <1>9 DEF Next

\* In the beginning the client is connected, no answer is on its way and the
\* store is empty.
LEMMA StoreInit == Init => StoreInv /\ Gateway!Init
<1>. SUFFICES ASSUME Init PROVE StoreInv /\ Gateway!Init
  OBVIOUS
<1>1. XP!TypeOK
  BY AtmosFeedAssumption DEF Init, X!Connected, X!Quiet, XP!TypeOK, Readers
<1>2. XP!Pairing
  BY DEF Init, X!Connected, X!Quiet, XP!Pairing, XP!CallersHold, XP!InExchange, XP!Paired,
      XP!Leftover, XP!Exclusive
<1>3. /\ reg \in [Registers -> Versions] /\ store \in [Registers -> Int]
      /\ \A x \in Registers : reg[x] = 0 /\ store[x] = -1
  BY AtmosFeedAssumption DEF Init, Versions, NoValue
<1>4. InOrder
  <2>1. inbox[Link] = << >>
    BY DEF Init, X!Connected, X!Quiet
  <2>. QED
    BY <1>3, <2>1 DEF InOrder, Ordered
<1>. QED
  BY <1>1, <1>2, <1>3, <1>4 DEF StoreInv, XP!Inv, Gateway!Init, Init, NoValue

\* Whoever polls, however late an answer comes and whoever takes it: the store
\* is a mirror of the gateway, and no word in it is ever replaced by an older
\* one or by itself (feed.py:188).
THEOREM StoreMirrorsGateway == Spec => MirrorsGateway
BY StoreInit, StoreStep, PTL DEF Spec, MirrorsGateway, Gateway!Spec

-----------------------------------------------------------------------------
(* What a poll gets *)

\* The request of p, if it is unanswered, and the answer that waits for p, if
\* there is one, are about the registers of the feed, and the answer was given
\* after the poll had begun.
OwnAnswer(p) ==
    /\ wire[Link] # << >> => Head(wire[Link]).req = Ids
    /\ inbox[Link] # << >> =>
            /\ DOMAIN Head(inbox[Link]).reply = Ids
            /\ \A x \in Ids : Says(Head(inbox[Link]), x) =>
                    asked[p][x] <= Head(inbox[Link]).reply[x]

Polling ==
    /\ asked \in [Readers -> [Ids -> Versions]]
    /\ \A p \in Readers, x \in Ids : asked[p][x] <= reg[x]
    /\ \A p \in Readers : XP!InExchange(p) => req[p] = Ids

PollInv ==
    /\ StoreInv
    /\ Polling
    /\ abandoned = {} => \A p \in Readers : pc[p] = "waiting" => OwnAnswer(p)
    /\ OnlyConfiguredUnlessAbandoned

\* A poll that begins knows the registers as they are; no step takes a register
\* back, and only a poll or a call of another task changes what is asked for.
LEMMA PollingStep == StoreInv /\ Polling /\ [Next]_vars => Polling'
<1>. SUFFICES ASSUME StoreInv, Polling, [Next]_vars PROVE Polling'
  OBVIOUS
<1>. USE DEF XP!InExchange
<1>0. /\ reg \in [Registers -> Versions] /\ Ids \subseteq Registers
      /\ Versions \subseteq Nat /\ 0 \in Versions
      /\ \A x \in Ids : reg[x] \in Nat /\ reg[x] \in Versions /\ reg[x] <= reg[x] /\ 0 <= reg[x]
      /\ pc \in [Users -> {"idle", "connecting", "connected", "queued", "waiting"}]
      /\ req \in [Users -> {Ids, Foreign} \cup {None}]
      /\ Readers \subseteq Users /\ \A o \in Others : o \notin Readers
  BY AtmosFeedAssumption DEF StoreInv, XP!Inv, XP!TypeOK, Users, Registers, Versions, Readers
\* The call of a reader, and the end of one.
<1>1. ASSUME NEW p \in Readers, BeginPoll(p), UNCHANGED reg
      PROVE  Polling'
  <2>1. /\ asked' = [asked EXCEPT ![p] = [x \in Ids |-> reg[x]]]
        /\ pc' = [pc EXCEPT ![p] = "queued"] /\ req' = [req EXCEPT ![p] = Ids]
    BY <1>1 DEF BeginPoll, X!ExchangeCall
  <2>2. [x \in Ids |-> reg[x]] \in [Ids -> Versions]
    BY <1>0
  <2>3. asked' \in [Readers -> [Ids -> Versions]]
    BY <2>1, <2>2 DEF Polling
  <2>4. \A q \in Readers, x \in Ids : asked'[q][x] <= reg[x]
    BY <1>0, <2>1 DEF Polling
  <2>5. \A q \in Readers : pc'[q] \in {"queued", "waiting"} => req'[q] = Ids
    BY <1>0, <2>1 DEF Polling
  <2>. QED
    BY <1>1, <2>3, <2>4, <2>5 DEF Polling
<1>2. ASSUME NEW t \in Users, X!Leave(t) \/ X!CancelQueued(t), UNCHANGED reg,
             asked' = asked \/ (t \in Readers /\ asked' = [asked EXCEPT ![t] = Zero])
      PROVE  Polling'
  <2>1. pc' = [pc EXCEPT ![t] = "idle"] /\ req' = [req EXCEPT ![t] = None]
    BY <1>2 DEF X!Leave, X!CancelQueued
  <2>2. asked' \in [Readers -> [Ids -> Versions]]
    BY <1>0, <1>2 DEF Polling, Zero
  <2>3. \A p \in Readers, x \in Ids : asked'[p][x] <= reg[x]
    BY <1>0, <1>2 DEF Polling, Zero
  <2>. QED
    BY <1>0, <1>2, <2>1, <2>2, <2>3 DEF Polling
<1>3. ASSUME NEW t \in Users, X!Send(t), UNCHANGED <<reg, asked>>
      PROVE  Polling'
  BY <1>0, <1>3 DEF X!Send, Polling
<1>4. ASSUME NEW o \in Others, X!ExchangeCall(o, Foreign), UNCHANGED <<reg, asked>>
      PROVE  Polling'
  BY <1>0, <1>4 DEF X!ExchangeCall, Polling
<1>5. ASSUME UNCHANGED <<pc, req, reg, asked>>
      PROVE  Polling'
  BY <1>5 DEF Polling
<1>6. ASSUME NEW p \in Pollers, PollerStep(p)
      PROVE  Polling'
  <2>1. p \in Readers /\ p \in Users /\ UNCHANGED reg
    BY <1>6 DEF PollerStep, Readers, Users
  <2>. QED
    BY <1>1, <1>2, <1>3, <1>6, <2>1 DEF PollerStep, PollReturns, PollRaises, X!Return,
        X!SendFails, X!ReceiveFails
<1>7. ASSUME NEW l \in Loops, LoopStep(l)
      PROVE  Polling'
  <2>1. l \in Readers /\ l \in Users
    BY DEF Readers, Users
  <2>2. CASE LoopPolls(l)
    BY <1>1, <1>5, <2>1, <2>2 DEF LoopPolls, exchange
  <2>3. CASE LoopSends(l)
    BY <1>3, <2>1, <2>3 DEF LoopSends
  <2>4. CASE LoopAbsorbs(l) \/ LoopRaises(l)
    BY <1>2, <2>1, <2>4 DEF LoopAbsorbs, LoopRaises, PollReturns, PollRaises, X!Return,
        X!SendFails, X!ReceiveFails
  <2>5. CASE LoopCancelled(l)
    <3>1. CASE UNCHANGED exchange
      <4>1. asked' = [asked EXCEPT ![l] = Zero] /\ UNCHANGED <<pc, req, reg>>
        BY <2>5, <3>1 DEF LoopCancelled, exchange
      <4>2. asked' \in [Readers -> [Ids -> Versions]]
        BY <1>0, <4>1 DEF Polling, Zero
      <4>3. \A p \in Readers, x \in Ids : asked'[p][x] <= reg[x]
        BY <1>0, <4>1 DEF Polling, Zero
      <4>. QED
        BY <4>1, <4>2, <4>3 DEF Polling
    <3>. QED
      BY <1>2, <2>1, <2>5, <3>1 DEF LoopCancelled, X!CancelWaiting
  <2>. QED
    BY <1>7, <2>2, <2>3, <2>4, <2>5 DEF LoopStep
<1>8. ASSUME NEW o \in Others, OtherStep(o)
      PROVE  Polling'
  <2>1. o \in Users
    BY DEF Users
  <2>. QED
    BY <1>2, <1>3, <1>4, <1>8, <2>1 DEF OtherStep, X!Return, X!SendFails, X!ReceiveFails,
        X!CancelWaiting
<1>9. CASE LinkStep
  <2>1. UNCHANGED <<req, reg, asked>> /\ (pc' = pc \/ pc' = [pc EXCEPT ![App] = "idle"])
    BY <1>9 DEF LinkStep, X!AClose, X!CloseDone, X!Drop, X!Closed, X!client
  <2>. QED
    BY <1>0, <2>1 DEF Polling, Users
<1>10. CASE Answer \/ ManagingStep \/ Subscribing \/ UNCHANGED vars
  BY <1>5, <1>10 DEF Answer, X!Answer, X!client, ManagingStep, Subscribing, vars, exchange
<1>11. ASSUME NEW x \in Ids, Change(x)
       PROVE  Polling'
  <2>1. UNCHANGED <<pc, req, asked>> /\ reg' = [reg EXCEPT ![x] = @ + 1]
    BY <1>11 DEF Change, exchange
  <2>2. \A y \in Ids : reg'[y] \in Nat /\ reg[y] <= reg'[y]
    <3>1. DOMAIN reg = Registers /\ x \in Registers
      BY <1>0
    <3>2. TAKE y \in Ids
    <3>3. reg'[y] = IF y = x THEN reg[y] + 1 ELSE reg[y]
      BY <1>0, <2>1, <3>1
    <3>. QED
      BY <1>0, <3>3
  <2>3. \A p \in Readers, y \in Ids : asked[p][y] \in Nat /\ reg[y] \in Nat
    BY <1>0 DEF Polling
  <2>. QED
    BY <2>1, <2>2, <2>3 DEF Polling
<1>. QED
  BY <1>6, <1>7, <1>8, <1>9, <1>10, <1>11 DEF Next

\* No other task waits while one holds the lock, and then nothing that is not
\* its own is in flight.
LEMMA NobodyElseWaits ==
    ASSUME XP!Inv, NEW t \in Users, NEW p \in Readers, X!Owns(t) \/ pc[t] = "waiting",
           pc[p] = "waiting"
    PROVE  p = t
BY DEF XP!Inv, XP!Pairing, XP!CallersHold, XP!Owns, X!Owns, Users

LEMMA NothingInFlight ==
    ASSUME XP!Inv, abandoned = {}, conn[Link] # "closed",
           \A t \in Users : pc[t] # "waiting"
    PROVE  wire[Link] = << >> /\ inbox[Link] = << >>
BY DEF XP!Inv, XP!Pairing, XP!Paired, XP!Exclusive, Users

LEMMA OneInFlight ==
    ASSUME XP!Inv, abandoned = {}, conn[Link] # "closed", wire[Link] # << >>
    PROVE  Len(wire[Link]) = 1 /\ inbox[Link] = << >>
BY DEF XP!Inv, XP!Pairing, XP!Paired, XP!Exclusive, Users

LEMMA OwnAnswerKept ==
    ASSUME NEW p \in Readers, OwnAnswer(p), UNCHANGED <<inbox, asked[p]>>,
           wire'[Link] \in {wire[Link], << >>}
    PROVE  OwnAnswer(p)'
BY DEF OwnAnswer, Says

\* Every answer is given after the beginning.
LEMMA OwnAnswerReset ==
    ASSUME XP!TypeOK, NEW p \in Readers, OwnAnswer(p), asked'[p] = Zero,
           UNCHANGED <<inbox, wire>>
    PROVE  OwnAnswer(p)'
<1>1. ASSUME NEW x \in Ids, inbox[Link] # << >>, Says(Head(inbox[Link]), x)
      PROVE  Zero[x] <= Head(inbox[Link]).reply[x]
  <2>1. Head(inbox[Link]) = inbox[Link][1] /\ 1 \in 1..Len(inbox[Link])
    BY <1>1, AnswersSayVersions
  <2>2. Head(inbox[Link]).reply[x] \in Versions
    BY <1>1, <2>1, AnswersSayVersions DEF Registers
  <2>. QED
    BY <2>2, AtmosFeedAssumption DEF Versions, Zero
<1>. QED
  BY <1>1 DEF OwnAnswer, Says

\* The gateway puts an answer behind those that wait.
LEMMA AnswerGrows ==
    ASSUME XP!Inv, Answer
    PROVE  Len(inbox'[Link]) = Len(inbox[Link]) + 1
<1>1. PICK b : inbox' = [inbox EXCEPT ![Link] = Append(@, b)]
  BY DEF Answer, X!Answer
<1>. QED
  BY <1>1, AnswersSayVersions DEF XP!Inv, XP!TypeOK

\* The answer that a poll waits for is its own, and what it stores of it are
\* registers of the feed.
LEMMA AnswerStep ==
    ASSUME PollInv, [Next]_vars, abandoned' = {}
    PROVE  /\ \A p \in Readers : pc'[p] = "waiting" => OwnAnswer(p)'
           /\ OnlyConfigured'
<1>. DEFINE Own == \A p \in Readers : pc'[p] = "waiting" => OwnAnswer(p)'
<1>0. /\ XP!Inv /\ abandoned = {} /\ OnlyConfigured
      /\ \A p \in Readers : pc[p] = "waiting" => OwnAnswer(p)
      /\ pc \in [Users -> {"idle", "connecting", "connected", "queued", "waiting"}]
      /\ asked \in [Readers -> [Ids -> Versions]]
      /\ Readers \subseteq Users /\ (\A o \in Others : o \notin Readers) /\ App \in Users
      /\ \A x \in Registers \ Ids : x \notin Ids
  <2>1. abandoned = {}
    BY DEF Next, ManagingStep, LoopStep, LoopPolls, LoopSends, LoopAbsorbs, LoopRaises,
        LoopCancelled, PollerStep, BeginPoll, PollReturns, PollRaises, OtherStep, Answer,
        LinkStep, Change, Subscribing, vars, exchange, X!ExchangeCall, X!Send, X!SendFails,
        X!Return, X!Receives, X!ReceiveFails, X!CancelQueued, X!CancelWaiting, X!AClose,
        X!CloseDone, X!Drop, X!Closed, X!Answer
  <2>. QED
    BY <2>1, AtmosFeedAssumption DEF PollInv, StoreInv, Polling, XP!Inv, XP!TypeOK, Users,
        Readers, OnlyConfiguredUnlessAbandoned
<1>1. ASSUME UNCHANGED store
      PROVE  OnlyConfigured'
  BY <1>0, <1>1 DEF OnlyConfigured
\* Only an owner of the lock leaves with an answer or an error: no other waits.
<1>2. ASSUME NEW t \in Users, X!Owns(t) \/ pc[t] = "waiting", pc' = [pc EXCEPT ![t] = "idle"]
      PROVE  Own
  BY <1>0, <1>2, NobodyElseWaits
<1>3. ASSUME NEW t \in Users, X!Return(t),
             UNCHANGED store \/ (t \in Readers /\ Absorb(X!Received(t).reply))
      PROVE  Own /\ OnlyConfigured'
  <2>1. pc[t] = "waiting" /\ pc' = [pc EXCEPT ![t] = "idle"]
    BY <1>3 DEF X!Return, X!Receives, X!Leave
  <2>2. CASE Absorb(X!Received(t).reply) /\ t \in Readers
    <3>1. DOMAIN X!Received(t).reply = Ids
      BY <1>0, <1>3, <2>1, <2>2, TakesOldest DEF OwnAnswer
    <3>2. \A x \in Registers \ Ids : store'[x] = store[x]
      BY <2>2, <3>1 DEF Absorb, Changed
    <3>. QED
      BY <1>0, <1>2, <2>1, <3>2 DEF OnlyConfigured
  <2>. QED
    BY <1>1, <1>2, <1>3, <2>1, <2>2
<1>4. ASSUME NEW t \in Users, X!SendFails(t) \/ X!ReceiveFails(t), UNCHANGED store
      PROVE  Own /\ OnlyConfigured'
  BY <1>1, <1>2, <1>4 DEF X!SendFails, X!ReceiveFails, X!Leave
<1>5. ASSUME NEW t \in Users, X!Send(t), UNCHANGED <<store, asked>>, t \in Readers => req[t] = Ids
      PROVE  Own /\ OnlyConfigured'
  <2>1. /\ pc[t] = "queued" /\ X!Owns(t) /\ conn[on[t]] = "open" /\ UNCHANGED inbox
        /\ pc' = [pc EXCEPT ![t] = "waiting"]
        /\ wire' = [wire EXCEPT ![on[t]] = Append(@, [id |-> X!MyId(t), req |-> req[t]])]
    BY <1>5 DEF X!Send
  <2>2. on[t] = Link
    BY <1>0, <2>1 DEF XP!Inv, XP!Pairing, XP!CallersHold, XP!InExchange, Users
  <2>3. \A u \in Users : pc[u] # "waiting"
    BY <1>0, <2>1 DEF XP!Inv, XP!Pairing, XP!CallersHold, XP!Owns, X!Owns, Users
  <2>4. wire[Link] = << >> /\ inbox[Link] = << >>
    BY <1>0, <2>1, <2>2, <2>3, NothingInFlight
  <2>5. wire'[Link] = << [id |-> X!MyId(t), req |-> req[t]] >> /\ inbox'[Link] = << >>
    BY <1>0, <2>1, <2>2, <2>4 DEF XP!Inv, XP!TypeOK
  <2>6. Head(wire'[Link]).req = req[t]
    BY <2>5
  <2>. QED
    BY <1>0, <1>1, <1>5, <2>1, <2>3, <2>5, <2>6 DEF OwnAnswer
<1>6. ASSUME NEW t \in Users, pc' = [pc EXCEPT ![t] = "idle"] \/ pc' = [pc EXCEPT ![t] = "queued"],
             UNCHANGED <<wire, inbox, store>>, \A p \in Readers : p # t => asked'[p] = asked[p]
      PROVE  Own /\ OnlyConfigured'
  BY <1>0, <1>1, <1>6, OwnAnswerKept
<1>7. ASSUME UNCHANGED <<pc, inbox, store>>, wire'[Link] \in {wire[Link], << >>},
             \A p \in Readers : pc[p] = "waiting" => asked'[p] = asked[p]
      PROVE  Own /\ OnlyConfigured'
  BY <1>0, <1>1, <1>7, OwnAnswerKept
<1>8. ASSUME NEW p \in Pollers, PollerStep(p)
      PROVE  Own /\ OnlyConfigured'
  <2>1. p \in Readers /\ p \in Users
    BY DEF Readers, Users
  <2>2. CASE PollReturns(p)
    BY <1>3, <2>1, <2>2 DEF PollReturns
  <2>3. CASE BeginPoll(p) /\ UNCHANGED <<bus, store>>
    BY <1>6, <1>0, <2>1, <2>3 DEF BeginPoll, X!ExchangeCall
  <2>4. CASE X!Send(p) /\ UNCHANGED <<bus, store, asked>>
    BY <1>5, <2>1, <2>4 DEF PollInv, Polling, XP!InExchange, X!Send
  <2>5. CASE PollRaises(p)
    BY <1>4, <2>1, <2>5 DEF PollRaises
  <2>. QED
    BY <1>8, <2>2, <2>3, <2>4, <2>5 DEF PollerStep
<1>9. ASSUME NEW l \in Loops, LoopStep(l)
      PROVE  Own /\ OnlyConfigured'
  <2>1. l \in Readers /\ l \in Users
    BY DEF Readers, Users
  <2>2. CASE LoopPolls(l)
    <3>1. CASE BeginPoll(l)
      BY <1>6, <1>0, <2>1, <2>2, <3>1 DEF LoopPolls, BeginPoll, X!ExchangeCall
    <3>2. CASE ~BeginPoll(l)
      BY <1>7, <2>2, <3>2 DEF LoopPolls, exchange
    <3>. QED
      BY <3>1, <3>2
  <2>3. CASE LoopSends(l)
    BY <1>5, <2>1, <2>3 DEF LoopSends, PollInv, Polling, XP!InExchange, X!Send
  <2>4. CASE LoopAbsorbs(l)
    BY <1>3, <2>1, <2>4 DEF LoopAbsorbs, PollReturns
  <2>5. CASE LoopRaises(l)
    BY <1>4, <2>1, <2>5 DEF LoopRaises, PollRaises
  <2>6. CASE LoopCancelled(l)
    <3>1. /\ asked' = [asked EXCEPT ![l] = Zero] /\ UNCHANGED store
          /\ \/ UNCHANGED exchange /\ phase[l] # "polling"
             \/ X!CancelQueued(l)
             \/ X!CancelWaiting(l)
      BY <2>6 DEF LoopCancelled
    <3>2. \A p \in Readers : p # l => asked'[p] = asked[p]
      BY <1>0, <3>1
    <3>3. CASE X!CancelQueued(l)
      BY <1>6, <2>1, <3>1, <3>2, <3>3 DEF X!CancelQueued
    <3>4. ~X!CancelWaiting(l)
      BY DEF X!CancelWaiting
    <3>5. CASE UNCHANGED exchange /\ phase[l] # "polling"
      <4>1. UNCHANGED <<pc, inbox, wire>> /\ XP!TypeOK /\ asked'[l] = Zero
        BY <1>0, <2>1, <3>1, <3>5 DEF exchange, XP!Inv
      <4>2. \A p \in Readers : OwnAnswer(p) => OwnAnswer(p)'
        BY <3>2, <4>1, OwnAnswerKept, OwnAnswerReset
      <4>. QED
        BY <1>0, <1>1, <3>1, <4>1, <4>2
    <3>. QED
      BY <3>1, <3>3, <3>4, <3>5
  <2>. QED
    BY <1>9, <2>2, <2>3, <2>4, <2>5, <2>6 DEF LoopStep
<1>10. ASSUME NEW o \in Others, OtherStep(o)
       PROVE  Own /\ OnlyConfigured'
  <2>1. o \in Users /\ o \notin Readers /\ UNCHANGED <<store, asked>>
    BY <1>0, <1>10 DEF OtherStep, Users
  <2>2. ~X!CancelWaiting(o)
    BY DEF X!CancelWaiting
  <2>3. CASE X!ExchangeCall(o, Foreign) \/ X!CancelQueued(o)
    BY <1>6, <2>1, <2>3 DEF X!ExchangeCall, X!CancelQueued
  <2>4. CASE X!Send(o)
    BY <1>5, <2>1, <2>4
  <2>5. CASE X!Return(o)
    BY <1>3, <2>1, <2>5
  <2>6. CASE X!SendFails(o) \/ X!ReceiveFails(o)
    BY <1>4, <2>1, <2>6
  <2>. QED
    BY <1>10, <2>2, <2>3, <2>4, <2>5, <2>6 DEF OtherStep
<1>11. CASE Answer
  <2>1. PICK hidden \in SUBSET MayHide :
            X!Answer(Link, [y \in Head(wire[Link]).req |->
                                IF y \in hidden THEN NoValue ELSE reg[y]])
    BY <1>11 DEF Answer
  <2>. DEFINE said == [y \in Head(wire[Link]).req |-> IF y \in hidden THEN NoValue ELSE reg[y]]
              answer == [id |-> Head(wire[Link]).id, req |-> Head(wire[Link]).req, reply |-> said]
  <2>2. /\ conn[Link] # "closed" /\ wire[Link] # << >>
        /\ inbox' = [inbox EXCEPT ![Link] = Append(@, answer)]
        /\ wire' = [wire EXCEPT ![Link] = Tail(@)]
        /\ UNCHANGED <<pc, reg, asked, store>>
    BY <1>11, <2>1 DEF Answer, X!Answer, X!Alive, X!client
  <2>3. Len(wire[Link]) = 1 /\ inbox[Link] = << >>
    BY <1>0, <2>2, OneInFlight
  <2>4. /\ wire[Link] \in Seq(XP!Messages)
        /\ DOMAIN wire = {Link} /\ DOMAIN inbox = {Link}
    BY <1>0 DEF XP!Inv, XP!TypeOK
  <2>5. wire'[Link] = << >> /\ inbox'[Link] = << answer >>
    BY <2>2, <2>3, <2>4, XP!TailOfOne
  <2>. HIDE DEF answer
  <2>6. Head(inbox'[Link]) = answer
    BY <2>5
  <2>7. ASSUME NEW p \in Readers, pc'[p] = "waiting"
        PROVE  OwnAnswer(p)'
    <3>1. Head(wire[Link]).req = Ids
      BY <1>0, <2>2, <2>7 DEF OwnAnswer
    <3>2. DOMAIN answer.reply = Ids
      BY <3>1 DEF answer
    <3>3. ASSUME NEW x \in Ids, Says(answer, x)
          PROVE  asked[p][x] <= answer.reply[x]
      BY <3>1, <3>3 DEF answer, Says, PollInv, Polling
    <3>. QED
      BY <2>2, <2>5, <2>6, <3>2, <3>3 DEF OwnAnswer, Says
  <2>. QED
    BY <1>1, <2>2, <2>7
<1>12. CASE LinkStep
  <2>1. CASE X!AClose(App)
    BY <1>6, <1>0, <1>12, <2>1 DEF LinkStep, X!AClose
  <2>2. CASE X!CloseDone(Link) \/ X!Drop(Link)
    <3>1. UNCHANGED <<pc, inbox, store, asked>> /\ wire' = [wire EXCEPT ![Link] = << >>]
      BY <1>12, <2>2 DEF LinkStep, X!CloseDone, X!Drop, X!Closed, X!client
    <3>2. wire'[Link] = << >>
      BY <1>0, <3>1 DEF XP!Inv, XP!TypeOK
    <3>. QED
      BY <1>7, <3>1, <3>2
  <2>. QED
    BY <1>12, <2>1, <2>2 DEF LinkStep
<1>13. CASE ManagingStep \/ Subscribing \/ (\E x \in Ids : Change(x)) \/ UNCHANGED vars
  BY <1>7, <1>13 DEF ManagingStep, Subscribing, Change, vars, exchange
<1>. QED
  BY <1>8, <1>9, <1>10, <1>11, <1>12, <1>13 DEF Next

LEMMA PollStep == PollInv /\ [Next]_vars => PollInv'
BY StoreStep, PollingStep, AnswerStep DEF PollInv, OnlyConfiguredUnlessAbandoned

LEMMA PollInit == Init => PollInv
<1>1. Init => Polling
  BY AtmosFeedAssumption DEF Init, X!Connected, X!Quiet, Polling, XP!InExchange, Versions,
      Registers, Readers, Zero
<1>2. Init => \A p \in Readers : pc[p] # "waiting"
  BY DEF Init, X!Connected, X!Quiet, Readers
<1>3. Init => OnlyConfigured
  BY DEF Init, OnlyConfigured
<1>. QED
  BY <1>1, <1>2, <1>3, StoreInit DEF PollInv, OnlyConfiguredUnlessAbandoned

\* No word of a register that the feed was not made for gets into its store,
\* unless a caller left its request behind on the connection (feed.py:185).
THEOREM OnlyConfiguredIsStored == Spec => []OnlyConfiguredUnlessAbandoned
<1>1. PollInv => OnlyConfiguredUnlessAbandoned
  BY DEF PollInv
<1>. QED
  BY <1>1, PollInit, PollStep, PTL DEF Spec

\* The answer of a poll is absorbed when the poll takes it.
LEMMA ReturnAbsorbs ==
    ASSUME PollInv, [Next]_vars, NEW p \in Readers, X!Return(p)
    PROVE  Absorb(X!Received(p).reply)
<1>1. XP!Inv /\ p \in Users /\ \A o \in Others : o \notin Readers
  BY AtmosFeedAssumption DEF PollInv, StoreInv, Users, Readers
<1>2. inbox'[Link] # inbox[Link] /\ pc[p] = "waiting"
  <2>1. inbox[Link] # << >> /\ inbox'[Link] = Tail(inbox[Link])
    BY <1>1, TakesOldest
  <2>2. Len(Tail(inbox[Link])) # Len(inbox[Link])
    BY <1>1, <2>1, AnswersSayVersions DEF XP!Inv
  <2>. QED
    BY <2>1, <2>2 DEF X!Return, X!Receives
<1>3. ASSUME NEW t \in Users, X!Return(t)
      PROVE  p = t
  BY <1>1, <1>2, <1>3, NobodyElseWaits DEF X!Return, X!Receives
<1>4. ASSUME NEW q \in Pollers, PollerStep(q)
      PROVE  Absorb(X!Received(p).reply)
  BY <1>2, <1>3, <1>4 DEF PollerStep, BeginPoll, PollReturns, PollRaises, X!ExchangeCall,
      X!Send, X!SendFails, X!ReceiveFails, Users, Readers
<1>5. ASSUME NEW l \in Loops, LoopStep(l)
      PROVE  Absorb(X!Received(p).reply)
  BY <1>2, <1>3, <1>5 DEF LoopStep, LoopPolls, LoopSends, LoopAbsorbs, LoopRaises,
      LoopCancelled, BeginPoll, PollReturns, PollRaises, X!ExchangeCall, X!Send,
      X!SendFails, X!ReceiveFails, X!CancelQueued, X!CancelWaiting, exchange, Users, Readers
<1>6. ASSUME NEW o \in Others, OtherStep(o)
      PROVE  FALSE
  BY <1>1, <1>2, <1>3, <1>6 DEF OtherStep, X!ExchangeCall, X!Send, X!SendFails,
      X!ReceiveFails, X!CancelQueued, X!CancelWaiting, Users
<1>7. CASE Answer
  <2>1. Len(inbox[Link]) \in Nat /\ Len(inbox'[Link]) = Len(inbox[Link]) + 1
    BY <1>1, <1>7, AnswerGrows, AnswersSayVersions DEF XP!Inv
  <2>2. inbox[Link] # << >> /\ inbox'[Link] = Tail(inbox[Link])
    BY <1>1, TakesOldest
  <2>3. Len(inbox'[Link]) = Len(inbox[Link]) - 1
    BY <1>1, <2>2, AnswersSayVersions DEF XP!Inv
  <2>. QED
    BY <2>1, <2>3
<1>8. CASE LinkStep \/ ManagingStep \/ Subscribing \/ (\E x \in Ids : Change(x)) \/ UNCHANGED vars
  BY <1>2, <1>8 DEF LinkStep, ManagingStep, Subscribing, Change, vars, exchange, X!AClose,
      X!CloseDone, X!Drop, X!Closed
<1>. QED
  BY <1>4, <1>5, <1>6, <1>7, <1>8 DEF Next

\* A poll leaves the store as new as the gateway was when it began, or newer,
\* however long it waited for the lock and whatever was published meanwhile
\* (feed.py:225).
THEOREM PollsAreFresh == Spec => PollIsFresh
<1>. DEFINE Fresh ==
        \A p \in Readers :
            X!Return(p) /\ abandoned = {} =>
                \A x \in Ids \cap DOMAIN X!Received(p).reply :
                    X!Received(p).reply[x] # NoValue => store'[x] >= asked[p][x]
<1>1. PollInv /\ [Next]_vars => [Fresh]_vars
  <2>. SUFFICES ASSUME PollInv, [Next]_vars, NEW p \in Readers, X!Return(p), abandoned = {},
                       NEW x \in Ids \cap DOMAIN X!Received(p).reply,
                       X!Received(p).reply[x] # NoValue
                PROVE  store'[x] >= asked[p][x]
    OBVIOUS
  <2>. DEFINE r == X!Received(p).reply
  <2>1. store' = [y \in Registers |-> IF y \in Changed(r) THEN r[y] ELSE store[y]]
    BY ReturnAbsorbs DEF Absorb
  <2>2. store'[x] = r[x]
    BY <2>1 DEF Changed, Registers
  <2>3. /\ Says(Head(inbox[Link]), x) /\ r = Head(inbox[Link]).reply
        /\ inbox[Link] # << >> /\ pc[p] = "waiting"
    BY TakesOldest DEF Says, Users, PollInv, StoreInv, X!Return, X!Receives
  <2>4. asked[p][x] <= r[x]
    BY <2>3 DEF PollInv, OwnAnswer
  <2>. HIDE DEF r
  <2>. QED
    BY <2>2, <2>4
<1>. QED
  BY <1>1, PollInit, PollStep, PTL DEF Spec, PollIsFresh

-----------------------------------------------------------------------------
(* What the bus gets *)

BP == INSTANCE EventBusProofs WITH
        Updates <- [id : Registers, value : Versions],
        MaxEvents <- 0

\* The members of a finite set can be put in a sequence, each in one place.
LEMMA SetToSeqProperties ==
    ASSUME NEW S, IsFiniteSet(S)
    PROVE  /\ SetToSeq(S) \in Seq(S)
           /\ \A i, j \in 1..Len(SetToSeq(S)) : SetToSeq(S)[i] = SetToSeq(S)[j] => i = j
           /\ \A s \in S : \E i \in 1..Len(SetToSeq(S)) : SetToSeq(S)[i] = s
<1>. DEFINE n == Cardinality(S)
            f == SetToSeq(S)
<1>1. n \in Nat /\ ExistsBijection(1..n, S)
  BY FS_CardinalityType
<1>2. \E g \in [1..n -> S] : IsInjective(g)
  BY <1>1 DEF ExistsBijection, Bijection, Injection
<1>3. f \in [1..n -> S] /\ IsInjective(f)
  BY <1>2 DEF SetToSeq
<1>. HIDE DEF f
<1>4. f \in Seq(S) /\ Len(f) = n
  BY <1>1, <1>3
<1>5. f \in Injection(1..n, S)
  BY <1>3 DEF Injection, IsInjective
<1>6. Cardinality(1..n) = n
  BY <1>1, FS_Interval
<1>7. f \in Surjection(1..n, S)
  BY <1>5, <1>6, FS_Injection
<1>8. \A s \in S : \E i \in 1..n : f[i] = s
  BY <1>7 DEF Surjection
<1>. QED
  BY <1>3, <1>4, <1>8 DEF f, IsInjective

Update == [id : Registers, value : Versions]

\* The updates us are one for each register of the sample that changed.
News(us, sample) ==
    /\ us \in Seq(Update)
    /\ \A i \in 1..Len(us) : us[i].id \in Changed(sample) /\ us[i].value = sample[us[i].id]
    /\ \A i, j \in 1..Len(us) : us[i].id = us[j].id => i = j
    /\ \A x \in Changed(sample) : \E i \in 1..Len(us) : us[i].id = x

\* What a poll publishes are such updates.
LEMMA PublishesUpdates ==
    ASSUME NEW sample, NEW r \in {Ids, Foreign}, sample \in [r -> Versions \cup {NoValue}]
    PROVE  News(SetToSeq({[id |-> x, value |-> sample[x]] : x \in Changed(sample)}), sample)
<1>. DEFINE update == [x \in Changed(sample) |-> [id |-> x, value |-> sample[x]]]
            updates == {[id |-> x, value |-> sample[x]] : x \in Changed(sample)}
            us == SetToSeq(updates)
<1>. SUFFICES News(us, sample)
  OBVIOUS
<1>1. IsFiniteSet(Changed(sample))
  BY AtmosFeedAssumption, FS_Subset DEF Changed
<1>2. update \in Surjection(Changed(sample), updates)
  BY DEF Surjection
<1>3. IsFiniteSet(updates)
  BY <1>1, <1>2, FS_Surjection DEF ExistsSurjection
<1>4. /\ \A x \in Changed(sample) : x \in Registers /\ sample[x] \in Versions
      /\ \A u \in updates : \E x \in Changed(sample) : u = [id |-> x, value |-> sample[x]]
      /\ \A x \in Changed(sample) : [id |-> x, value |-> sample[x]] \in updates
  BY DEF Changed, Registers
<1>. HIDE DEF updates
<1>4a. \A u \in updates : u \in Update /\ u.id \in Changed(sample) /\ u.value = sample[u.id]
  BY <1>4 DEF Update
<1>4b. \A u, v \in updates : u.id = v.id => u = v
  BY <1>4
<1>5. /\ us \in Seq(updates)
      /\ \A i, j \in 1..Len(us) : us[i] = us[j] => i = j
      /\ \A u \in updates : \E i \in 1..Len(us) : us[i] = u
  BY <1>3, SetToSeqProperties
<1>. HIDE DEF us
<1>6. \A i \in 1..Len(us) : us[i] \in updates
  BY <1>5
<1>7. us \in Seq(Update)
  BY <1>4a, <1>5
<1>8. \A i \in 1..Len(us) : us[i].id \in Changed(sample) /\ us[i].value = sample[us[i].id]
  BY <1>4a, <1>6
<1>9. \A i, j \in 1..Len(us) : us[i].id = us[j].id => i = j
  BY <1>4b, <1>5, <1>6
<1>10. \A x \in Changed(sample) : \E i \in 1..Len(us) : us[i].id = x
  <2>. TAKE x \in Changed(sample)
  <2>1. PICK i \in 1..Len(us) : us[i] = [id |-> x, value |-> sample[x]]
    BY <1>4, <1>5
  <2>. QED
    BY <2>1
<1>. QED
  BY <1>7, <1>8, <1>9, <1>10 DEF News

\* A batch of news behind the log, with words newer than those of the store,
\* leaves the store at the last event of each register.
LEMMA NewsAreStored ==
    ASSUME NEW sample, NEW us, News(us, sample),
           BP!Inv, BP!PublishAll(us), StoreIsLastEvent,
           \A x \in Registers : store[x] \in Int,
           store' = [x \in Registers |-> IF x \in Changed(sample) THEN sample[x] ELSE store[x]],
           \A x \in Registers : store'[x] # store[x] => store[x] < store'[x]
    PROVE  StoreIsLastEvent'
<1>. DEFINE new == BP!Numbered(us)
<1>0. us \in Seq(Update) /\ \A k \in 1..Len(us) : us[k] \in Update
  BY DEF News
<1>1. /\ log \in Seq(BP!Events) /\ Len(log) \in Nat /\ Len(us) \in Nat
      /\ new \in Seq(BP!Events) /\ Len(new) = Len(us)
      /\ \A k \in 1..Len(us) : new[k].update = us[k]
      /\ log' = log \o new
  <2>1. new \in Seq(BP!Events) /\ Len(new) = Len(us)
    BY <1>0, BP!NumberedProperties DEF BP!Inv, Update
  <2>2. \A k \in 1..Len(us) : new[k].update = us[k]
    BY DEF BP!Numbered
  <2>. QED
    BY <1>0, <2>1, <2>2 DEF BP!Inv, BP!TypeOK, BP!PublishAll
<1>. HIDE DEF new
<1>2. /\ Len(log') = Len(log) + Len(us)
      /\ \A i \in 1..Len(log) : i \in 1..Len(log') /\ log'[i] = log[i]
      /\ \A k \in 1..Len(us) : Len(log) + k \in 1..Len(log') /\ log'[Len(log) + k].update = us[k]
  <2>1. /\ Len(log \o new) = Len(log) + Len(new)
        /\ \A i \in 1..Len(log) + Len(new) :
                (log \o new)[i] = IF i <= Len(log) THEN log[i] ELSE new[i - Len(log)]
    BY <1>1, ConcatProperties
  <2>. QED
    BY <1>1, <2>1
<1>3. ASSUME NEW i \in 1..Len(log')
      PROVE  i \in 1..Len(log) \/ \E k \in 1..Len(us) : i = Len(log) + k
  <2>1. CASE i > Len(log)
    <3>1. i - Len(log) \in 1..Len(us) /\ i = Len(log) + (i - Len(log))
      BY <1>1, <1>2, <2>1
    <3>. QED
      BY <3>1
  <2>. QED
    BY <1>1, <2>1
<1>4. /\ \A i \in 1..Len(log) : log[i].update.value \in Int
      /\ \A x \in Changed(sample) : x \in Registers => store[x] < sample[x] /\ sample[x] \in Int
  <2>1. ASSUME NEW i \in 1..Len(log)
        PROVE  log[i].update.value \in Int
    <3>1. log[i] \in BP!Events
      BY <1>1
    <3>. QED
      BY <3>1, AtmosFeedAssumption DEF BP!Events, Versions
  <2>2. ASSUME NEW x \in Changed(sample), x \in Registers
        PROVE  store[x] < sample[x] /\ sample[x] \in Int
    <3>1. store'[x] = sample[x] /\ sample[x] # store[x]
      BY <2>2 DEF Changed
    <3>2. PICK k \in 1..Len(us) : us[k].id = x
      BY DEF News
    <3>3. us[k].value = sample[x] /\ us[k].value \in Versions
      BY <1>0, <3>2 DEF News, Update
    <3>4. sample[x] \in Int
      BY <3>3, AtmosFeedAssumption DEF Versions
    <3>. QED
      BY <2>2, <3>1, <3>4
  <2>. QED
    BY <2>1, <2>2
\* The last event of each register.
<1>5. ASSUME NEW x \in Registers
      PROVE  \/ store'[x] = NoValue /\ \A i \in 1..Len(log') : log'[i].update.id # x
             \/ \E i \in 1..Len(log') : Newest(i, x)' /\ log'[i].update.value = store'[x]
  <2>1. CASE x \in Changed(sample)
    <3>1. PICK k \in 1..Len(us) : us[k].id = x
      BY <2>1 DEF News
    <3>2. PICK i \in 1..Len(log') : i = Len(log) + k
      BY <1>2
    <3>3. ASSUME NEW j \in i + 1..Len(log')
          PROVE  log'[j].update.id # x
      <4>1. j \in 1..Len(log') /\ j \notin 1..Len(log)
        BY <1>1, <1>2, <3>2, <3>3
      <4>2. PICK m \in 1..Len(us) : j = Len(log) + m
        BY <1>3, <4>1
      <4>3. m # k
        BY <1>1, <3>2, <3>3, <4>2
      <4>. QED
        BY <1>2, <3>1, <4>2, <4>3 DEF News
    <3>4. log'[i].update = us[k] /\ us[k].value = sample[x] /\ store'[x] = sample[x]
      BY <1>2, <2>1, <3>1, <3>2 DEF News
    <3>5. Newest(i, x)'
      BY <3>1, <3>3, <3>4 DEF Newest
    <3>. QED
      BY <3>4, <3>5
  <2>2. CASE x \notin Changed(sample)
    <3>1. store'[x] = store[x] /\ \A k \in 1..Len(us) : us[k].id # x
      BY <2>2 DEF News
    <3>2. CASE store[x] = NoValue /\ \A i \in 1..Len(log) : log[i].update.id # x
      <4>1. ASSUME NEW i \in 1..Len(log')
            PROVE  log'[i].update.id # x
        <5>1. CASE i \in 1..Len(log)
          BY <1>2, <3>2, <5>1
        <5>2. CASE \E k \in 1..Len(us) : i = Len(log) + k
          BY <1>2, <3>1, <5>2
        <5>. QED
          BY <1>3, <5>1, <5>2
      <4>. QED
        BY <3>1, <3>2, <4>1
    <3>3. ASSUME NEW i \in 1..Len(log), Newest(i, x), log[i].update.value = store[x]
          PROVE  Newest(i, x)' /\ log'[i].update.value = store'[x]
      <4>1. ASSUME NEW j \in i + 1..Len(log')
            PROVE  log'[j].update.id # x
        <5>1. j \in 1..Len(log') /\ (j \in 1..Len(log) => j \in i + 1..Len(log))
          BY <1>1, <1>2
        <5>2. CASE j \in 1..Len(log)
          BY <1>2, <3>3, <5>1, <5>2 DEF Newest
        <5>3. CASE j \notin 1..Len(log)
          <6>1. PICK k \in 1..Len(us) : j = Len(log) + k
            BY <1>3, <5>1, <5>3
          <6>2. log'[j].update = us[k]
            BY <1>2, <6>1
          <6>. QED
            BY <3>1, <6>2
        <5>. QED
          BY <5>2, <5>3
      <4>. QED
        BY <1>2, <3>1, <3>3, <4>1 DEF Newest
    <3>. QED
      BY <1>2, <3>2, <3>3 DEF StoreIsLastEvent
  <2>. QED
    BY <2>1, <2>2
\* Events about a register go forward.
<1>6. ASSUME NEW i \in 1..Len(log'), NEW j \in 1..Len(log'), i < j,
             log'[i].update.id = log'[j].update.id
      PROVE  log'[i].update.value < log'[j].update.value
  <2>1. CASE i \in 1..Len(log) /\ j \in 1..Len(log)
    BY <1>2, <1>6, <2>1 DEF StoreIsLastEvent
  <2>2. ASSUME i \in 1..Len(log), NEW k \in 1..Len(us), j = Len(log) + k
        PROVE  log'[i].update.value < log'[j].update.value
    <3>. DEFINE x == us[k].id
    <3>1. x \in Changed(sample) /\ x \in Registers /\ us[k].value = sample[x] /\ log[i].update.id = x
      BY <1>0, <1>1, <1>2, <1>6, <2>2 DEF News, Update
    <3>2. log[i].update.value <= store[x]
      <4>1. PICK m \in 1..Len(log) : Newest(m, x) /\ log[m].update.value = store[x]
        BY <2>2, <3>1 DEF StoreIsLastEvent
      <4>2. i <= m
        BY <1>1, <2>2, <3>1, <4>1 DEF Newest
      <4>3. log[m].update.id = x
        BY <4>1 DEF Newest
      <4>. QED
        BY <1>4, <2>2, <3>1, <4>1, <4>2, <4>3 DEF StoreIsLastEvent
    <3>3. log'[i].update.value = log[i].update.value /\ log'[j].update.value = sample[x]
      BY <1>2, <2>2, <3>1
    <3>. HIDE DEF x
    <3>. QED
      BY <1>4, <2>2, <3>1, <3>2, <3>3
  <2>3. i \in 1..Len(log) \/ j \notin 1..Len(log)
    BY <1>1, <1>6
  <2>4. CASE i \notin 1..Len(log) /\ j \notin 1..Len(log)
    <3>1. PICK k \in 1..Len(us) : i = Len(log) + k
      BY <1>3, <2>4
    <3>2. PICK m \in 1..Len(us) : j = Len(log) + m
      BY <1>3, <2>4
    <3>. QED
      BY <1>1, <1>2, <1>6, <3>1, <3>2 DEF News
  <2>. QED
    BY <1>3, <2>1, <2>2, <2>3, <2>4
<1>. QED
  BY <1>5, <1>6 DEF StoreIsLastEvent

BusInv ==
    /\ BP!Inv
    /\ store \in [Registers -> Versions \cup {NoValue}]
    /\ StoreIsLastEvent

\* A poll that absorbs its answer publishes what it stores.
LEMMA AbsorbPublishes ==
    ASSUME StoreInv, BusInv, NEW p \in Readers, X!Return(p), UNCHANGED reg,
           Absorb(X!Received(p).reply)
    PROVE  BusInv'
<1>. DEFINE sample == X!Received(p).reply
<1>1. PICK r \in {Ids, Foreign} : sample \in [r -> Versions \cup {NoValue}]
  <2>1. inbox[Link] \in Seq(XP!Answers) /\ inbox[Link] # << >> /\ X!Received(p) = Head(inbox[Link])
    BY TakesOldest, AnswersSayVersions DEF StoreInv, XP!Inv, Users
  <2>2. Head(inbox[Link]) \in XP!Answers
    BY <2>1
  <2>. QED
    BY <2>1, <2>2 DEF XP!Answers
<1>. DEFINE us == SetToSeq({[id |-> x, value |-> sample[x]] : x \in Changed(sample)})
<1>0. \A x \in Registers : store'[x] # store[x] => store[x] < store'[x]
  BY TakeKeepsOrder DEF Users
<1>. HIDE DEF sample
<1>2. /\ store' = [x \in Registers |-> IF x \in Changed(sample) THEN sample[x] ELSE store[x]]
      /\ BP!PublishAll(us)
  BY DEF Absorb, B!PublishAll, BP!PublishAll, B!Numbered, BP!Numbered, sample
<1>3. store' \in [Registers -> Versions \cup {NoValue}]
  BY <1>1, <1>2 DEF BusInv, Changed
<1>4. News(us, sample)
  BY <1>1, PublishesUpdates
<1>. HIDE DEF us
<1>5. BP!Inv'
  BY <1>2, <1>4, BP!PublishStep DEF BusInv, News, Update
<1>6. StoreIsLastEvent'
  BY <1>0, <1>2, <1>4, NewsAreStored DEF BusInv, StoreInv
<1>. QED
  BY <1>3, <1>5, <1>6 DEF BusInv

\* What the feed and the subscribers do to the bus is what EventBus knows.
LEMMA BusStep == StoreInv /\ BusInv /\ [Next]_vars => BusInv'
<1>. SUFFICES ASSUME StoreInv, BusInv, [Next]_vars PROVE BusInv'
  OBVIOUS
<1>1. ASSUME UNCHANGED <<bus, store>>
      PROVE  BusInv'
  <2>1. UNCHANGED BP!vars
    BY <1>1 DEF bus, BP!vars
  <2>2. BP!Inv'
    BY <2>1, BP!InvStep DEF BusInv
  <2>. QED
    BY <1>1, <2>2 DEF BusInv, StoreIsLastEvent, Newest, bus
<1>2. CASE Subscribing
  <2>1. BP!Next /\ UNCHANGED <<store, log>>
    BY <1>2 DEF Subscribing, BP!Next, B!Consuming, BP!Consuming, B!Subscribe, BP!Subscribe,
        B!Register, BP!Register, B!Take, BP!Take, B!Leave, BP!Leave
  <2>2. BP!Inv'
    BY <2>1, BP!InvStep DEF BusInv
  <2>. QED
    BY <2>1, <2>2 DEF BusInv, StoreIsLastEvent, Newest
<1>3. ASSUME NEW p \in Readers, PollReturns(p), UNCHANGED reg
      PROVE  BusInv'
  BY <1>3, AbsorbPublishes DEF PollReturns
<1>4. ASSUME NEW p \in Pollers, PollerStep(p)
      PROVE  BusInv'
  BY <1>1, <1>3, <1>4 DEF PollerStep, PollRaises, Readers
<1>5. ASSUME NEW l \in Loops, LoopStep(l)
      PROVE  BusInv'
  BY <1>1, <1>3, <1>5 DEF LoopStep, LoopPolls, LoopSends, LoopAbsorbs, LoopRaises,
      LoopCancelled, PollRaises, Readers
<1>6. CASE Answer \/ LinkStep \/ ManagingStep \/ (\E x \in Ids : Change(x))
           \/ (\E o \in Others : OtherStep(o)) \/ UNCHANGED vars
  BY <1>1, <1>6 DEF Answer, LinkStep, ManagingStep, Change, OtherStep, vars
<1>. QED
  BY <1>2, <1>4, <1>5, <1>6 DEF Next

LEMMA BusInit == Init => BusInv
<1>. SUFFICES ASSUME Init PROVE BusInv
  OBVIOUS
<1>1. BP!Init
  BY DEF Init, B!Init, BP!Init
<1>2. BP!Inv /\ log = << >> /\ Len(log) = 0
  BY <1>1, BP!InvInit DEF Init, B!Init
<1>. QED
  BY <1>2 DEF Init, BusInv, StoreIsLastEvent

LEMMA BusInvariance == Spec => [](PollInv /\ BusInv)
<1>1. PollInv => StoreInv
  BY DEF PollInv
<1>. QED
  BY <1>1, PollInit, PollStep, BusInit, BusStep, PTL DEF Spec

\* The store is what the last event of each register says, and no event repeats
\* or undoes an earlier one, whoever polls and whoever takes whose answer: the
\* store is written and the event published by the same poll (feed.py:228-233).
THEOREM EventsTellTheStore == Spec => []StoreIsLastEvent
<1>1. BusInv => StoreIsLastEvent
  BY DEF BusInv
<1>. QED
  BY <1>1, BusInvariance, PTL

\* The feed, its task, the client below it and the bus above it keep their
\* types together.
THEOREM FeedTypeCorrect == Spec => []TypeOK
<1>1. PollInv /\ BusInv /\ LifeInv => TypeOK
  <2>1. XP!TypeOK => X!TypeOK
    BY DEF XP!TypeOK, X!TypeOK, XP!Messages, X!Messages, XP!Answers, X!Answers,
        XP!CallIds, X!CallIds
  <2>2. BP!TypeOK => B!TypeOK
    BY DEF BP!TypeOK, B!TypeOK, BP!Events, B!Events
  <2>. QED
    BY <2>1, <2>2 DEF TypeOK, PollInv, BusInv, LifeInv, StoreInv, Polling, XP!Inv, BP!Inv
<1>. QED
  BY <1>1, BusInvariance, FeedHasTask, LifeInvHolds, PTL

\* A subscriber of a feed finds every event since its registration, handed to
\* it or in its queue, once and in order, whoever polls (feed.py:80).
THEOREM FeedDelivers == Spec => []B!Delivery
<1>1. BusInv => B!Delivery
  BY DEF BusInv, BP!Inv, BP!Delivery, B!Delivery
<1>. QED
  BY <1>1, BusInvariance, PTL

=============================================================================
