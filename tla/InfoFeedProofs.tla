--------------------------- MODULE InfoFeedProofs ---------------------------
(***************************************************************************)
(* Theorems about InfoFeed, for any tasks, rows and versions.              *)
(*                                                                         *)
(* It implements the task of FeedTask, although its polls hold two locks   *)
(* and take many answers; its steps are steps of AtmosClient and of        *)
(* EventBus, whose theorems it takes over; and its dump implements Mirror. *)
(***************************************************************************)
EXTENDS InfoFeed, FeedTaskProofs, SequenceTheorems

\* A step of the feed is a step of its task or leaves it alone.
LEMMA TaskStep == [Next]_vars => [LifeNext]_life
<1>. SUFFICES ASSUME [Next]_vars PROVE [LifeNext]_life
  OBVIOUS
<1>1. CASE ManagingStep
  BY <1>1 DEF ManagingStep, LifeNext
<1>2. ASSUME NEW l \in Loops, LoopStep(l)
      PROVE  [LifeNext]_life
  BY <1>2 DEF LoopStep, LifeNext
<1>3. ASSUME NEW l \in Loops, LoopCancelled(l)
      PROVE  [LifeNext]_life
  BY <1>3 DEF LoopCancelled, LifeNext
<1>4. ASSUME NEW p \in Pollers, PollerStep(p)
      PROVE  [LifeNext]_life
  BY <1>4 DEF PollerStep
<1>5. CASE Answer \/ LinkStep \/ (\E r \in Rows : Change(r)) \/ UNCHANGED vars
  BY <1>5 DEF Answer, LinkStep, Change, vars, life
<1>. QED
  BY <1>1, <1>2, <1>3, <1>4, <1>5 DEF Next

\* The Info feed's start(), stop() and loop are those of FeedTask (feed.py:328).
LEMMA InfoFeedHasTask == Spec => LifeSpec
<1>1. Init => LifeInit
  BY DEF Init
<1>. QED
  BY <1>1, TaskStep, PTL DEF Spec, LifeSpec

\* At most one loop fetches dumps that was not told to stop, and somebody waits
\* for each that was, wherever in its many chunks it is (feed.py:328-352).
THEOREM InfoFeedTaskKept == Spec => [](OneLoop /\ StopWaits)
BY InfoFeedHasTask, OneLoopAtATime, StopsAreAwaited, PTL

-----------------------------------------------------------------------------
(* The client's operations *)

CP == INSTANCE AtmosClientProofs WITH
        Tasks <- Readers,
        Script <- [t \in Readers |-> FetchInfo],
        Looping <- Readers,
        Impatient <- Loops,
        Chunks <- RowCount,
        Contents <- Versions,
        Missing <- {},
        Endless <- {},
        MaxChunks <- RowCount

\* The feed uses the client's operations as AtmosClient assumes.
LEMMA ClientAssumption == CP!AtmosClientAssumption
<1>. DEFINE op == [name |-> "info", of |-> Controller]
<1>1. \A t \in Readers : [u \in Readers |-> FetchInfo][t] = <<op>>
  BY DEF FetchInfo
<1>2. \A o \in CP!Ops : o = op
  BY <1>1 DEF CP!Ops
<1>3. ASSUME NEW t \in Readers PROVE [u \in Readers |-> FetchInfo][t] \in Seq(CP!Ops)
  <2>1. 1 \in 1..Len(<<op>>) /\ <<op>>[1] = op
    OBVIOUS
  <2>2. op \in CP!Ops
    BY <1>1, <2>1 DEF CP!Ops
  <2>3. <<op>> \in Seq(CP!Ops)
    BY <2>2
  <2>. QED
    BY <1>1, <2>3
<1>4. CP!Requests = C!Requests
  BY DEF CP!Requests, C!Requests, CP!Kinds, C!Kinds, CP!Targets, C!Targets, CP!Ops, C!Ops
<1>5. 0 \in Versions
  BY InfoFeedAssumption DEF Versions
<1>6. RowCount \in 1..RowCount + 1
  BY InfoFeedAssumption
<1>7. \A o \in CP!Ops : o.name \in CP!Kinds
  BY <1>2 DEF CP!Kinds
<1>8. \A t \in Readers : [u \in Readers |-> FetchInfo][t] \in Seq(CP!Ops)
  BY <1>3
<1>. QED
  BY <1>4, <1>5, <1>6, <1>7, <1>8, InfoFeedAssumption DEF CP!AtmosClientAssumption, Readers

\* What a task does in its fetch is an operation of AtmosClient.
LEMMA SameOperation ==
    ASSUME NEW t \in Readers
    PROVE  /\ C!AskDataLock(t) => CP!AskDataLock(t)
           /\ C!Call(t) => CP!Call(t)
           /\ C!NotConnected(t) => CP!NotConnected(t)
           /\ C!Send(t) => CP!Send(t)
           /\ C!NextChunk(t) => CP!NextChunk(t)
           /\ C!Finish(t) => CP!Finish(t)
           /\ C!Fail(t) => CP!Fail(t)
           /\ C!Cancel(t) => CP!Cancel(t)
           /\ C!Got(t) = CP!Got(t)
           /\ C!Receiving(t) <=> CP!Receiving(t)
           /\ C!Completes(t) <=> CP!Completes(t)
<1>. USE DEF C!Op, CP!Op, C!Locked, CP!Locked, C!exchange, CP!exchange, C!gateway, CP!gateway
<1>1. C!Got(t) = CP!Got(t) /\ (C!Receiving(t) <=> CP!Receiving(t))
  BY DEF C!Got, CP!Got, C!X!Received, CP!X!Received, C!Receiving, CP!Receiving
<1>2. C!Completes(t) <=> CP!Completes(t)
  BY DEF C!Got, CP!Got, C!X!Received, CP!X!Received, C!Completes, CP!Completes,
      C!Decodes, CP!Decodes, C!OfItsKind, CP!OfItsKind, C!Ends, CP!Ends, C!Assembles, CP!Assembles,
      C!Last, CP!Last
<1>3. C!WantsMore(t) <=> CP!WantsMore(t)
  BY DEF C!Got, CP!Got, C!X!Received, CP!X!Received, C!WantsMore, CP!WantsMore,
      C!Decodes, CP!Decodes, C!OfItsKind, CP!OfItsKind, C!Ends, CP!Ends
<1>4. C!MayCall(t) <=> CP!MayCall(t)
  BY DEF C!MayCall, CP!MayCall, C!Waits, CP!Waits
<1>5. C!Over(t) => CP!Over(t)
  BY DEF C!Over, CP!Over, C!LetGo, CP!LetGo, C!NextStep, CP!NextStep, C!RemoveAt, CP!RemoveAt
<1>6. C!AskDataLock(t) => CP!AskDataLock(t)
  BY DEF C!AskDataLock, CP!AskDataLock, C!Waits, CP!Waits
<1>7. C!Call(t) => CP!Call(t)
  BY <1>4 DEF C!Call, CP!Call, C!Ask, CP!Ask, C!Last, CP!Last, C!X!ExchangeCall, CP!X!ExchangeCall,
      C!X!Ready, CP!X!Ready, C!X!Following, CP!X!Following
<1>8. C!NotConnected(t) => CP!NotConnected(t)
  BY <1>4, <1>5 DEF C!NotConnected, CP!NotConnected
<1>9. C!Send(t) => CP!Send(t)
  BY DEF C!Send, CP!Send, C!X!Send, CP!X!Send, C!X!Owns, CP!X!Owns, C!X!MyId, CP!X!MyId
<1>10. C!NextChunk(t) => CP!NextChunk(t)
  BY <1>1, <1>3 DEF C!NextChunk, CP!NextChunk, C!Ask, CP!Ask, C!Last, CP!Last, C!X!Continue, CP!X!Continue,
      C!X!Receives, CP!X!Receives, C!X!Following, CP!X!Following
<1>11. C!Finish(t) => CP!Finish(t)
  BY <1>3, <1>5 DEF C!Finish, CP!Finish, C!X!Return, CP!X!Return, C!X!Receives, CP!X!Receives,
      C!X!Leave, CP!X!Leave
<1>12. C!Fail(t) => CP!Fail(t)
  BY <1>5 DEF C!Fail, CP!Fail, C!X!SendFails, CP!X!SendFails, C!X!ReceiveFails, CP!X!ReceiveFails,
      C!X!Leave, CP!X!Leave, C!X!Owns, CP!X!Owns
<1>13. C!Cancel(t) => CP!Cancel(t)
  BY <1>5 DEF C!Cancel, CP!Cancel, C!X!CancelQueued, CP!X!CancelQueued, C!X!CancelWaiting,
      CP!X!CancelWaiting, C!X!Leave, CP!X!Leave, C!X!RemoveAt, CP!X!RemoveAt
<1>. QED
  BY <1>1, <1>2, <1>6, <1>7, <1>8, <1>9, <1>10, <1>11, <1>12, <1>13

\* The gateway's answer is one that AtmosClient's gateway may give.
LEMMA SameAnswer ==
    ASSUME NEW said \in Versions, C!AnswerSaying(said)
    PROVE  CP!Answer
<1>1. \A r : C!Dump(r) = CP!Dump(r)
  BY DEF C!Dump, CP!Dump
<1>2. \A r : C!Reply(r, said) = CP!Reply(r, said)
  BY <1>1 DEF C!Reply, CP!Reply, C!Chunk, CP!Chunk, C!Blank, CP!Blank
<1>3. CP!AnswerSaying(said)
  BY <1>1, <1>2 DEF C!AnswerSaying, CP!AnswerSaying, C!X!Answer, CP!X!Answer, C!X!Alive, CP!X!Alive,
      C!X!client, CP!X!client
<1>. QED
  BY <1>3 DEF CP!Answer

\* What happens to the connection is what AtmosClient says of it.
LEMMA SameLink == C!LinkStep => CP!LinkStep
BY DEF C!LinkStep, CP!LinkStep, C!X!AClose, CP!X!AClose, C!X!CloseDone, CP!X!CloseDone, C!X!Drop,
    CP!X!Drop, C!X!Closed, CP!X!Closed, C!X!Ready, CP!X!Ready, C!X!client, CP!X!client,
    C!gateway, CP!gateway

\* A task that reads is one of the client's callers.
Moves(t) ==
    C!AskDataLock(t) \/ C!Call(t) \/ C!NotConnected(t) \/ C!Send(t) \/ C!NextChunk(t)
        \/ C!Finish(t) \/ C!Fail(t) \/ C!Cancel(t)

\* A step of the feed is a step of the client's operations or leaves them alone.
LEMMA OperationStep ==
    ASSUME now \in [Rows -> Versions], [Next]_vars
    PROVE  [CP!Next]_(CP!vars)
<1>1. ASSUME UNCHANGED <<exchange, operations>>
      PROVE  [CP!Next]_(CP!vars)
  BY <1>1 DEF exchange, operations, CP!vars, CP!exchange, CP!gateway
<1>2. ASSUME NEW t \in Readers, Moves(t)
      PROVE  [CP!Next]_(CP!vars)
  BY <1>2, SameOperation DEF Moves, CP!Next, CP!Proceed
<1>3. CASE Answer
  <2>1. 0 \in Versions
    BY InfoFeedAssumption DEF Versions
  <2>2. \E said \in Versions : C!AnswerSaying(said)
    BY <1>3, <2>1 DEF Answer
  <2>. QED
    BY <2>2, SameAnswer DEF CP!Next
<1>4. CASE LinkStep
  BY <1>4, SameLink DEF LinkStep, CP!Next
<1>5. CASE ManagingStep \/ (\E r \in Rows : Change(r)) \/ UNCHANGED vars
  BY <1>1, <1>5 DEF ManagingStep, Change, vars
<1>6. ASSUME NEW l \in Loops, LoopStep(l) \/ LoopCancelled(l)
      PROVE  [CP!Next]_(CP!vars)
  BY <1>1, <1>2, <1>6 DEF LoopStep, LoopCancelled, PollBegins, PollGoesOn, PollReturns, PollRaises,
      Moves, Readers
<1>7. ASSUME NEW p \in Pollers, PollerStep(p)
      PROVE  [CP!Next]_(CP!vars)
  BY <1>2, <1>7 DEF PollerStep, PollBegins, PollGoesOn, PollReturns, PollRaises, Moves, Readers
<1>. QED
  BY <1>3, <1>4, <1>5, <1>6, <1>7 DEF Next

-----------------------------------------------------------------------------
(* What the gateway said, in the order it said it *)

Honest(b) == b.last <=> b.pos = RowCount - 1

\* Only dumps are asked for, and only the last chunk is flagged so.
Genuine ==
    /\ \A i \in 1..Len(wire[Link]) : wire[Link][i].req.kind = "info"
    /\ \A i \in 1..Len(inbox[Link]) : Honest(inbox[Link][i].reply)

Between(old, b, source) == old <= b.said /\ b.said <= source

\* The stored row, what chunks say of it that were taken, what answers say of
\* it that are on their way, and what the gateway has come in this order.
Ordered(old, ps, box, source, r) ==
    /\ old <= source
    /\ \A i \in 1..Len(ps) : ps[i].pos = r => Between(old, ps[i], source)
    /\ \A j \in 1..Len(box) : box[j].reply.pos = r => Between(old, box[j].reply, source)
    /\ \A i \in 1..Len(ps), j \in 1..Len(box) :
            ps[i].pos = r /\ box[j].reply.pos = r => ps[i].said <= box[j].reply.said
    /\ \A i, j \in 1..Len(box) :
            i < j /\ box[i].reply.pos = r /\ box[j].reply.pos = r
                => box[i].reply.said <= box[j].reply.said

InOrder ==
    \A p \in Readers, r \in Rows : Ordered(dump[r], parts[p], inbox[Link], now[r], r)

\* A new answer says what the gateway has now.
LEMMA OrderedAnswer ==
    ASSUME NEW S, NEW box \in Seq(S), NEW answer \in S, NEW old \in Int, NEW ps, NEW source \in Int, NEW r,
           answer.reply.pos = r => answer.reply.said = source,
           Ordered(old, ps, box, source, r)
    PROVE  Ordered(old, ps, Append(box, answer), source, r)
<1>. DEFINE more == Append(box, answer)
<1>1. Len(more) = Len(box) + 1 /\ more[Len(box) + 1] = answer /\ Len(box) \in Nat
  OBVIOUS
<1>2. \A i \in 1..Len(box) : more[i] = box[i]
  OBVIOUS
<1>3. \A i \in 1..Len(more) : i \in 1..Len(box) \/ i = Len(box) + 1
  BY <1>1
<1>. HIDE DEF more
<1>4. \A j \in 1..Len(more) : more[j].reply.pos = r => Between(old, more[j].reply, source)
  BY <1>1, <1>2, <1>3 DEF Ordered, Between
<1>5. \A i \in 1..Len(ps), j \in 1..Len(more) :
            ps[i].pos = r /\ more[j].reply.pos = r => ps[i].said <= more[j].reply.said
  BY <1>1, <1>2, <1>3 DEF Ordered, Between
<1>6. ASSUME NEW i \in 1..Len(more), NEW j \in 1..Len(more), i < j,
             more[i].reply.pos = r, more[j].reply.pos = r
      PROVE  more[i].reply.said <= more[j].reply.said
  <2>1. i \in 1..Len(box)
    BY <1>1, <1>6
  <2>. QED
    BY <2>1, <1>1, <1>2, <1>3, <1>6 DEF Ordered, Between
<1>. QED
  BY <1>4, <1>5, <1>6 DEF Ordered, more

\* The oldest answer is taken as the next chunk of a dump, or its word is lost
\* with all chunks of the dump.
LEMMA OrderedTake ==
    ASSUME NEW S, NEW box \in Seq(S), box # << >>, NEW T, NEW ps \in Seq(T), Head(box).reply \in T,
           NEW old, NEW source, NEW r,
           Ordered(old, ps, box, source, r)
    PROVE  /\ Ordered(old, Append(ps, Head(box).reply), Tail(box), source, r)
           /\ Ordered(old, ps, Tail(box), source, r)
           /\ Ordered(old, << >>, Tail(box), source, r)
<1>. DEFINE rest == Tail(box)
            more == Append(ps, Head(box).reply)
<1>1. Len(rest) = Len(box) - 1 /\ Head(box) = box[1] /\ 1 \in 1..Len(box) /\ Len(box) \in Nat
  OBVIOUS
<1>2. \A i \in 1..Len(rest) : rest[i] = box[i + 1] /\ i + 1 \in 1..Len(box) /\ 1 < i + 1
  OBVIOUS
<1>3. Len(more) = Len(ps) + 1 /\ more[Len(ps) + 1] = box[1].reply /\ Len(ps) \in Nat
  BY <1>1
<1>4. \A i \in 1..Len(ps) : more[i] = ps[i]
  OBVIOUS
<1>5. \A i \in 1..Len(more) : i \in 1..Len(ps) \/ i = Len(ps) + 1
  BY <1>3
<1>. HIDE DEF rest, more
<1>6. \A i \in 1..Len(rest) : rest[i].reply.pos = r => Between(old, rest[i].reply, source)
  BY <1>2 DEF Ordered
<1>7. \A i \in 1..Len(more) : more[i].pos = r => Between(old, more[i], source)
  BY <1>1, <1>3, <1>4, <1>5 DEF Ordered
<1>8. \A i \in 1..Len(more), j \in 1..Len(rest) :
            more[i].pos = r /\ rest[j].reply.pos = r => more[i].said <= rest[j].reply.said
  BY <1>1, <1>2, <1>3, <1>4, <1>5 DEF Ordered
<1>9. \A i \in 1..Len(ps), j \in 1..Len(rest) :
            ps[i].pos = r /\ rest[j].reply.pos = r => ps[i].said <= rest[j].reply.said
  BY <1>2 DEF Ordered
<1>10. \A i, j \in 1..Len(rest) :
            i < j /\ rest[i].reply.pos = r /\ rest[j].reply.pos = r
                => rest[i].reply.said <= rest[j].reply.said
  <2>1. \A i, j \in 1..Len(rest) : i < j => i + 1 < j + 1
    OBVIOUS
  <2>. QED
    BY <1>2, <2>1 DEF Ordered
<1>11. Ordered(old, more, rest, source, r)
  BY <1>6, <1>7, <1>8, <1>10 DEF Ordered
<1>12. Ordered(old, ps, rest, source, r)
  BY <1>6, <1>9, <1>10 DEF Ordered
<1>13. Ordered(old, << >>, rest, source, r)
  BY <1>6, <1>10 DEF Ordered
<1>. QED
  BY <1>11, <1>12, <1>13 DEF rest, more

\* The chunks of a dump that ends are dropped.
LEMMA OrderedDrop ==
    ASSUME NEW old, NEW ps, NEW box, NEW source, NEW r, Ordered(old, ps, box, source, r)
    PROVE  Ordered(old, << >>, box, source, r)
BY DEF Ordered

\* What one of the chunks says is stored.
LEMMA OrderedStore ==
    ASSUME NEW old, NEW ps, NEW box, NEW source, NEW r, NEW i \in 1..Len(ps), ps[i].pos = r,
           Ordered(old, ps, box, source, r)
    PROVE  /\ Ordered(ps[i].said, << >>, box, source, r)
           /\ old <= ps[i].said /\ ps[i].said <= source
BY DEF Ordered, Between

\* The row changes at the gateway.
LEMMA OrderedChange ==
    ASSUME NEW old \in Int, NEW R, NEW ps \in Seq(R), NEW S, NEW box \in Seq(S), NEW source \in Int, NEW r,
           \A b \in R : b.said \in Int, \A b \in S : b.reply.said \in Int,
           Ordered(old, ps, box, source, r)
    PROVE  Ordered(old, ps, box, source + 1, r)
<1>1. \A i \in 1..Len(ps) : ps[i].said \in Int
  OBVIOUS
<1>2. \A i \in 1..Len(box) : box[i].reply.said \in Int
  OBVIOUS
<1>. QED
  BY <1>1, <1>2 DEF Ordered, Between

-----------------------------------------------------------------------------
(* The invariant of the stored dump *)

FeedInv ==
    /\ CP!Inv
    /\ now \in [Rows -> Versions]
    /\ dump \in [Rows -> Versions \cup {-1}]
    /\ Genuine
    /\ InOrder

Fetching == [name |-> "info", of |-> Controller]

\* Whoever is somewhere in a script is in its one fetch.
LEMMA FetchOp ==
    ASSUME CP!Inv, NEW t \in Readers, at[t] # "between"
    PROVE  /\ CP!Op(t) = Fetching /\ C!Op(t) = Fetching
           /\ CP!Locked(CP!Op(t))
<1>1. [u \in Readers |-> FetchInfo][t] = <<Fetching>>
  BY DEF FetchInfo, Fetching
<1>2. step[t] \in Nat \ {0} /\ step[t] <= 1
  BY <1>1 DEF CP!Inv, CP!BaseInv, CP!Placed, CP!TypeOK
<1>3. step[t] = 1
  BY <1>2
<1>. QED
  BY <1>1, <1>3 DEF CP!Op, C!Op, CP!Locked, Fetching

\* As long as one task has chunks, no other one has.
LEMMA OneDumpAtATime ==
    ASSUME CP!Inv, NEW t \in Readers, at[t] = "exchange", NEW u \in Readers \ {t}
    PROVE  parts[u] = << >>
<1>1. t \in CP!Users /\ u \in CP!Users
  BY DEF CP!Users
<1>2. at[u] = "exchange" => u = t
  BY <1>1, FetchOp, ClientAssumption, CP!OneAtATime DEF CP!Inv
<1>. QED
  BY <1>2 DEF CP!Inv, CP!BaseInv, CP!Placed

\* A task takes the oldest answer, as the next chunk of its dump.
LEMMA TakesOldest ==
    ASSUME CP!Inv, NEW t \in Readers, C!NextChunk(t) \/ C!Finish(t)
    PROVE  /\ at[t] = "exchange"
           /\ inbox[Link] # << >> /\ inbox[Link] \in Seq(CP!XP!Answers)
           /\ inbox'[Link] = Tail(inbox[Link])
           /\ Head(inbox[Link]).reply \in CP!Replies
           /\ C!X!Received(t) = Head(inbox[Link])
           /\ C!Got(t) = Append(parts[t], Head(inbox[Link]).reply)
           /\ parts[t] \in Seq(CP!Replies)
           /\ C!Got(t) \in Seq(CP!Replies)
<1>1. CP!X!Receives(t)
  BY SameOperation DEF CP!NextChunk, CP!Finish, CP!X!Continue, CP!X!Return
<1>2. /\ at[t] = "exchange"
      /\ inbox[Link] # << >> /\ inbox[Link] \in Seq(CP!XP!Answers)
      /\ CP!X!Received(t) = Head(inbox[Link])
      /\ inbox'[Link] = Tail(inbox[Link])
      /\ CP!X!Received(t).reply \in CP!Replies
      /\ CP!Got(t) \in Seq(CP!Replies)
  BY <1>1, ClientAssumption, CP!ReceivedType DEF CP!Inv
<1>3. C!X!Received(t) = CP!X!Received(t) /\ C!Got(t) = CP!Got(t)
  BY SameOperation DEF C!X!Received, CP!X!Received
<1>4. parts[t] \in Seq(CP!Replies)
  BY DEF CP!Inv, CP!BaseInv, CP!TypeOK
<1>. QED
  BY <1>2, <1>3, <1>4 DEF CP!Got

\* What is there of sequences.
LEMMA FeedTypes ==
    ASSUME FeedInv
    PROVE  /\ wire[Link] \in Seq(CP!XP!Messages) /\ inbox[Link] \in Seq(CP!XP!Answers)
           /\ wire \in [{Link} -> Seq(CP!XP!Messages)] /\ inbox \in [{Link} -> Seq(CP!XP!Answers)]
           /\ parts \in [Readers -> Seq(CP!Replies)]
           /\ at \in [Readers -> {"between", "datalock", "exchange"}]
           /\ \A b \in CP!Replies : b.said \in Int
           /\ \A b \in CP!XP!Answers : b.reply.said \in Int
           /\ \A r \in Rows : now[r] \in Int /\ dump[r] \in Int
           /\ RowCount \in Nat /\ RowCount > 0
<1>1. RowCount \in Nat /\ RowCount > 0 /\ Versions \subseteq Int
  BY InfoFeedAssumption DEF Versions
<1>2. \A b \in CP!Replies : b.said \in Int
  BY <1>1 DEF CP!Replies
<1>3. \A b \in CP!XP!Answers : b.reply.said \in Int
  BY <1>2 DEF CP!XP!Answers
<1>4. \A r \in Rows : now[r] \in Int /\ dump[r] \in Int
  <2>1. Versions \cup {-1} \subseteq Int
    BY <1>1
  <2>2. now \in [Rows -> Versions] /\ dump \in [Rows -> Versions \cup {-1}]
    BY DEF FeedInv
  <2>. QED
    BY <1>1, <2>1, <2>2
<1>5. CP!XP!TypeOK /\ CP!TypeOK
  BY DEF FeedInv, CP!Inv, CP!BaseInv, CP!XP!Inv
<1>6. wire \in [{Link} -> Seq(CP!XP!Messages)] /\ inbox \in [{Link} -> Seq(CP!XP!Answers)]
  BY <1>5 DEF CP!XP!TypeOK
<1>7. wire[Link] \in Seq(CP!XP!Messages) /\ inbox[Link] \in Seq(CP!XP!Answers)
  BY <1>6
<1>8. /\ parts \in [Readers -> Seq(CP!Replies)]
      /\ at \in [Readers -> {"between", "datalock", "exchange"}]
  BY <1>5 DEF CP!TypeOK
<1>. QED
  BY <1>1, <1>2, <1>3, <1>4, <1>6, <1>7, <1>8

\* Nothing is received and nothing said.
LEMMA QuietKeeps ==
    ASSUME FeedInv, UNCHANGED <<inbox, now, dump>>,
           \A p \in Readers : parts'[p] \in {parts[p], << >>},
           \A i \in 1..Len(wire'[Link]) : wire'[Link][i].req.kind = "info"
    PROVE  InOrder' /\ Genuine'
<1>1. Genuine'
  BY DEF FeedInv, Genuine, Honest
<1>2. ASSUME NEW p \in Readers, NEW r \in Rows
      PROVE  Ordered(dump'[r], parts'[p], inbox'[Link], now'[r], r)
  <2>1. Ordered(dump[r], parts[p], inbox[Link], now[r], r)
    BY DEF FeedInv, InOrder
  <2>2. Ordered(dump[r], << >>, inbox[Link], now[r], r)
    BY <2>1, OrderedDrop
  <2>3. inbox'[Link] = inbox[Link] /\ now'[r] = now[r] /\ dump'[r] = dump[r]
    OBVIOUS
  <2>. QED
    BY <2>1, <2>2, <2>3
<1>. QED
  BY <1>1, <1>2 DEF InOrder

\* The next chunk is taken, or the last one that there will be.
LEMMA TakeKeeps ==
    ASSUME FeedInv, NEW t \in Readers, C!NextChunk(t) \/ C!Finish(t), UNCHANGED <<now, dump>>
    PROVE  InOrder' /\ Genuine'
<1>. DEFINE box == inbox[Link]
            b == Head(box).reply
<1>1. /\ at[t] = "exchange" /\ box # << >> /\ box \in Seq(CP!XP!Answers) /\ inbox'[Link] = Tail(box)
      /\ b \in CP!Replies /\ C!Got(t) = Append(parts[t], b)
  BY TakesOldest DEF FeedInv
<1>2. /\ parts \in [Readers -> Seq(CP!Replies)] /\ wire' = wire
      /\ C!NextChunk(t) => parts' = [parts EXCEPT ![t] = C!Got(t)]
      /\ C!Finish(t) => parts' = [parts EXCEPT ![t] = << >>]
  BY FeedTypes DEF C!NextChunk, C!X!Continue, C!Finish, C!X!Return, C!X!Receives, C!Over
<1>3. \A p \in Readers : parts'[p] = parts[p] \/ parts'[p] = Append(parts[p], b) \/ parts'[p] = << >>
  BY <1>1, <1>2
<1>4. parts[t] \in Seq(CP!Replies) /\ \A p \in Readers : parts[p] \in Seq(CP!Replies)
  BY <1>2
<1>5. \A i \in 1..Len(Tail(box)) : Tail(box)[i] = box[i + 1] /\ i + 1 \in 1..Len(box)
  BY <1>1
<1>6. Genuine'
  BY <1>1, <1>2, <1>5 DEF FeedInv, Genuine, Honest
<1>. HIDE DEF box
<1>7. ASSUME NEW p \in Readers, NEW r \in Rows
      PROVE  Ordered(dump[r], parts'[p], Tail(box), now[r], r)
  <2>1. Ordered(dump[r], parts[p], box, now[r], r)
    BY DEF FeedInv, InOrder, box
  <2>. QED
    BY <1>1, <1>3, <1>4, <2>1, OrderedTake
<1>. QED
  BY <1>1, <1>6, <1>7 DEF InOrder

\* An operation of a task that stores nothing keeps what there is in order.
LEMMA MoveKeeps ==
    ASSUME FeedInv, NEW t \in Readers, Moves(t), UNCHANGED <<now, dump>>
    PROVE  InOrder' /\ Genuine'
<1>1. CASE C!NextChunk(t) \/ C!Finish(t)
  BY <1>1, TakeKeeps
<1>2. \A i \in 1..Len(wire[Link]) : wire[Link][i].req.kind = "info"
  BY DEF FeedInv, Genuine
<1>3. parts \in [Readers -> Seq(CP!Replies)]
  BY FeedTypes
<1>4. CASE C!AskDataLock(t) \/ C!Call(t)
  BY <1>2, <1>3, <1>4, QuietKeeps DEF C!AskDataLock, C!exchange, C!Call, C!X!ExchangeCall
<1>5. CASE C!NotConnected(t) \/ C!Fail(t) \/ C!Cancel(t)
  <2>1. UNCHANGED <<wire, inbox>>
    BY <1>5 DEF C!NotConnected, C!exchange, C!Fail, C!X!SendFails, C!X!ReceiveFails, C!Cancel,
        C!X!CancelQueued, C!X!CancelWaiting
  <2>2. parts' = [parts EXCEPT ![t] = << >>]
    BY <1>5 DEF C!NotConnected, C!Fail, C!Cancel, C!Over
  <2>. QED
    BY <1>2, <1>3, <2>1, <2>2, QuietKeeps
<1>6. CASE C!Send(t)
  <2>. DEFINE sent == [id |-> C!X!MyId(t), req |-> req[t]]
  <2>1. /\ pc[t] = "queued" /\ wire' = [wire EXCEPT ![on[t]] = Append(@, sent)]
        /\ UNCHANGED <<inbox, parts>>
    BY <1>6 DEF C!Send, C!X!Send
  <2>2. on[t] = Link /\ at[t] = "exchange"
    BY <2>1 DEF FeedInv, CP!Inv, CP!BaseInv, CP!XP!Inv, CP!XP!Pairing, CP!XP!CallersHold,
        CP!XP!InExchange, CP!Placed, CP!Users
  <2>3. req[t].kind = "info"
    <3>1. req[t] = CP!Ask(CP!Op(t), parts[t])
      BY <2>2 DEF FeedInv, CP!Inv, CP!BaseInv, CP!Placed
    <3>2. CP!Op(t).name = "info"
      BY <2>2, FetchOp DEF FeedInv, Fetching
    <3>. QED
      BY <3>1, <3>2 DEF CP!Ask
  <2>4. /\ wire'[Link] = Append(wire[Link], sent) /\ wire[Link] \in Seq(CP!XP!Messages)
    BY <2>1, <2>2, FeedTypes
  <2>5. \A i \in 1..Len(wire'[Link]) :
            (i \in 1..Len(wire[Link]) /\ wire'[Link][i] = wire[Link][i]) \/ wire'[Link][i] = sent
    <3>. DEFINE old == wire[Link]
                new == Append(old, sent)
    <3>1. old \in Seq(CP!XP!Messages)
      BY <2>4
    <3>. HIDE DEF old, sent
    <3>2. \A i \in 1..Len(new) : (i \in 1..Len(old) /\ new[i] = old[i]) \/ new[i] = sent
      BY <3>1
    <3>. QED
      BY <2>4, <3>2 DEF old
  <2>. QED
    BY <1>2, <2>1, <2>3, <2>5, QuietKeeps
<1>. QED
  BY <1>1, <1>4, <1>5, <1>6 DEF Moves

\* The dump that fetch_info() returns is of all rows, and each row of it is
\* newer than the stored one and older than what is on its way.
LEMMA SampleIsHeard ==
    ASSUME FeedInv, NEW t \in Readers, C!Completes(t), C!Finish(t)
    PROVE  /\ Sample(t) \in [Rows -> Versions]
           /\ \A r \in Rows :
                /\ Ordered(Sample(t)[r], << >>, inbox'[Link], now[r], r)
                /\ dump[r] <= Sample(t)[r] /\ Sample(t)[r] <= now[r]
<1>. DEFINE box == inbox[Link]
            b == Head(box).reply
            got == C!Got(t)
<1>1. /\ at[t] = "exchange" /\ box # << >> /\ box \in Seq(CP!XP!Answers) /\ inbox'[Link] = Tail(box)
      /\ b \in CP!Replies /\ got = Append(parts[t], b) /\ parts[t] \in Seq(CP!Replies)
      /\ got \in Seq(CP!Replies) /\ C!X!Received(t) = Head(box)
  BY TakesOldest DEF FeedInv
<1>2. C!Op(t).name = "info"
  BY <1>1, FetchOp DEF FeedInv, Fetching
<1>3. b.last /\ C!Assembles(got)
  BY <1>1, <1>2 DEF C!Completes, C!Ends
<1>4. b.pos = RowCount - 1
  <2>1. box[1].reply = b /\ 1 \in 1..Len(box)
    BY <1>1
  <2>. QED
    BY <1>3, <2>1 DEF FeedInv, Genuine, Honest
<1>5. Len(got) \in Nat /\ Len(got) \in 1..Len(got) /\ got[Len(got)] = b
  BY <1>1
<1>6. \A i \in 1..Len(got) : got[i].pos = i - 1
  BY <1>3 DEF C!Assembles
<1>7. Len(got) = RowCount
  BY <1>4, <1>5, <1>6, FeedTypes
<1>8. ASSUME NEW r \in Rows
      PROVE  r + 1 \in 1..Len(got) /\ got[r + 1].pos = r /\ got[r + 1].said \in Versions
             /\ Sample(t)[r] = got[r + 1].said
  <2>1. r + 1 \in 1..Len(got) /\ (r + 1) - 1 = r
    BY <1>7, FeedTypes DEF Rows
  <2>2. got[r + 1] \in CP!Replies
    BY <1>1, <2>1
  <2>3. got[r + 1].said \in Versions
    BY <2>2 DEF CP!Replies
  <2>4. got[r + 1].pos = (r + 1) - 1
    BY <1>6, <2>1
  <2>. QED
    BY <2>1, <2>3, <2>4 DEF Sample
<1>9. Sample(t) \in [Rows -> Versions]
  BY <1>8 DEF Sample
<1>10. ASSUME NEW r \in Rows
       PROVE  Ordered(dump[r], got, Tail(box), now[r], r)
  <2>1. Ordered(dump[r], parts[t], box, now[r], r)
    BY DEF FeedInv, InOrder
  <2>. HIDE DEF box
  <2>. QED
    BY <1>1, <2>1, OrderedTake
<1>. HIDE DEF got
<1>11. ASSUME NEW r \in Rows
       PROVE  /\ Ordered(got[r + 1].said, << >>, Tail(box), now[r], r)
              /\ dump[r] <= got[r + 1].said /\ got[r + 1].said <= now[r]
  BY <1>8, <1>10, OrderedStore
<1>. QED
  BY <1>1, <1>8, <1>9, <1>11

\* A dump is stored, or thrown away because it is the one that is stored.
LEMMA PollReturnKeeps ==
    ASSUME FeedInv, NEW t \in Readers, PollReturns(t), UNCHANGED now
    PROVE  /\ InOrder' /\ Genuine' /\ dump' \in [Rows -> Versions \cup {-1}]
           /\ dump' \in [Rows -> Int]
           /\ \A r \in Rows : dump'[r] # dump[r] => dump[r] < dump'[r] /\ dump'[r] <= now[r]
<1>1. /\ C!Completes(t) /\ C!Finish(t) /\ Moves(t) /\ Absorb(Sample(t))
  BY DEF PollReturns, Moves
<1>0. dump \in [Rows -> Versions \cup {-1}] /\ dump \in [Rows -> Int]
  <2>1. Versions \cup {-1} \subseteq Int
    BY InfoFeedAssumption DEF Versions
  <2>. QED
    BY <2>1 DEF FeedInv
<1>2. CASE UNCHANGED dump
  BY <1>0, <1>1, <1>2, MoveKeeps
<1>3. CASE dump' = Sample(t)
  <2>1. /\ Sample(t) \in [Rows -> Versions]
        /\ \A r \in Rows :
            /\ Ordered(Sample(t)[r], << >>, inbox'[Link], now[r], r)
            /\ dump[r] <= Sample(t)[r] /\ Sample(t)[r] <= now[r]
    BY <1>1, SampleIsHeard
  <2>2. \A p \in Readers : parts'[p] = << >>
    <3>1. at[t] = "exchange" /\ parts \in [Readers -> Seq(CP!Replies)]
      BY <1>1, TakesOldest, FeedTypes DEF FeedInv
    <3>2. parts' = [parts EXCEPT ![t] = << >>]
      BY <1>1 DEF C!Finish, C!Over
    <3>. QED
      BY <3>1, <3>2, OneDumpAtATime DEF FeedInv
  <2>3. InOrder'
    <3>1. ASSUME NEW p \in Readers, NEW r \in Rows
          PROVE  Ordered(dump'[r], parts'[p], inbox'[Link], now'[r], r)
      BY <1>3, <2>1, <2>2
    <3>. QED
      BY <3>1 DEF InOrder
  <2>4. Genuine'
    <3>1. /\ inbox[Link] # << >> /\ inbox[Link] \in Seq(CP!XP!Answers) /\ inbox'[Link] = Tail(inbox[Link])
      BY <1>1, TakesOldest DEF FeedInv
    <3>2. \A i \in 1..Len(inbox'[Link]) : inbox'[Link][i] = inbox[Link][i + 1] /\ i + 1 \in 1..Len(inbox[Link])
      BY <3>1
    <3>3. UNCHANGED wire
      BY <1>1 DEF C!Finish, C!X!Return, C!X!Receives
    <3>. QED
      BY <3>2, <3>3 DEF FeedInv, Genuine, Honest
  <2>5. dump' \in [Rows -> Versions \cup {-1}] /\ dump' \in [Rows -> Int]
    <3>1. Versions \subseteq Versions \cup {-1} /\ Versions \subseteq Int
      BY InfoFeedAssumption DEF Versions
    <3>. QED
      BY <1>3, <2>1, <3>1
  <2>6. \A r \in Rows : dump'[r] # dump[r] => dump[r] < dump'[r] /\ dump'[r] <= now[r]
    <3>1. \A r \in Rows : dump[r] \in Int /\ dump'[r] \in Int
      BY <2>5, FeedTypes
    <3>. QED
      BY <1>3, <2>1, <3>1
  <2>. QED
    BY <2>3, <2>4, <2>5, <2>6
<1>. QED
  BY <1>1, <1>2, <1>3 DEF Absorb

\* The gateway says what its rows say now.
LEMMA AnswerKeeps ==
    ASSUME FeedInv, Answer
    PROVE  InOrder' /\ Genuine'
<1>. DEFINE r == Head(wire[Link]).req
            row == C!Dump(r).next
            said == IF row \in Rows THEN now[row] ELSE 0
            answer == [id |-> Head(wire[Link]).id, req |-> r, reply |-> C!Reply(r, said)]
<1>1. /\ wire[Link] # << >> /\ wire[Link] \in Seq(CP!XP!Messages) /\ inbox[Link] \in Seq(CP!XP!Answers)
      /\ wire \in [{Link} -> Seq(CP!XP!Messages)] /\ inbox \in [{Link} -> Seq(CP!XP!Answers)]
  BY FeedTypes DEF Answer
<1>2. /\ C!X!Answer(Link, C!Reply(r, said))
      /\ UNCHANGED <<now, dump, parts>>
  BY DEF Answer, C!AnswerSaying
<1>3. /\ inbox'[Link] = Append(inbox[Link], answer) /\ wire'[Link] = Tail(wire[Link])
  BY <1>1, <1>2 DEF C!X!Answer
<1>4. r.kind = "info" /\ r \in CP!Requests
  <2>1. Head(wire[Link]) = wire[Link][1] /\ 1 \in 1..Len(wire[Link]) /\ wire[Link][1] \in CP!XP!Messages
    BY <1>1
  <2>. QED
    BY <2>1 DEF FeedInv, Genuine, CP!XP!Messages
<1>5. /\ answer.reply.pos = row /\ answer.reply.said = said
      /\ Honest(answer.reply)
  BY <1>4 DEF C!Reply, C!Chunk, Honest
<1>6. answer \in CP!XP!Answers
  <2>1. inbox'[Link] \in Seq(CP!XP!Answers)
    <3>1. CP!XP!Inv'
      <4>1. CP!Inv'
        <5>1. [CP!Next]_(CP!vars)
          BY OperationStep DEF FeedInv, Next
        <5>. QED
          BY <5>1, ClientAssumption, CP!InvStep DEF FeedInv
      <4>. QED
        BY <4>1 DEF CP!Inv, CP!BaseInv
    <3>. QED
      BY <3>1 DEF CP!XP!Inv, CP!XP!TypeOK
  <2>2. inbox'[Link][Len(inbox[Link]) + 1] = answer /\ Len(inbox[Link]) + 1 \in 1..Len(inbox'[Link])
    <3>. HIDE DEF answer
    <3>. QED
      BY <1>1, <1>3
  <2>. QED
    BY <2>1, <2>2, CP!ElementType
<1>. HIDE DEF answer, said, row, r
<1>7. ASSUME NEW p \in Readers, NEW k \in Rows
      PROVE  Ordered(dump[k], parts[p], Append(inbox[Link], answer), now[k], k)
  <2>1. answer.reply.pos = k => answer.reply.said = now[k]
    BY <1>5 DEF said
  <2>2. Ordered(dump[k], parts[p], inbox[Link], now[k], k)
    BY DEF FeedInv, InOrder
  <2>. QED
    BY <1>1, <1>6, <2>1, <2>2, FeedTypes, OrderedAnswer
<1>8. Genuine'
  <2>1. \A i \in 1..Len(inbox'[Link]) :
            (i \in 1..Len(inbox[Link]) /\ inbox'[Link][i] = inbox[Link][i]) \/ inbox'[Link][i] = answer
    BY <1>1, <1>3
  <2>2. \A i \in 1..Len(wire'[Link]) : wire'[Link][i] = wire[Link][i + 1] /\ i + 1 \in 1..Len(wire[Link])
    BY <1>1, <1>3
  <2>. QED
    BY <1>5, <2>1, <2>2 DEF FeedInv, Genuine, Honest
<1>. QED
  BY <1>2, <1>3, <1>7, <1>8 DEF InOrder

\* A row gets a new version.
LEMMA ChangeKeeps ==
    ASSUME FeedInv, NEW x \in Rows, Change(x)
    PROVE  InOrder' /\ Genuine' /\ now' \in [Rows -> Versions]
<1>1. /\ now[x] < MaxVersion /\ now' = [now EXCEPT ![x] = now[x] + 1]
      /\ UNCHANGED <<inbox, wire, parts, dump>>
  BY DEF Change, exchange, operations
<1>2. now \in [Rows -> Versions] /\ now[x] + 1 \in Versions
  BY <1>1, InfoFeedAssumption DEF FeedInv, Versions
<1>3. now' \in [Rows -> Versions]
  BY <1>1, <1>2
<1>4. ASSUME NEW p \in Readers, NEW r \in Rows
      PROVE  Ordered(dump[r], parts[p], inbox[Link], now'[r], r)
  <2>1. Ordered(dump[r], parts[p], inbox[Link], now[r], r)
    BY DEF FeedInv, InOrder
  <2>2. now'[r] = now[r] \/ now'[r] = now[r] + 1
    BY <1>1, <1>2
  <2>3. parts[p] \in Seq(CP!Replies)
    BY FeedTypes
  <2>4. Ordered(dump[r], parts[p], inbox[Link], now[r] + 1, r)
    BY <2>1, <2>3, FeedTypes, OrderedChange
  <2>. QED
    BY <2>1, <2>2, <2>4
<1>. QED
  BY <1>1, <1>3, <1>4 DEF FeedInv, InOrder, Genuine, Honest

\* Every step of the feed keeps the invariant, and what it does to the stored
\* dump is a step of the mirror of the gateway.
LEMMA FeedStep == FeedInv /\ [Next]_vars => FeedInv' /\ [Gateway!Next]_(Gateway!vars)
<1>. SUFFICES ASSUME FeedInv, [Next]_vars
              PROVE  FeedInv' /\ [Gateway!Next]_(Gateway!vars)
  OBVIOUS
<1>. DEFINE Kept == /\ InOrder' /\ Genuine'
                    /\ now' \in [Rows -> Versions] /\ dump' \in [Rows -> Versions \cup {-1}]
            Mirrored == [Gateway!Next]_(Gateway!vars)
<1>1. CP!Inv'
  <2>1. [CP!Next]_(CP!vars)
    BY OperationStep DEF FeedInv
  <2>. QED
    BY <2>1, ClientAssumption, CP!InvStep DEF FeedInv
<1>. SUFFICES Kept /\ Mirrored
  BY <1>1 DEF FeedInv
<1>2. ASSUME UNCHANGED <<now, dump>>, InOrder' /\ Genuine'
      PROVE  Kept /\ Mirrored
  BY <1>2 DEF FeedInv, Gateway!vars
<1>3. ASSUME NEW t \in Readers, Moves(t), UNCHANGED <<now, dump>>
      PROVE  Kept /\ Mirrored
  BY <1>2, <1>3, MoveKeeps
<1>4. ASSUME NEW t \in Readers, PollReturns(t), UNCHANGED now
      PROVE  Kept /\ Mirrored
  <2>1. /\ InOrder' /\ Genuine' /\ dump' \in [Rows -> Versions \cup {-1}]
        /\ dump' \in [Rows -> Int]
        /\ \A r \in Rows : dump'[r] # dump[r] => dump[r] < dump'[r] /\ dump'[r] <= now[r]
    BY <1>4, PollReturnKeeps
  <2>2. Gateway!Refresh
    BY <1>4, <2>1 DEF Gateway!Refresh
  <2>. QED
    BY <1>4, <2>1, <2>2 DEF FeedInv, Gateway!Next
<1>5. \A i \in 1..Len(wire[Link]) : wire[Link][i].req.kind = "info"
  BY DEF FeedInv, Genuine
<1>6. ASSUME UNCHANGED <<inbox, parts, now, dump>>, wire'[Link] \in {wire[Link], << >>}
      PROVE  Kept /\ Mirrored
  <2>1. \A i \in 1..Len(wire'[Link]) : wire'[Link][i].req.kind = "info"
    BY <1>5, <1>6
  <2>. QED
    BY <1>2, <1>6, <2>1, QuietKeeps
<1>7. ASSUME NEW l \in Loops, LoopStep(l)
      PROVE  Kept /\ Mirrored
  <2>1. CASE PollReturns(l)
    BY <1>4, <1>7, <2>1 DEF LoopStep, Readers
  <2>2. CASE ~PollReturns(l)
    BY <1>3, <1>7, <2>2 DEF LoopStep, PollBegins, PollGoesOn, PollRaises, Moves, Readers
  <2>. QED
    BY <2>1, <2>2
<1>8. ASSUME NEW l \in Loops, LoopCancelled(l)
      PROVE  Kept /\ Mirrored
  <2>1. CASE C!Cancel(l)
    BY <1>3, <1>8, <2>1 DEF LoopCancelled, Moves, Readers
  <2>2. CASE ~C!Cancel(l)
    BY <1>6, <1>8, <2>2 DEF LoopCancelled, exchange, operations
  <2>. QED
    BY <2>1, <2>2
<1>9. ASSUME NEW p \in Pollers, PollerStep(p)
      PROVE  Kept /\ Mirrored
  <2>1. CASE PollReturns(p)
    BY <1>4, <1>9, <2>1 DEF PollerStep, Readers
  <2>2. CASE ~PollReturns(p)
    BY <1>3, <1>9, <2>2 DEF PollerStep, PollBegins, PollGoesOn, PollRaises, Moves, Readers
  <2>. QED
    BY <2>1, <2>2
<1>10. CASE Answer
  BY <1>2, <1>10, AnswerKeeps DEF Answer
<1>11. CASE LinkStep
  <2>1. wire'[Link] \in {wire[Link], << >>} /\ UNCHANGED <<inbox, parts, now, dump>>
    <3>1. wire \in [{Link} -> Seq(CP!XP!Messages)]
      BY FeedTypes
    <3>. QED
      BY <1>11, <3>1 DEF LinkStep, C!LinkStep, C!X!AClose, C!X!CloseDone, C!X!Drop, C!X!Closed, C!X!client
  <2>. QED
    BY <1>6, <2>1
<1>12. ASSUME NEW r \in Rows, Change(r)
       PROVE  Kept /\ Mirrored
  <2>1. UNCHANGED dump /\ Gateway!Change(r)
    BY <1>12 DEF Change, Gateway!Change
  <2>. QED
    BY <1>12, <2>1, ChangeKeeps DEF FeedInv, Gateway!Next
<1>13. CASE ManagingStep \/ UNCHANGED vars
  BY <1>6, <1>13 DEF ManagingStep, vars, exchange, operations
<1>. QED
  BY <1>7, <1>8, <1>9, <1>10, <1>11, <1>12, <1>13 DEF Next

\* In the beginning the client is connected, nothing was said and no dump is
\* stored.
LEMMA FeedInit == Init => FeedInv /\ Gateway!Init
<1>. SUFFICES ASSUME Init PROVE FeedInv /\ Gateway!Init
  OBVIOUS
<1>1. CP!Inv
  <2>1. CP!Init
    BY DEF Init, C!Init, CP!Init, C!X!Connected, CP!X!Connected, C!X!Quiet, CP!X!Quiet,
        C!Targets, CP!Targets, C!Ops, CP!Ops
  <2>. QED
    BY <2>1, ClientAssumption, CP!InvInit
<1>2. /\ now = [r \in Rows |-> 0] /\ dump = [r \in Rows |-> -1] /\ 0 \in Versions
      /\ wire[Link] = << >> /\ inbox[Link] = << >> /\ \A p \in Readers : parts[p] = << >>
  BY InfoFeedAssumption DEF Init, NoDump, Versions, C!Init, C!X!Connected, C!X!Quiet
<1>3. Genuine /\ InOrder
  BY <1>2 DEF Genuine, InOrder, Ordered
<1>4. FeedInv
  BY <1>1, <1>2, <1>3 DEF FeedInv
<1>. QED
  BY <1>2, <1>4 DEF Gateway!Init

LEMMA FeedInvariance == Spec => []FeedInv
BY FeedInit, FeedStep, PTL DEF Spec

\* However polls overlap, fail and are cancelled, and even when sent requests
\* were abandoned: every row of the stored dump says what it has said at the
\* gateway, and steps only forward (feed.py:317-326).
THEOREM DumpMirrorsGateway == Spec => MirrorsGateway
<1>1. FeedInv /\ [Next]_vars => [Gateway!Next]_(Gateway!vars)
  BY FeedStep
<1>. QED
  BY <1>1, FeedInit, FeedInvariance, PTL DEF Spec, MirrorsGateway, Gateway!Spec

-----------------------------------------------------------------------------
(* What the bus gets, and why a poll fails *)

BP == INSTANCE EventBusProofs WITH
        Consumers <- {},
        Updates <- [Rows -> Versions],
        MaxEvents <- 0

\* The inductive invariant of what is published: FeedInv says that it is rows
\* of the gateway.
LogInv == BP!Inv /\ DumpIsLastEvent

\* One dump behind those published before.
LEMMA PublishOne ==
    ASSUME BP!Inv, NEW rows \in [Rows -> Versions], B!PublishAll(<<rows>>)
    PROVE  /\ BP!Inv'
           /\ log \in Seq(BP!Events) /\ Len(log') = Len(log) + 1
           /\ log'[Len(log) + 1].update = rows
           /\ \A i \in 1..Len(log) : log'[i] = log[i]
<1>. DEFINE us == <<rows>>
            new == BP!Numbered(us)
<1>1. us \in Seq([Rows -> Versions]) /\ Len(us) = 1 /\ us[1] = rows
  OBVIOUS
<1>2. BP!PublishAll(us)
  BY DEF B!PublishAll, BP!PublishAll, B!Numbered, BP!Numbered
<1>. HIDE DEF us
<1>3. log \in Seq(BP!Events) /\ new \in Seq(BP!Events)
  BY <1>1, BP!NumberedProperties DEF BP!Inv, BP!TypeOK
<1>4. Len(new) = 1 /\ new[1].update = rows
  BY <1>1 DEF BP!Numbered
<1>5. log' = log \o new
  BY <1>2 DEF BP!PublishAll
<1>. HIDE DEF new
<1>6. Len(log') = Len(log) + 1 /\ log'[Len(log) + 1] = new[1] /\ \A i \in 1..Len(log) : log'[i] = log[i]
  <2>1. /\ Len(log \o new) = Len(log) + Len(new)
        /\ \A i \in 1..Len(log) + Len(new) :
                (log \o new)[i] = IF i <= Len(log) THEN log[i] ELSE new[i - Len(log)]
    BY <1>3, ConcatProperties
  <2>2. Len(log) \in Nat
    BY <1>3
  <2>. QED
    BY <1>4, <1>5, <2>1, <2>2
<1>. QED
  BY <1>1, <1>2, <1>3, <1>4, <1>6, BP!PublishStep

\* A poll publishes what it stores, and nothing else does.
LEMMA LogStep == FeedInv /\ LogInv /\ [Next]_vars => LogInv'
<1>. SUFFICES ASSUME FeedInv, LogInv, [Next]_vars PROVE LogInv'
  OBVIOUS
<1>1. ASSUME UNCHANGED <<bus, dump>>
      PROVE  LogInv'
  <2>1. UNCHANGED BP!vars
    BY <1>1 DEF bus, BP!vars
  <2>2. BP!Inv'
    BY <2>1, BP!InvStep DEF LogInv
  <2>. QED
    BY <1>1, <2>2 DEF LogInv, DumpIsLastEvent, bus
<1>2. ASSUME NEW t \in Readers, PollReturns(t)
      PROVE  LogInv'
  <2>. DEFINE rows == Sample(t)
  <2>1. rows \in [Rows -> Versions] /\ Absorb(rows)
    BY <1>2, SampleIsHeard DEF PollReturns
  <2>. HIDE DEF rows
  <2>2. CASE dump = rows
    BY <1>1, <2>1, <2>2 DEF Absorb
  <2>3. CASE dump # rows
    <3>1. dump' = rows /\ B!PublishAll(<<rows>>)
      BY <2>1, <2>3 DEF Absorb
    <3>2. /\ BP!Inv'
          /\ log \in Seq(BP!Events) /\ Len(log') = Len(log) + 1
          /\ log'[Len(log) + 1].update = rows
          /\ \A i \in 1..Len(log) : log'[i] = log[i]
      BY <2>1, <3>1, PublishOne DEF LogInv
    <3>3. Len(log) \in Nat /\ log' # << >> /\ Last(log') = log'[Len(log) + 1]
      BY <3>2 DEF Last
    <3>4. dump = IF log = << >> THEN NoDump ELSE log[Len(log)].update
      BY DEF LogInv, DumpIsLastEvent, Last
    <3>5. ASSUME NEW i \in 2..Len(log')
          PROVE  log'[i - 1].update # log'[i].update
      <4>1. CASE i \in 2..Len(log)
        <5>1. i - 1 \in 1..Len(log) /\ i \in 1..Len(log)
          BY <3>3, <4>1
        <5>. QED
          BY <3>2, <4>1, <5>1 DEF LogInv, DumpIsLastEvent
      <4>2. CASE i = Len(log) + 1
        <5>1. Len(log) \in 1..Len(log) /\ i - 1 = Len(log) /\ log # << >>
          BY <3>2, <3>3, <3>5, <4>2
        <5>. QED
          BY <2>3, <3>2, <3>4, <4>2, <5>1
      <4>. QED
        BY <3>2, <3>3, <4>1, <4>2
    <3>6. DumpIsLastEvent'
      BY <3>1, <3>2, <3>3, <3>5 DEF DumpIsLastEvent
    <3>. QED
      BY <3>2, <3>6 DEF LogInv
  <2>. QED
    BY <2>2, <2>3
<1>3. ASSUME NEW l \in Loops, LoopStep(l)
      PROVE  LogInv'
  BY <1>1, <1>2, <1>3 DEF LoopStep, PollBegins, PollGoesOn, PollRaises, Readers
<1>4. ASSUME NEW p \in Pollers, PollerStep(p)
      PROVE  LogInv'
  BY <1>1, <1>2, <1>4 DEF PollerStep, PollBegins, PollGoesOn, PollRaises, Readers
<1>5. CASE \/ Answer \/ LinkStep \/ ManagingStep \/ (\E r \in Rows : Change(r))
           \/ (\E l \in Loops : LoopCancelled(l)) \/ UNCHANGED vars
  BY <1>1, <1>5 DEF Answer, LinkStep, ManagingStep, Change, LoopCancelled, vars
<1>. QED
  BY <1>3, <1>4, <1>5 DEF Next

LEMMA LogInit == Init => LogInv
<1>. SUFFICES ASSUME Init PROVE LogInv
  OBVIOUS
<1>1. BP!Inv
  <2>1. BP!Init
    BY DEF Init, B!Init, BP!Init
  <2>. QED
    BY <2>1, BP!InvInit
<1>2. log = << >> /\ Len(log) = 0 /\ dump = NoDump
  BY DEF Init, B!Init
<1>. QED
  BY <1>1, <1>2 DEF LogInv, DumpIsLastEvent

LEMMA LogInvariance == Spec => []LogInv
BY FeedInvariance, LogInit, LogStep, PTL DEF Spec

\* The stored dump is always the one published last, and nothing is published
\* twice in a row, although polls overlap and each compares with the dump that
\* another one may have stored (feed.py:317-326).
THEOREM StoredIsPublished == Spec => []DumpIsLastEvent
<1>1. LogInv => DumpIsLastEvent
  BY DEF LogInv
<1>. QED
  BY <1>1, LogInvariance, PTL

\* The feed, its task, the operations below it and the bus above it keep their
\* types together.
THEOREM InfoFeedTypeCorrect == Spec => []TypeOK
<1>1. FeedInv => C!TypeOK
  <2>1. CP!TypeOK => C!TypeOK
    <3>1. CP!X!TypeOK => C!X!TypeOK
      BY DEF CP!X!TypeOK, C!X!TypeOK, CP!X!Messages, C!X!Messages, CP!X!Answers, C!X!Answers,
          CP!X!CallIds, C!X!CallIds, CP!Requests, C!Requests, CP!Replies, C!Replies,
          CP!Kinds, C!Kinds, CP!Targets, C!Targets, CP!Ops, C!Ops, CP!Editions, C!Editions
    <3>. QED
      BY <3>1 DEF CP!TypeOK, C!TypeOK, CP!Replies, C!Replies, CP!Kinds, C!Kinds,
          CP!Targets, C!Targets, CP!Ops, C!Ops, CP!Editions, C!Editions
  <2>. QED
    BY <2>1 DEF FeedInv, CP!Inv, CP!BaseInv
<1>2. LogInv => B!TypeOK
  BY DEF LogInv, BP!Inv, BP!TypeOK, B!TypeOK, BP!Events, B!Events
<1>3. FeedInv /\ LogInv /\ LifeInv => TypeOK
  BY <1>1, <1>2 DEF FeedInv, LifeInv, TypeOK
<1>. QED
  BY <1>3, FeedInvariance, LogInvariance, InfoFeedHasTask, LifeInvHolds, PTL

\* The gateway's answers never make a poll fail: every chunk that a poll takes
\* is the next one of its own dump, whoever else polls.  So a loop that was not
\* told to stop ends only with the connection, or when a sent request was
\* abandoned (feed.py:350-352).
THEOREM LoopFailsForAReason == Spec => FailsForAReason
<1>. DEFINE Reason == socket = None \/ conn[Link] # "open" \/ abandoned # {}
<1>1. ASSUME FeedInv, LifeInv, [Next]_vars, NEW l \in Loops, Runs(l), phase'[l] = "done"
      PROVE  Reason
  <2>1. phase[l] # "done" /\ l \notin doomed /\ phase \in [Loops -> {"unborn", "created", "polling", "sleeping", "done"}]
    BY <1>1 DEF Runs, Live, LifeInv, LifeTypeOK
  <2>2. l \in Readers /\ PollRaises(l)
    <3>1. ASSUME NEW k \in Loops, LoopStep(k)
          PROVE  k = l /\ PollRaises(l)
      BY <1>1, <2>1, <3>1 DEF LoopStep, Begins, Sleeps, Raises, life
    <3>2. ASSUME NEW k \in Loops, LoopCancelled(k)
          PROVE  FALSE
      BY <1>1, <2>1, <3>2 DEF LoopCancelled, Cancelled
    <3>3. ~ManagingStep
      BY <1>1, <2>1 DEF ManagingStep, Managing, Start, Stop, StopAtOnce, StopReturns
    <3>4. ~(UNCHANGED phase)
      BY <1>1, <2>1
    <3>. QED
      BY <1>1, <3>1, <3>2, <3>3, <3>4 DEF Next, PollerStep, Answer, LinkStep, Change, vars, life, Readers
  <2>3. CASE C!NotConnected(l)
    BY <2>3 DEF C!NotConnected
  <2>4. CASE C!Fail(l)
    <3>1. pc[l] \in {"queued", "waiting"} /\ conn[on[l]] = "closed"
      BY <2>4 DEF C!Fail, C!X!SendFails, C!X!ReceiveFails
    <3>2. on[l] = Link
      BY <1>1, <2>2, <3>1 DEF FeedInv, CP!Inv, CP!BaseInv, CP!XP!Inv, CP!XP!Pairing, CP!XP!CallersHold,
          CP!XP!InExchange, CP!Users
    <3>. QED
      BY <3>1, <3>2
  <2>5. CASE C!Receiving(l) /\ ~C!Completes(l) /\ C!Finish(l)
    <3>1. CP!Receiving(l) /\ ~CP!Completes(l) /\ CP!Finish(l)
      BY <2>2, <2>5, SameOperation
    <3>2. CP!NoSpuriousError
      BY <1>1, ClientAssumption, CP!NeverRefused DEF FeedInv
    <3>3. abandoned = {} => CP!WantsMore(l)
      BY <2>2, <3>1, <3>2 DEF CP!NoSpuriousError
    <3>. QED
      BY <3>1, <3>3 DEF CP!Finish
  <2>. QED
    BY <2>2, <2>3, <2>4, <2>5 DEF PollRaises
<1>2. FeedInv /\ LifeInv /\ [Next]_vars =>
        (\A l \in Loops : Runs(l) /\ phase'[l] = "done" => Reason)
  BY <1>1
<1>. QED
  BY <1>2, FeedInvariance, InfoFeedHasTask, LifeInvHolds, PTL DEF Spec, FailsForAReason

=============================================================================
