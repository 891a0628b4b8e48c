-------------------------- MODULE AtmosClientProofs -------------------------
(***************************************************************************)
(* Proofs about AtmosClient, for any callers, scripts, connection, number  *)
(* of chunks and answers: the type invariant, the data lock, and that a    *)
(* dump or a file is whole and no operation is refused its frame.          *)
(***************************************************************************)
EXTENDS AtmosClient, SequenceTheorems, TLAPS

XP == INSTANCE ExchangeProofs WITH
        Tasks <- Tasks \cup {App},
        Connectors <- {App},
        MayCancel <- Impatient,
        Sockets <- {Link},
        Silent <- {r \in Requests : r.kind = "read"}

-----------------------------------------------------------------------------
(* The invariant *)

Users == Tasks \cup {App}

\* Where a task is in its operation, and what it asks for there.
Placed ==
    /\ \A t \in Users : XP!InExchange(t) <=> t \in Tasks /\ at[t] = "exchange"
    /\ \A t \in Tasks :
        /\ at[t] # "between" => step[t] <= Len(Script[t])
        /\ at[t] = "datalock" => Locked(Op(t))
        /\ at[t] # "exchange" => parts[t] = << >>
        /\ at[t] = "exchange" => req[t] = Ask(Op(t), parts[t])

Holders == {t \in Tasks : WithDataLock(t)}

\* Who is in the data lock's queue, and who heads it.
DataLockKept ==
    /\ XP!Lines(data_lock, Holders)
    /\ \A t \in Tasks : at[t] = "exchange" /\ Locked(Op(t)) => Head(data_lock) = t

Transfer(op) == op.name \in {"info", "file"}

Unending(op) == op.name = "info" /\ op.of \in Endless

\* The chunks ps are the beginning of the transfer op, and not all of it.
InProgress(op, ps) ==
    /\ ps # << >> => Transfer(op)
    /\ \A i \in 1..Len(ps) :
        /\ ps[i].of = op.of
        /\ ps[i].pos = i - 1
        /\ ps[i].edition = ps[1].edition
        /\ op.name = "file" => ps[i].edition = 0
        /\ Unending(op) \/ i # Chunks

\* The answer b is what the operation op has to get after the chunks ps.
Wanted(op, ps, b) ==
    /\ ~Transfer(op) => b.kind = op.name
    /\ op.name = "info" => b.kind = "info"
    /\ op.name = "file" => b.kind = "file" \/ op.of \in Missing
    /\ Transfer(op) =>
        /\ b.of = op.of
        /\ b.pos = Len(ps)
        /\ b.last <=> Len(ps) = Chunks - 1 /\ ~Unending(op)
        /\ ps # << >> => b.edition = ps[1].edition
        /\ op.name = "file" => b.edition = 0

Answered(t) == pc[t] = "waiting" /\ inbox[Link] # << >>

\* The gateway's dump in progress is the one of task t, as far as t has got or
\* is about to get.
CursorFollows(t) ==
    /\ Answered(t) =>
        cursor = [of |-> Op(t).of, next |-> Len(parts[t]) + 1,
                  edition |-> Head(inbox[Link]).reply.edition]
    /\ ~Answered(t) /\ parts[t] # << >> =>
        cursor = [of |-> Op(t).of, next |-> Len(parts[t]), edition |-> parts[t][1].edition]

Follows(t) ==
    /\ InProgress(Op(t), parts[t])
    /\ pc[t] = "waiting" /\ wire[Link] # << >> => Head(wire[Link]).req = req[t]
    /\ Answered(t) => Wanted(Op(t), parts[t], Head(inbox[Link]).reply)
    /\ Op(t).name = "info" => CursorFollows(t)

Transfers == abandoned = {} => \A t \in Tasks : at[t] = "exchange" => Follows(t)

BaseInv ==
    /\ TypeOK
    /\ XP!Inv
    /\ Placed
    /\ DataLockKept

Inv == BaseInv /\ Transfers

-----------------------------------------------------------------------------
(* Types *)

\* The client is used as Exchange assumes.
LEMMA ClientAssumption == XP!ExchangeAssumption
BY AtmosClientAssumption DEF XP!ExchangeAssumption

\* An operation of a script has a kind and a target that a request can have.
LEMMA OpType ==
    ASSUME TypeOK, NEW t \in Tasks, step[t] <= Len(Script[t])
    PROVE  Op(t) \in Ops /\ Op(t).name \in Kinds /\ Op(t).of \in Targets
<1>1. Script[t] \in Seq(Ops) /\ step[t] \in 1..Len(Script[t])
  BY AtmosClientAssumption DEF TypeOK
<1>2. Op(t) \in Ops
  BY <1>1 DEF Op
<1>. QED
  BY <1>2, AtmosClientAssumption DEF Targets

\* Elements of a sequence.
LEMMA ElementType ==
    ASSUME NEW S, NEW s \in Seq(S)
    PROVE  \A i \in 1..Len(s) : s[i] \in S
OBVIOUS

\* What an operation asks for is a request.
LEMMA AskType ==
    ASSUME NEW op, op.name \in Kinds, op.of \in Targets, NEW ps \in Seq(Replies)
    PROVE  Ask(op, ps) \in Requests
<1>1. CASE op.name = "file" /\ ps # << >>
  <2>1. Len(ps) \in 1..Len(ps) /\ Len(ps) \in Nat /\ Last(ps) = ps[Len(ps)]
    BY <1>1 DEF Last
  <2>2. Last(ps) \in Replies
    BY <2>1, ElementType
  <2>3. Last(ps).of \in Targets
    BY <2>2 DEF Replies
  <2>. QED
    BY <1>1, <2>1, <2>3 DEF Ask, Requests
<1>2. CASE ~(op.name = "file" /\ ps # << >>)
  BY <1>2 DEF Ask, Requests
<1>. QED
  BY <1>1, <1>2

\* What a task that waits for a frame takes is an answer of the connection.
LEMMA ReceivedType ==
    ASSUME BaseInv, NEW t \in Tasks, X!Receives(t)
    PROVE  /\ at[t] = "exchange" /\ pc[t] = "waiting" /\ on[t] = Link
           /\ inbox[Link] # << >> /\ inbox[Link] \in Seq(XP!Answers)
           /\ X!Received(t) = Head(inbox[Link])
           /\ inbox'[Link] = Tail(inbox[Link])
           /\ X!Received(t).reply \in Replies
           /\ Got(t) \in Seq(Replies)
<1>1. pc[t] = "waiting" /\ inbox[on[t]] # << >> /\ inbox' = [inbox EXCEPT ![on[t]] = Tail(@)]
  BY DEF X!Receives
<1>2. on[t] = Link /\ at[t] = "exchange"
  BY <1>1 DEF BaseInv, XP!Inv, XP!Pairing, XP!CallersHold, XP!InExchange, Placed, Users
<1>3. inbox[Link] \in Seq(XP!Answers) /\ inbox'[Link] = Tail(inbox[Link])
  BY <1>1, <1>2 DEF BaseInv, XP!Inv, XP!TypeOK
<1>4. Head(inbox[Link]) \in XP!Answers
  BY <1>1, <1>2, <1>3
<1>5. Head(inbox[Link]).reply \in Replies
  BY <1>4 DEF XP!Answers
<1>6. parts[t] \in Seq(Replies)
  BY DEF BaseInv, TypeOK
<1>. QED
  BY <1>1, <1>2, <1>3, <1>5, <1>6 DEF X!Received, Got

\* What the gateway answers is a reply, and its dump has a target.
LEMMA ReplyType ==
    ASSUME TypeOK, NEW r \in Requests, NEW said \in Contents
    PROVE  Reply(r, said) \in Replies /\ Dump(r) \in [of : Targets, next : Nat, edition : Editions]
<1>1. Dump(r) \in [of : Targets, next : Nat, edition : Editions]
  BY DEF TypeOK, Dump, Requests, Editions
<1>2. Blank \in Contents
  BY AtmosClientAssumption DEF Blank
<1>3. r.of \in Targets /\ r.pos \in Nat /\ r.kind \in Kinds \cup {"ack"}
  BY DEF Requests
<1>4. /\ Dump(r).of \in Targets /\ Dump(r).next \in Nat /\ Dump(r).edition \in Editions
      /\ 0 \in Editions /\ 0 \in Nat
  BY <1>1 DEF Editions
<1>5. {"info", "file"} \subseteq Kinds
  BY DEF Kinds
<1>6. ASSUME NEW kind \in Kinds \cup {"error"}, NEW of \in Targets, NEW pos \in Nat,
             NEW edition \in Editions, NEW word \in Contents
      PROVE  Chunk(kind, of, pos, edition, word) \in Replies
  BY DEF Chunk, Replies
<1>. QED
  BY <1>1, <1>2, <1>3, <1>4, <1>5, <1>6 DEF Reply, Replies

-----------------------------------------------------------------------------
(* The client's steps *)

\* What one user of the client does in an exchange().
LEMMA UserStep ==
    ASSUME NEW t \in Tasks,
           \/ \E r \in Requests : X!ExchangeCall(t, r) \/ X!Continue(t, r)
           \/ X!Send(t) \/ X!SendFails(t) \/ X!Return(t) \/ X!ReceiveFails(t)
           \/ X!CancelQueued(t) \/ X!CancelWaiting(t)
    PROVE  XP!Next
<1>. SUFFICES XP!Exchanging(t)
  BY DEF XP!Next
<1>1. ASSUME NEW r \in Requests, X!ExchangeCall(t, r)
      PROVE  XP!Exchanging(t)
  <2>1. XP!ExchangeCall(t, r)
    BY <1>1 DEF X!ExchangeCall, XP!ExchangeCall, X!Ready, XP!Ready, X!Following, XP!Following
  <2>. QED
    BY <2>1 DEF XP!Exchanging
<1>2. CASE X!Send(t) \/ X!SendFails(t)
  <2>1. XP!Send(t) \/ XP!SendFails(t)
    BY <1>2 DEF X!Send, XP!Send, X!SendFails, XP!SendFails, X!Leave, XP!Leave,
        X!Owns, XP!Owns, X!MyId, XP!MyId
  <2>. QED
    BY <2>1 DEF XP!Exchanging
<1>3. ASSUME NEW r \in Requests, X!Continue(t, r)
      PROVE  XP!Exchanging(t)
  <2>1. XP!Continue(t, r)
    BY <1>3 DEF X!Continue, XP!Continue, X!Receives, XP!Receives, X!Following, XP!Following
  <2>. QED
    BY <2>1 DEF XP!Exchanging, XP!Receive
<1>4. CASE X!Return(t) \/ X!ReceiveFails(t)
  <2>1. XP!Return(t) \/ XP!ReceiveFails(t)
    BY <1>4 DEF X!Return, XP!Return, X!ReceiveFails, XP!ReceiveFails, X!Receives, XP!Receives,
        X!Leave, XP!Leave
  <2>. QED
    BY <2>1 DEF XP!Exchanging, XP!Receive
<1>5. CASE X!CancelQueued(t) \/ X!CancelWaiting(t)
  <2>1. XP!CancelQueued(t) \/ XP!CancelWaiting(t)
    BY <1>5 DEF X!CancelQueued, XP!CancelQueued, X!CancelWaiting, XP!CancelWaiting,
        X!Leave, XP!Leave, X!RemoveAt, XP!RemoveAt
  <2>. QED
    BY <2>1 DEF XP!Exchanging
<1>. QED
  BY <1>1, <1>2, <1>3, <1>4, <1>5

\* The first frame of an operation, and the next one of a transfer, are asked
\* for by a task that is in it.
LEMMA CallType ==
    ASSUME BaseInv, NEW t \in Tasks
    PROVE  /\ MayCall(t) => Ask(Op(t), << >>) \in Requests
           /\ NextChunk(t) => Ask(Op(t), Got(t)) \in Requests
           /\ at[t] # "between" => Ask(Op(t), parts[t]) \in Requests
<1>1. ASSUME MayCall(t) \/ at[t] # "between"
      PROVE  Op(t).name \in Kinds /\ Op(t).of \in Targets
  <2>1. step[t] <= Len(Script[t])
    BY <1>1 DEF MayCall, Waits, BaseInv, Placed
  <2>. QED
    BY <2>1, OpType DEF BaseInv
<1>2. << >> \in Seq(Replies) /\ parts[t] \in Seq(Replies)
  BY DEF BaseInv, TypeOK
<1>3. NextChunk(t) => Got(t) \in Seq(Replies) /\ at[t] # "between"
  BY ReceivedType DEF NextChunk, X!Continue
<1>. QED
  BY <1>1, <1>2, <1>3, AskType

\* What the operations and their surroundings do to the client is what the
\* tasks, the library and the gateway of Exchange do.
LEMMA ClientStep == BaseInv /\ [Next]_vars => [XP!Next]_(XP!vars)
<1>. SUFFICES ASSUME BaseInv, [Next]_vars
              PROVE  [XP!Next]_(XP!vars)
  OBVIOUS
<1>1. ASSUME UNCHANGED exchange
      PROVE  [XP!Next]_(XP!vars)
  BY <1>1 DEF exchange, XP!vars, XP!client
<1>2. ASSUME NEW t \in Tasks, Proceed(t)
      PROVE  [XP!Next]_(XP!vars)
  <2>1. CASE AskDataLock(t) \/ NotConnected(t)
    BY <1>1, <2>1 DEF AskDataLock, NotConnected
  <2>2. CASE Call(t)
    BY <2>2, CallType, UserStep DEF Call
  <2>3. CASE NextChunk(t)
    BY <2>3, CallType, UserStep DEF NextChunk
  <2>4. CASE Send(t) \/ Finish(t) \/ Fail(t)
    BY <2>4, UserStep DEF Send, Finish, Fail
  <2>. QED
    BY <1>2, <2>1, <2>2, <2>3, <2>4 DEF Proceed
<1>3. ASSUME NEW t \in Tasks, Cancel(t)
      PROVE  [XP!Next]_(XP!vars)
  BY <1>1, <1>3, UserStep DEF Cancel
<1>4. CASE Answer
  <2>1. PICK said \in Contents : AnswerSaying(said)
    BY <1>4 DEF Answer
  <2>2. Head(wire[Link]).req \in Requests /\ X!Answer(Link, Reply(Head(wire[Link]).req, said))
    <3>1. wire[Link] \in Seq(XP!Messages) /\ wire[Link] # << >>
      BY <2>1 DEF AnswerSaying, BaseInv, XP!Inv, XP!TypeOK
    <3>2. Head(wire[Link]) \in XP!Messages
      BY <3>1
    <3>. QED
      BY <2>1, <3>2 DEF XP!Messages, AnswerSaying
  <2>3. Reply(Head(wire[Link]).req, said) \in Replies
    BY <2>2, ReplyType DEF BaseInv
  <2>4. XP!Answer(Link, Reply(Head(wire[Link]).req, said))
    BY <2>2 DEF X!Answer, XP!Answer, X!Alive, XP!Alive, X!client, XP!client
  <2>. QED
    BY <2>3, <2>4 DEF XP!Next, XP!Environment, XP!Handle
<1>5. CASE Ignore
  <2>1. XP!Ignore(Link)
    BY <1>5 DEF Ignore, X!Ignore, XP!Ignore, X!Alive, XP!Alive, X!client, XP!client
  <2>. QED
    BY <2>1 DEF XP!Next, XP!Environment, XP!Handle
<1>6. CASE LinkStep
  <2>1. XP!AClose(App) \/ XP!CloseDone(Link) \/ XP!Drop(Link)
    BY <1>6 DEF LinkStep, X!AClose, XP!AClose, X!CloseDone, XP!CloseDone, X!Drop, XP!Drop,
        X!Closed, XP!Closed, X!Ready, XP!Ready, X!client, XP!client
  <2>. QED
    BY <2>1 DEF XP!Next, XP!Connecting, XP!Environment
<1>7. CASE UNCHANGED vars
  BY <1>1, <1>7 DEF vars
<1>. QED
  BY <1>2, <1>3, <1>4, <1>5, <1>6, <1>7 DEF Next

-----------------------------------------------------------------------------
(* What the steps do to the tasks *)

LEMMA SeqSubset ==
    ASSUME NEW S, NEW T, S \subseteq T, NEW q \in Seq(S)
    PROVE  q \in Seq(T)
OBVIOUS

\* Taking a task out of the queue of the data lock.
LEMMA WithoutOne ==
    ASSUME NEW q \in Seq(Tasks), NEW i \in 1..Len(q), NEW S, XP!Lines(q, S)
    PROVE  /\ RemoveAt(q, i) \in Seq(Tasks)
           /\ i # 1 => Head(RemoveAt(q, i)) = Head(q)
           /\ XP!Lines(RemoveAt(q, i), S \ {q[i]})
<1>1. RemoveAt(q, i) = XP!RemoveAt(q, i)
  BY DEF RemoveAt, XP!RemoveAt
<1>2. q \in Seq(Users)
  BY SeqSubset DEF Users
<1>3. XP!Lines(XP!RemoveAt(q, i), S \ {q[i]})
  BY <1>2, ClientAssumption, XP!LinesRemoveAt DEF Users
<1>. QED
  BY <1>1, <1>3, ClientAssumption, XP!RemoveAtType

\* An operation that ends: its task is in it and leaves exchange(), the data
\* lock and its chunks; others are left alone.
LEMMA OverEffect ==
    ASSUME BaseInv, NEW t \in Tasks,
           NotConnected(t) \/ Finish(t) \/ Fail(t) \/ Cancel(t)
    PROVE  /\ Over(t)
           /\ step[t] <= Len(Script[t])
           /\ Locked(Op(t)) <=> WithDataLock(t)
           /\ pc'[t] \notin {"queued", "waiting"}
           /\ \A u \in Users \ {t} : pc'[u] = pc[u] /\ req'[u] = req[u] /\ on'[u] = on[u]
           /\ UNCHANGED <<socket, conn, wire>>
<1>0. /\ pc \in [Users -> {"idle", "connecting", "connected", "queued", "waiting"}]
      /\ on \in [Users -> {Link} \cup {None}] /\ req \in [Users -> Requests \cup {None}]
      /\ t \in Users
  BY DEF BaseInv, XP!Inv, XP!TypeOK, Users
<1>1. CASE NotConnected(t)
  <2>1. Over(t) /\ UNCHANGED exchange /\ MayCall(t)
    BY <1>1 DEF NotConnected
  <2>2. at[t] # "exchange" /\ (Locked(Op(t)) <=> WithDataLock(t)) /\ step[t] <= Len(Script[t])
    BY <2>1 DEF MayCall, Waits, WithDataLock, BaseInv, Placed
  <2>3. pc[t] \notin {"queued", "waiting"}
    BY <2>2 DEF BaseInv, Placed, XP!InExchange, Users
  <2>. QED
    BY <2>1, <2>2, <2>3 DEF exchange
<1>2. ASSUME Over(t), X!Leave(t) \/ X!CancelQueued(t), at[t] = "exchange",
             UNCHANGED <<conn, wire>>
      PROVE  /\ step[t] <= Len(Script[t])
             /\ Locked(Op(t)) <=> WithDataLock(t)
             /\ pc'[t] \notin {"queued", "waiting"}
             /\ \A u \in Users \ {t} : pc'[u] = pc[u] /\ req'[u] = req[u] /\ on'[u] = on[u]
             /\ UNCHANGED socket
  <2>1. /\ pc' = [pc EXCEPT ![t] = "idle"] /\ on' = [on EXCEPT ![t] = None]
        /\ req' = [req EXCEPT ![t] = None] /\ UNCHANGED socket
    BY <1>2 DEF X!Leave, X!CancelQueued
  <2>2. step[t] <= Len(Script[t]) /\ (Locked(Op(t)) <=> WithDataLock(t))
    BY <1>2 DEF BaseInv, Placed, WithDataLock
  <2>. QED
    BY <1>0, <2>1, <2>2
<1>3. pc[t] \in {"queued", "waiting"} => at[t] = "exchange"
  BY DEF BaseInv, Placed, XP!InExchange, Users
<1>4. CASE Finish(t) \/ Fail(t)
  BY <1>2, <1>3, <1>4 DEF Finish, Fail, X!Return, X!Receives, X!SendFails, X!ReceiveFails
<1>5. CASE Cancel(t)
  <2>1. CASE at[t] = "datalock" /\ UNCHANGED exchange
    <3>1. step[t] <= Len(Script[t]) /\ (Locked(Op(t)) <=> WithDataLock(t))
      BY <2>1 DEF BaseInv, Placed, WithDataLock
    <3>2. pc[t] \notin {"queued", "waiting"}
      BY <2>1 DEF BaseInv, Placed, XP!InExchange, Users
    <3>. QED
      BY <1>5, <2>1, <3>1, <3>2 DEF exchange, Cancel
  <2>. QED
    BY <1>2, <1>3, <1>5, <2>1 DEF Cancel, X!CancelQueued, X!CancelWaiting
<1>. QED
  BY <1>1, <1>4, <1>5

\* The end of an operation keeps types, places and the data lock.
LEMMA OverKeeps ==
    ASSUME BaseInv, NEW t \in Tasks,
           NotConnected(t) \/ Finish(t) \/ Fail(t) \/ Cancel(t)
    PROVE  /\ step' \in [Tasks -> Nat \ {0}] /\ \A u \in Tasks : step'[u] <= Len(Script[u]) + 1
           /\ at' \in [Tasks -> {"between", "datalock", "exchange"}]
           /\ parts' \in [Tasks -> Seq(Replies)]
           /\ data_lock' \in Seq(Tasks)
           /\ Placed' /\ DataLockKept'
<1>. USE DEF Over
<1>1. /\ Over(t) /\ step[t] <= Len(Script[t]) /\ (Locked(Op(t)) <=> WithDataLock(t))
      /\ pc'[t] \notin {"queued", "waiting"}
      /\ \A u \in Users \ {t} : pc'[u] = pc[u] /\ req'[u] = req[u]
  BY OverEffect
<1>2. /\ step \in [Tasks -> Nat \ {0}] /\ \A u \in Tasks : step[u] <= Len(Script[u]) + 1
      /\ at \in [Tasks -> {"between", "datalock", "exchange"}]
      /\ parts \in [Tasks -> Seq(Replies)] /\ data_lock \in Seq(Tasks)
      /\ \A u \in Tasks : Len(Script[u]) \in Nat
  BY AtmosClientAssumption DEF BaseInv, TypeOK
<1>3. NextStep(t) \in Nat \ {0} /\ NextStep(t) <= Len(Script[t]) + 1
  BY <1>1, <1>2 DEF NextStep
<1>4. /\ step'[t] = NextStep(t) /\ at'[t] = "between" /\ parts'[t] = << >>
      /\ \A u \in Tasks \ {t} : step'[u] = step[u] /\ at'[u] = at[u] /\ parts'[u] = parts[u]
  BY <1>1, <1>2
<1>5. Placed'
  <2>1. ASSUME NEW u \in Users
        PROVE  XP!InExchange(u)' <=> u \in Tasks /\ at'[u] = "exchange"
    <3>1. CASE u = t
      BY <1>1, <1>4, <3>1 DEF XP!InExchange
    <3>2. CASE u # t
      BY <1>1, <1>4, <3>2 DEF XP!InExchange, BaseInv, Placed
    <3>. QED
      BY <3>1, <3>2
  <2>2. ASSUME NEW u \in Tasks
        PROVE  /\ at'[u] # "between" => step'[u] <= Len(Script[u])
               /\ at'[u] = "datalock" => Locked(Op(u)')
               /\ at'[u] # "exchange" => parts'[u] = << >>
               /\ at'[u] = "exchange" => req'[u] = Ask(Op(u)', parts'[u])
    <3>1. CASE u = t
      BY <1>4, <3>1
    <3>2. CASE u # t
      <4>1. u \in Users \ {t} /\ Op(u)' = Op(u)
        BY <1>4, <3>2 DEF Op, Users
      <4>. QED
        BY <1>1, <1>4, <3>2, <4>1 DEF BaseInv, Placed
    <3>. QED
      BY <3>1, <3>2
  <2>. QED
    BY <2>1, <2>2 DEF Placed
<1>6. Holders' = Holders \ {t}
  BY <1>4 DEF Holders, WithDataLock, Op
<1>7. data_lock' \in Seq(Tasks) /\ DataLockKept'
  <2>1. CASE Locked(Op(t))
    <3>1. PICK i \in 1..Len(data_lock) : data_lock[i] = t /\ data_lock' = RemoveAt(data_lock, i)
      BY <1>1, <2>1 DEF LetGo
    <3>2. /\ data_lock' \in Seq(Tasks) /\ XP!Lines(data_lock', Holders \ {t})
          /\ i # 1 => Head(data_lock') = Head(data_lock)
      BY <1>2, <3>1, WithoutOne DEF BaseInv, DataLockKept
    <3>3. ASSUME NEW u \in Tasks, at'[u] = "exchange", Locked(Op(u))'
          PROVE  Head(data_lock') = u
      <4>1. u # t /\ at[u] = "exchange" /\ Locked(Op(u))
        BY <1>4, <3>3 DEF Op, Locked
      <4>2. Head(data_lock) = u
        BY <4>1 DEF BaseInv, DataLockKept
      <4>3. i # 1
        BY <1>2, <3>1, <4>1, <4>2
      <4>. QED
        BY <3>2, <4>2, <4>3
    <3>. QED
      BY <1>6, <3>2, <3>3 DEF DataLockKept, XP!Lines
  <2>2. CASE ~Locked(Op(t))
    <3>1. data_lock' = data_lock /\ Holders' = Holders
      BY <1>1, <1>6, <2>2 DEF LetGo, Holders
    <3>2. ASSUME NEW u \in Tasks, at'[u] = "exchange", Locked(Op(u))'
          PROVE  Head(data_lock') = u
      <4>1. u # t /\ at[u] = "exchange" /\ Locked(Op(u))
        BY <1>4, <3>2 DEF Op, Locked
      <4>. QED
        BY <3>1, <4>1 DEF BaseInv, DataLockKept
    <3>. QED
      BY <1>2, <3>1, <3>2 DEF DataLockKept, XP!Lines, BaseInv
  <2>. QED
    BY <2>1, <2>2
<1>8. << >> \in Seq(Replies)
  OBVIOUS
<1>. QED
  BY <1>1, <1>2, <1>3, <1>4, <1>5, <1>7, <1>8

\* The types of what AtmosClient adds to Exchange.
OperationTypes ==
    /\ data_lock \in Seq(Tasks)
    /\ step \in [Tasks -> Nat \ {0}]
    /\ \A t \in Tasks : step[t] <= Len(Script[t]) + 1
    /\ at \in [Tasks -> {"between", "datalock", "exchange"}]
    /\ parts \in [Tasks -> Seq(Replies)]
    /\ helloed \in BOOLEAN
    /\ cursor \in [of : Targets, next : Nat, edition : Editions]

\* A step that leaves every task where it is.
LEMMA StandStill ==
    ASSUME BaseInv, UNCHANGED <<data_lock, step, at, parts>>,
           \A u \in Users : (pc'[u] \in {"queued", "waiting"} <=> pc[u] \in {"queued", "waiting"}),
           \A u \in Tasks : req'[u] = req[u]
    PROVE  Placed' /\ DataLockKept'
<1>1. Holders' = Holders /\ \A u \in Tasks : Op(u)' = Op(u)
  BY DEF Holders, WithDataLock, Op
<1>2. Placed'
  BY <1>1 DEF BaseInv, Placed, XP!InExchange, Users
<1>3. DataLockKept'
  BY <1>1 DEF BaseInv, DataLockKept, XP!Lines, Op
<1>. QED
  BY <1>2, <1>3

LEMMA AskDataLockKeeps ==
    ASSUME BaseInv, NEW t \in Tasks, AskDataLock(t)
    PROVE  OperationTypes' /\ Placed' /\ DataLockKept'
<1>1. /\ at[t] = "between" /\ step[t] <= Len(Script[t]) /\ Locked(Op(t))
      /\ data_lock' = Append(data_lock, t) /\ at' = [at EXCEPT ![t] = "datalock"]
      /\ UNCHANGED <<exchange, step, parts, gateway>>
  BY DEF AskDataLock, Waits
<1>2. OperationTypes
  BY DEF BaseInv, TypeOK, OperationTypes
<1>3. OperationTypes'
  BY <1>1, <1>2 DEF OperationTypes, gateway
<1>4. \A u \in Tasks : Op(u)' = Op(u)
  BY <1>1 DEF Op
<1>5. Placed'
  BY <1>1, <1>2, <1>4 DEF BaseInv, Placed, OperationTypes, XP!InExchange, exchange, Users
<1>6. t \notin Holders /\ Holders' = Holders \cup {t}
  BY <1>1, <1>2, <1>4 DEF Holders, WithDataLock, OperationTypes, Op
<1>7. data_lock \in Seq(Users) /\ t \in Users
  BY <1>2, SeqSubset DEF OperationTypes, Users
<1>8. XP!Lines(data_lock', Holders')
  BY <1>1, <1>6, <1>7, ClientAssumption, XP!LinesAppend DEF BaseInv, DataLockKept, Users
<1>9. ASSUME NEW u \in Tasks, at'[u] = "exchange", Locked(Op(u))'
      PROVE  Head(data_lock') = u
  <2>1. u # t /\ at[u] = "exchange" /\ Locked(Op(u))
    BY <1>1, <1>2, <1>9 DEF Op, Locked, OperationTypes
  <2>2. Head(data_lock) = u /\ u \in Holders
    BY <2>1 DEF BaseInv, DataLockKept, Holders, WithDataLock
  <2>3. data_lock # << >>
    BY <2>2 DEF BaseInv, DataLockKept, XP!Lines
  <2>. QED
    BY <1>1, <1>2, <2>2, <2>3 DEF OperationTypes
<1>. QED
  BY <1>3, <1>5, <1>8, <1>9 DEF DataLockKept, XP!Lines

\* A task that begins to exchange frames, or goes on to.
LEMMA CallKeeps ==
    ASSUME BaseInv, NEW t \in Tasks, Call(t) \/ NextChunk(t)
    PROVE  OperationTypes' /\ Placed' /\ DataLockKept'
<1>0. /\ pc \in [Users -> {"idle", "connecting", "connected", "queued", "waiting"}]
      /\ req \in [Users -> Requests \cup {None}] /\ t \in Users
  BY DEF BaseInv, XP!Inv, XP!TypeOK, Users
<1>1. OperationTypes
  BY DEF BaseInv, TypeOK, OperationTypes
<1>2. /\ parts' \in [Tasks -> Seq(Replies)] /\ at'[t] = "exchange"
      /\ req'[t] = Ask(Op(t), parts'[t])
      /\ pc'[t] = "queued"
      /\ \A u \in Users \ {t} : pc'[u] = pc[u] /\ req'[u] = req[u]
      /\ \A u \in Tasks \ {t} : parts'[u] = parts[u] /\ at'[u] = at[u]
      /\ at' \in [Tasks -> {"between", "datalock", "exchange"}]
      /\ step[t] <= Len(Script[t]) /\ UNCHANGED <<data_lock, step, gateway>>
      /\ Locked(Op(t)) => WithDataLock(t) /\ Head(data_lock) = t
      /\ WithDataLock(t) => Locked(Op(t))
  <2>1. CASE Call(t)
    <3>1. /\ pc' = [pc EXCEPT ![t] = "queued"] /\ req' = [req EXCEPT ![t] = Ask(Op(t), << >>)]
          /\ at' = [at EXCEPT ![t] = "exchange"] /\ MayCall(t)
          /\ UNCHANGED <<data_lock, step, parts, gateway>>
      BY <2>1 DEF Call, X!ExchangeCall
    <3>2. at[t] # "exchange" /\ step[t] <= Len(Script[t])
      BY <3>1 DEF MayCall, Waits, BaseInv, Placed
    <3>3. parts[t] = << >>
      BY <3>2 DEF BaseInv, Placed
    <3>4. /\ Locked(Op(t)) => WithDataLock(t) /\ Head(data_lock) = t
          /\ WithDataLock(t) => Locked(Op(t))
      BY <3>1, <3>2 DEF MayCall, Waits, WithDataLock, BaseInv, Placed
    <3>. QED
      BY <1>0, <1>1, <3>1, <3>2, <3>3, <3>4 DEF OperationTypes
  <2>2. CASE NextChunk(t)
    <3>1. /\ pc' = [pc EXCEPT ![t] = "queued"] /\ req' = [req EXCEPT ![t] = Ask(Op(t), Got(t))]
          /\ parts' = [parts EXCEPT ![t] = Got(t)] /\ at[t] = "exchange"
          /\ UNCHANGED <<data_lock, step, at, gateway>>
      BY <2>2 DEF NextChunk, X!Continue
    <3>2. Got(t) \in Seq(Replies)
      BY <2>2, ReceivedType DEF NextChunk, X!Continue
    <3>3. step[t] <= Len(Script[t])
      BY <3>1 DEF BaseInv, Placed
    <3>4. /\ Locked(Op(t)) => WithDataLock(t) /\ Head(data_lock) = t
          /\ WithDataLock(t) => Locked(Op(t))
      BY <3>1 DEF WithDataLock, BaseInv, DataLockKept
    <3>. QED
      BY <1>0, <1>1, <3>1, <3>2, <3>3, <3>4 DEF OperationTypes
  <2>. QED
    BY <2>1, <2>2
<1>3. OperationTypes'
  BY <1>1, <1>2 DEF OperationTypes, gateway
<1>4. \A u \in Tasks : Op(u)' = Op(u)
  BY <1>2 DEF Op
<1>5. Placed'
  <2>1. ASSUME NEW u \in Users
        PROVE  XP!InExchange(u)' <=> u \in Tasks /\ at'[u] = "exchange"
    BY <1>2 DEF XP!InExchange, BaseInv, Placed
  <2>2. ASSUME NEW u \in Tasks
        PROVE  /\ at'[u] # "between" => step'[u] <= Len(Script[u])
               /\ at'[u] = "datalock" => Locked(Op(u)')
               /\ at'[u] # "exchange" => parts'[u] = << >>
               /\ at'[u] = "exchange" => req'[u] = Ask(Op(u)', parts'[u])
    <3>1. CASE u = t
      BY <1>2, <1>4, <3>1
    <3>2. CASE u # t
      BY <1>2, <1>4, <3>2 DEF BaseInv, Placed, Users
    <3>. QED
      BY <3>1, <3>2
  <2>. QED
    BY <2>1, <2>2 DEF Placed
<1>6. Holders' = Holders
  BY <1>2, <1>4 DEF Holders, WithDataLock, Op
<1>7. ASSUME NEW u \in Tasks, at'[u] = "exchange", Locked(Op(u))'
      PROVE  Head(data_lock') = u
  BY <1>2, <1>7 DEF Op, BaseInv, DataLockKept
<1>. QED
  BY <1>2, <1>3, <1>5, <1>6, <1>7 DEF DataLockKept, XP!Lines, BaseInv

\* The next row of a dump.
LEMMA NextRowType ==
    ASSUME NEW d \in [of : Targets, next : Nat, edition : Editions]
    PROVE  [d EXCEPT !.next = @ + 1] \in [of : Targets, next : Nat, edition : Editions]
OBVIOUS

\* Every step keeps types, places and the data lock.
LEMMA BaseStep == BaseInv /\ [Next]_vars => BaseInv'
<1>. SUFFICES ASSUME BaseInv, [Next]_vars PROVE BaseInv'
  OBVIOUS
<1>1. XP!Inv'
  <2>1. [XP!Next]_(XP!vars)
    BY ClientStep
  <2>. QED
    BY <2>1, ClientAssumption, XP!PairingStep DEF BaseInv
<1>2. X!TypeOK'
  BY <1>1 DEF XP!Inv, XP!TypeOK, X!TypeOK, X!Answers, XP!Answers, X!Messages, XP!Messages,
      X!CallIds, XP!CallIds
<1>. SUFFICES OperationTypes' /\ Placed' /\ DataLockKept'
  BY <1>1, <1>2 DEF BaseInv, TypeOK, OperationTypes
<1>3. OperationTypes
  BY DEF BaseInv, TypeOK, OperationTypes
<1>4. /\ pc \in [Users -> {"idle", "connecting", "connected", "queued", "waiting"}]
  BY DEF BaseInv, XP!Inv, XP!TypeOK, Users
<1>5. ASSUME NEW t \in Tasks, NotConnected(t) \/ Finish(t) \/ Fail(t) \/ Cancel(t)
      PROVE  OperationTypes' /\ Placed' /\ DataLockKept'
  <2>1. UNCHANGED gateway
    BY <1>5, OverEffect DEF Over
  <2>. QED
    BY <1>3, <1>5, <2>1, OverKeeps DEF OperationTypes, gateway
<1>6. ASSUME NEW t \in Tasks, Send(t)
      PROVE  OperationTypes' /\ Placed' /\ DataLockKept'
  <2>1. /\ UNCHANGED <<data_lock, step, at, parts, gateway, req>>
        /\ pc[t] = "queued" /\ pc' = [pc EXCEPT ![t] = "waiting"]
    BY <1>6 DEF Send, X!Send
  <2>2. \A u \in Users : pc'[u] \in {"queued", "waiting"} <=> pc[u] \in {"queued", "waiting"}
    BY <1>4, <2>1
  <2>3. Placed' /\ DataLockKept'
    BY <2>1, <2>2, StandStill
  <2>. QED
    BY <1>3, <2>1, <2>3 DEF OperationTypes, gateway
<1>7. CASE Answer
  <2>1. PICK said \in Contents : AnswerSaying(said)
    BY <1>7 DEF Answer
  <2>2. UNCHANGED <<data_lock, step, at, parts, req, pc>>
    BY <2>1 DEF AnswerSaying, X!Answer, X!client
  <2>3. Head(wire[Link]).req \in Requests
    <3>1. wire[Link] \in Seq(XP!Messages) /\ wire[Link] # << >>
      BY <2>1 DEF AnswerSaying, BaseInv, XP!Inv, XP!TypeOK
    <3>2. Head(wire[Link]) \in XP!Messages
      BY <3>1
    <3>. QED
      BY <3>2 DEF XP!Messages
  <2>4. Dump(Head(wire[Link]).req) \in [of : Targets, next : Nat, edition : Editions]
    BY <2>1, <2>3, ReplyType DEF BaseInv
  <2>5. helloed' \in BOOLEAN
    BY <1>3, <2>1 DEF AnswerSaying, OperationTypes
  <2>6. cursor' \in [of : Targets, next : Nat, edition : Editions]
    <3>1. cursor' = cursor \/ cursor' = [Dump(Head(wire[Link]).req) EXCEPT !.next = @ + 1]
      BY <2>1 DEF AnswerSaying
    <3>. QED
      BY <1>3, <2>4, <3>1, NextRowType DEF OperationTypes
  <2>. QED
    BY <1>3, <2>2, <2>5, <2>6, StandStill DEF OperationTypes
<1>8. CASE Ignore \/ LinkStep \/ UNCHANGED vars
  <2>1. /\ UNCHANGED <<data_lock, step, at, parts, gateway, req>>
        /\ pc' = pc \/ (pc[App] \in X!Ready /\ pc' = [pc EXCEPT ![App] = "idle"])
    BY <1>8 DEF Ignore, X!Ignore, LinkStep, X!AClose, X!CloseDone, X!Drop, X!Closed, X!client,
        vars, exchange
  <2>2. \A u \in Users : pc'[u] \in {"queued", "waiting"} <=> pc[u] \in {"queued", "waiting"}
    BY <1>4, <2>1 DEF X!Ready
  <2>3. Placed' /\ DataLockKept'
    BY <2>1, <2>2, StandStill
  <2>. QED
    BY <1>3, <2>1, <2>3 DEF OperationTypes, gateway
<1>. QED
  BY <1>5, <1>6, <1>7, <1>8, AskDataLockKeeps, CallKeeps DEF Next, Proceed

\* Nobody is in an operation on a client that was just connected.
LEMMA BaseInit == Init => BaseInv
<1>. SUFFICES ASSUME Init PROVE BaseInv
  OBVIOUS
<1>1. XP!TypeOK
  BY AtmosClientAssumption DEF Init, X!Connected, X!Quiet, XP!TypeOK
<1>2. XP!Pairing
  BY DEF Init, X!Connected, X!Quiet, XP!Pairing, XP!CallersHold, XP!InExchange, XP!Paired,
      XP!Leftover, XP!Exclusive
<1>3. X!TypeOK
  BY <1>1 DEF XP!TypeOK, X!TypeOK, X!Answers, XP!Answers, X!Messages, XP!Messages,
      X!CallIds, XP!CallIds
<1>4. OperationTypes
  <2>1. \A t \in Tasks : Len(Script[t]) \in Nat
    BY AtmosClientAssumption
  <2>2. cursor \in [of : Targets, next : Nat, edition : Editions]
    BY DEF Init, Editions
  <2>3. /\ data_lock \in Seq(Tasks) /\ parts \in [Tasks -> Seq(Replies)]
        /\ step \in [Tasks -> Nat \ {0}]
        /\ at \in [Tasks -> {"between", "datalock", "exchange"}]
    BY DEF Init
  <2>4. helloed \in BOOLEAN
    BY DEF Init
  <2>5. \A t \in Tasks : step[t] <= Len(Script[t]) + 1
    BY <2>1 DEF Init
  <2>. QED
    BY <2>2, <2>3, <2>4, <2>5 DEF OperationTypes
<1>5. Placed
  BY DEF Init, X!Connected, X!Quiet, Placed, XP!InExchange, Users
<1>6. DataLockKept
  BY DEF Init, DataLockKept, XP!Lines, Holders, WithDataLock
<1>. QED
  BY <1>1, <1>2, <1>3, <1>4, <1>5, <1>6 DEF BaseInv, XP!Inv, TypeOK, OperationTypes

-----------------------------------------------------------------------------
(* The transfers *)

\* Only the owner of the lock waits for a frame, and only the owner of the data
\* lock exchanges frames of a dump.
LEMMA OneAtATime ==
    ASSUME BaseInv, NEW t \in Users, NEW u \in Users
    PROVE  /\ (X!Owns(t) \/ pc[t] = "waiting") /\ pc[u] = "waiting" => u = t
           /\ t \in Tasks /\ at[t] = "exchange" /\ Locked(Op(t))
                    /\ u \in Tasks /\ at[u] = "exchange" /\ Locked(Op(u)) => u = t
<1>1. \A v \in Users : pc[v] = "waiting" => Head(lock) = v
  BY DEF BaseInv, XP!Inv, XP!Pairing, XP!CallersHold, XP!Owns, Users
<1>2. \A v \in Tasks : at[v] = "exchange" /\ Locked(Op(v)) => Head(data_lock) = v
  BY DEF BaseInv, DataLockKept
<1>3. X!Owns(t) => Head(lock) = t
  BY DEF X!Owns
<1>4. (X!Owns(t) \/ pc[t] = "waiting") /\ pc[u] = "waiting" => u = t
  BY <1>1, <1>3
<1>5. ASSUME t \in Tasks, at[t] = "exchange", Locked(Op(t)),
             u \in Tasks, at[u] = "exchange", Locked(Op(u))
      PROVE  u = t
  <2>1. Head(data_lock) = t
    BY <1>2, <1>5
  <2>2. Head(data_lock) = u
    BY <1>2, <1>5
  <2>. QED
    BY <2>1, <2>2
<1>. QED
  BY <1>4, <1>5

\* Nothing is on its way when nobody waits, and one thing when somebody does.
LEMMA InFlight ==
    ASSUME BaseInv, abandoned = {}, conn[Link] # "closed"
    PROVE  /\ (\A t \in Users : pc[t] # "waiting") => wire[Link] = << >> /\ inbox[Link] = << >>
           /\ wire[Link] # << >> =>
                /\ inbox[Link] = << >> /\ Len(wire[Link]) = 1
                /\ \E t \in Tasks : pc[t] = "waiting" /\ at[t] = "exchange"
<1>1. XP!Exclusive(Link)
  BY DEF BaseInv, XP!Inv, XP!Pairing, XP!Paired
<1>2. \A t \in Users : pc[t] = "waiting" => t \in Tasks /\ at[t] = "exchange"
  BY DEF BaseInv, Placed, XP!InExchange
<1>. QED
  BY <1>1, <1>2 DEF XP!Exclusive, Users

\* A chunk behind a transfer in progress.
LEMMA GotTransfer ==
    ASSUME NEW op, Transfer(op), NEW ps \in Seq(Replies), NEW b \in Replies,
           InProgress(op, ps), Wanted(op, ps, b)
    PROVE  /\ OneTransfer(Append(ps, b), op.of)
           /\ Append(ps, b) # << >> /\ Last(Append(ps, b)) = b
           /\ Len(Append(ps, b)) = Len(ps) + 1
<1>. DEFINE more == Append(ps, b)
<1>1. /\ Len(more) = Len(ps) + 1 /\ more[Len(ps) + 1] = b /\ Len(ps) \in Nat
      /\ \A i \in 1..Len(ps) : more[i] = ps[i]
      /\ \A i \in 1..Len(more) : i \in 1..Len(ps) \/ i = Len(ps) + 1
  OBVIOUS
<1>2. more[1].edition = b.edition
  <2>1. CASE ps = << >>
    BY <1>1, <2>1
  <2>2. CASE ps # << >>
    <3>1. 1 \in 1..Len(ps)
      BY <2>2
    <3>. QED
      BY <1>1, <2>2, <3>1 DEF Wanted
  <2>. QED
    BY <2>1, <2>2
<1>. HIDE DEF more
<1>3. ASSUME NEW i \in 1..Len(ps)
      PROVE  more[i].of = op.of /\ more[i].pos = i - 1 /\ more[i].edition = more[1].edition
  <2>1. 1 \in 1..Len(ps) /\ more[1] = ps[1]
    BY <1>1
  <2>. QED
    BY <1>1, <2>1 DEF InProgress
<1>4. b.of = op.of /\ b.pos = Len(ps) + 1 - 1
  BY <1>1 DEF Wanted
<1>5. more # << >> /\ Last(more) = b
  BY <1>1 DEF Last
<1>. QED
  BY <1>1, <1>2, <1>3, <1>4, <1>5 DEF OneTransfer, more

\* The next chunk of a transfer that is not its last.
LEMMA AppendProgress ==
    ASSUME NEW op, NEW ps \in Seq(Replies), NEW b \in Replies,
           InProgress(op, ps), Wanted(op, ps, b), Transfer(op), ~b.last
    PROVE  /\ InProgress(op, Append(ps, b))
           /\ Append(ps, b)[1].edition = b.edition
<1>. DEFINE more == Append(ps, b)
<1>1. /\ Len(more) = Len(ps) + 1 /\ more[Len(ps) + 1] = b /\ Len(ps) \in Nat
      /\ \A i \in 1..Len(ps) : more[i] = ps[i]
      /\ \A i \in 1..Len(more) : i \in 1..Len(ps) \/ i = Len(ps) + 1
      /\ Len(ps) + 1 \in 1..Len(more)
  OBVIOUS
<1>2. OneTransfer(more, op.of)
  BY GotTransfer
<1>. HIDE DEF more
<1>3. more[1].edition = b.edition
  BY <1>1, <1>2 DEF OneTransfer
<1>4. ASSUME NEW i \in 1..Len(ps)
      PROVE  (op.name = "file" => more[i].edition = 0) /\ (Unending(op) \/ i # Chunks)
  BY <1>1 DEF InProgress
<1>5. (op.name = "file" => b.edition = 0) /\ (Unending(op) \/ Len(ps) + 1 # Chunks)
  BY <1>1, AtmosClientAssumption DEF Wanted
<1>. QED
  BY <1>1, <1>2, <1>3, <1>4, <1>5 DEF InProgress, OneTransfer, more

\* The chunk of a file, or the error flag in its place.
LEMMA FileChunk ==
    ASSUME NEW kind, kind # "info", NEW of, NEW pos, NEW edition, NEW said
    PROVE  /\ Chunk(kind, of, pos, edition, said).kind = kind
           /\ Chunk(kind, of, pos, edition, said).of = of
           /\ Chunk(kind, of, pos, edition, said).pos = pos
           /\ Chunk(kind, of, pos, edition, said).edition = edition
           /\ Chunk(kind, of, pos, edition, said).last <=> pos = Chunks - 1
BY DEF Chunk

\* The gateway answers what an operation asks for with what it has to get next:
\* from the beginning, or where it got with its last chunk.
LEMMA AskedAnswer ==
    ASSUME TypeOK, NEW op, op.name \in Kinds, op.of \in Targets,
           NEW ps \in Seq(Replies), NEW said \in Contents,
           InProgress(op, ps),
           op.name = "info" /\ ps # << >> =>
                cursor = [of |-> op.of, next |-> Len(ps), edition |-> ps[1].edition]
    PROVE  /\ Wanted(op, ps, Reply(Ask(op, ps), said))
           /\ Ask(op, ps).kind = "info" <=> op.name = "info"
           /\ op.name = "info" =>
                [Dump(Ask(op, ps)) EXCEPT !.next = @ + 1] =
                    [of |-> op.of, next |-> Len(ps) + 1,
                     edition |-> Reply(Ask(op, ps), said).edition]
<1>1. CASE op.name = "info"
  <2>1. Ask(op, ps) = [kind |-> "info", of |-> op.of, pos |-> IF ps = << >> THEN 1 ELSE 0]
    BY <1>1 DEF Ask
  <2>. DEFINE edition == IF ps = << >> THEN 1 - cursor.edition ELSE ps[1].edition
  <2>2. Dump(Ask(op, ps)) = [of |-> op.of, next |-> Len(ps), edition |-> edition]
    <3>1. CASE ps = << >>
      BY <2>1, <3>1 DEF Dump
    <3>2. CASE ps # << >>
      BY <1>1, <2>1, <3>2 DEF Dump
    <3>. QED
      BY <3>1, <3>2
  <2>3. ps # << >> => edition = ps[1].edition
    OBVIOUS
  <2>. HIDE DEF edition
  <2>4. Reply(Ask(op, ps), said) = Chunk("info", op.of, Len(ps), edition, said)
    BY <2>1, <2>2 DEF Reply
  <2>5. Wanted(op, ps, Chunk("info", op.of, Len(ps), edition, said))
    BY <1>1, <2>3 DEF Wanted, Chunk, Transfer, Unending
  <2>6. Chunk("info", op.of, Len(ps), edition, said).edition = edition
    BY DEF Chunk
  <2>. QED
    BY <1>1, <2>1, <2>2, <2>4, <2>5, <2>6
<1>2. CASE op.name = "file"
  <2>1. CASE ps = << >>
    <3>1. Ask(op, ps) = [kind |-> "file", of |-> op.of, pos |-> 0]
      BY <1>2, <2>1 DEF Ask
    <3>. DEFINE kind == IF op.of \in Missing THEN "error" ELSE "file"
    <3>2. Reply(Ask(op, ps), said) = Chunk(kind, op.of, 0, 0, Blank)
      BY <3>1 DEF Reply
    <3>3. kind # "info" /\ (kind = "file" \/ op.of \in Missing)
      OBVIOUS
    <3>. HIDE DEF kind
    <3>4. /\ Reply(Ask(op, ps), said).kind = kind
          /\ Reply(Ask(op, ps), said).of = op.of
          /\ Reply(Ask(op, ps), said).pos = 0
          /\ Reply(Ask(op, ps), said).edition = 0
          /\ Reply(Ask(op, ps), said).last <=> 0 = Chunks - 1
      <4>1. /\ Chunk(kind, op.of, 0, 0, Blank).kind = kind
            /\ Chunk(kind, op.of, 0, 0, Blank).of = op.of
            /\ Chunk(kind, op.of, 0, 0, Blank).pos = 0
            /\ Chunk(kind, op.of, 0, 0, Blank).edition = 0
            /\ Chunk(kind, op.of, 0, 0, Blank).last <=> 0 = Chunks - 1
        BY <3>3 DEF Chunk
      <4>. QED
        BY <3>2, <4>1
    <3>5. Len(ps) = 0
      BY <2>1
    <3>6. Wanted(op, ps, Reply(Ask(op, ps), said))
      BY <1>2, <2>1, <3>3, <3>4, <3>5 DEF Wanted, Transfer, Unending
    <3>. QED
      BY <1>2, <3>1, <3>6
  <2>2. CASE ps # << >>
    <3>1. Last(ps) = ps[Len(ps)] /\ Len(ps) \in 1..Len(ps)
      BY <2>2 DEF Last
    <3>2. Ask(op, ps) = [kind |-> "ack", of |-> op.of, pos |-> Len(ps)]
      BY <1>2, <2>2, <3>1 DEF Ask, InProgress
    <3>3. Reply(Ask(op, ps), said) = Chunk("file", op.of, Len(ps), 0, Blank)
      BY <3>2 DEF Reply
    <3>4. ps[1].edition = 0
      BY <1>2, <3>1 DEF InProgress
    <3>. QED
      BY <1>2, <2>2, <3>2, <3>3, <3>4, FileChunk DEF Wanted, Transfer, Unending
  <2>. QED
    BY <2>1, <2>2
<1>3. CASE op.name \notin {"info", "file"}
  <2>1. Ask(op, ps).kind = op.name
    BY <1>3 DEF Ask
  <2>2. Reply(Ask(op, ps), said).kind = op.name
    BY <1>3, <2>1 DEF Reply, Kinds
  <2>. QED
    BY <1>3, <2>1, <2>2 DEF Wanted, Transfer
<1>. QED
  BY <1>1, <1>2, <1>3

\* A step that does nothing to a task, to what is on its way to it, and to the
\* dump it may be in.
LEMMA FollowsKept ==
    ASSUME NEW t \in Tasks, Follows(t),
           step'[t] = step[t], parts'[t] = parts[t], req'[t] = req[t],
           pc'[t] = "waiting" <=> pc[t] = "waiting",
           pc[t] = "waiting" =>
                inbox'[Link] = inbox[Link] /\ wire'[Link] \in {wire[Link], << >>},
           Op(t).name = "info" => cursor' = cursor
    PROVE  Follows(t)'
<1>1. Op(t)' = Op(t) /\ Answered(t)' = Answered(t)
  BY DEF Op, Answered
<1>2. CursorFollows(t) /\ cursor' = cursor => CursorFollows(t)'
  BY <1>1 DEF CursorFollows, Answered
<1>. QED
  BY <1>1, <1>2 DEF Follows, Answered

\* The end of an operation leaves alone what is on its way to others.
LEMMA OverFollows ==
    ASSUME BaseInv, NEW t \in Tasks,
           NotConnected(t) \/ Finish(t) \/ Fail(t) \/ Cancel(t),
           NEW u \in Tasks, at'[u] = "exchange",
           at[u] = "exchange" => Follows(u)
    PROVE  Follows(u)'
<1>1. /\ Over(t) /\ UNCHANGED wire
      /\ \A v \in Users \ {t} : pc'[v] = pc[v] /\ req'[v] = req[v]
  BY OverEffect
<1>2. /\ u # t /\ at[u] = "exchange" /\ step'[u] = step[u] /\ parts'[u] = parts[u]
      /\ UNCHANGED cursor
  BY <1>1 DEF Over, gateway, BaseInv, TypeOK
<1>3. pc[u] = "waiting" => UNCHANGED inbox
  <2>1. UNCHANGED inbox \/ pc[t] = "waiting"
    BY DEF NotConnected, exchange, Finish, X!Return, X!Receives, Fail, X!SendFails,
        X!ReceiveFails, Cancel, X!CancelQueued, X!CancelWaiting
  <2>. QED
    BY <1>2, <2>1, OneAtATime DEF Users
<1>4. pc'[u] = pc[u] /\ req'[u] = req[u]
  BY <1>1, <1>2 DEF Users
<1>. QED
  BY <1>1, <1>2, <1>3, <1>4, FollowsKept

\* The send finds the connection idle.
LEMMA SendFollows ==
    ASSUME BaseInv, NEW t \in Tasks, Send(t), abandoned = {},
           NEW u \in Tasks, at'[u] = "exchange", at[u] = "exchange" => Follows(u)
    PROVE  Follows(u)'
<1>1. /\ pc[t] = "queued" /\ X!Owns(t) /\ conn[on[t]] = "open"
      /\ wire' = [wire EXCEPT ![on[t]] = Append(@, [id |-> X!MyId(t), req |-> req[t]])]
      /\ pc' = [pc EXCEPT ![t] = "waiting"]
      /\ UNCHANGED <<req, inbox, step, at, parts, cursor>>
  BY DEF Send, X!Send, gateway
<1>2. on[t] = Link /\ \A v \in Users : pc[v] # "waiting"
  <2>1. t \in Users
    BY DEF Users
  <2>2. \A v \in Users : pc[v] = "waiting" => v = t
    BY <1>1, <2>1, OneAtATime
  <2>. QED
    BY <1>1, <2>1, <2>2 DEF BaseInv, XP!Inv, XP!Pairing, XP!CallersHold, XP!InExchange, Users
<1>3. wire[Link] = << >> /\ inbox[Link] = << >>
  BY <1>1, <1>2, InFlight
<1>4. /\ DOMAIN wire = {Link} /\ pc \in [Users -> {"idle", "connecting", "connected", "queued", "waiting"}]
  BY DEF BaseInv, XP!Inv, XP!TypeOK, Users
<1>5. Head(wire'[Link]).req = req[t]
  BY <1>1, <1>2, <1>3, <1>4
<1>6. Op(u)' = Op(u) /\ Follows(u)
  BY <1>1 DEF Op
<1>7. ~Answered(u)' /\ ~Answered(u)
  BY <1>1, <1>3 DEF Answered
<1>8. CursorFollows(u) => CursorFollows(u)'
  BY <1>1, <1>6, <1>7 DEF CursorFollows
<1>9. pc'[u] = "waiting" => u = t
  BY <1>1, <1>2, <1>4 DEF Users
<1>. QED
  BY <1>1, <1>5, <1>6, <1>7, <1>8, <1>9 DEF Follows

\* A chunk is taken, and the next one asked for.
LEMMA NextChunkFollows ==
    ASSUME BaseInv, NEW t \in Tasks, NextChunk(t), Follows(t)
    PROVE  Follows(t)'
<1>. DEFINE op == Op(t)
            ps == parts[t]
            b == Head(inbox[Link]).reply
<1>1. /\ Got(t) = Append(ps, b) /\ b \in Replies /\ ps \in Seq(Replies)
      /\ pc[t] = "waiting" /\ inbox[Link] # << >> /\ X!Received(t).reply = b
  <2>1. X!Receives(t)
    BY DEF NextChunk, X!Continue
  <2>. QED
    BY <2>1, ReceivedType DEF Got, BaseInv, TypeOK
<1>2. /\ Wanted(op, ps, b) /\ InProgress(op, ps)
      /\ op.name = "info" =>
            cursor = [of |-> op.of, next |-> Len(ps) + 1, edition |-> b.edition]
  BY <1>1 DEF Follows, Answered, CursorFollows
<1>3. Transfer(op) /\ ~b.last
  BY <1>1 DEF NextChunk, WantsMore, Ends, Transfer
<1>4. InProgress(op, Append(ps, b)) /\ Append(ps, b)[1].edition = b.edition
  BY <1>1, <1>2, <1>3, AppendProgress
<1>5. /\ parts'[t] = Append(ps, b) /\ pc'[t] = "queued" /\ UNCHANGED <<step, cursor>>
  BY <1>1 DEF NextChunk, X!Continue, BaseInv, TypeOK, XP!Inv, XP!TypeOK, gateway
<1>6. Op(t)' = op /\ ~Answered(t)'
  BY <1>5 DEF Op, Answered
<1>7. op.name = "info" => CursorFollows(t)'
  <2>1. Len(Append(ps, b)) = Len(ps) + 1
    BY <1>1
  <2>. QED
    BY <1>2, <1>4, <1>5, <1>6, <2>1 DEF CursorFollows
<1>. QED
  BY <1>4, <1>5, <1>6, <1>7 DEF Follows

\* The gateway answers the request of the one task that waits.
LEMMA AnswerFollows ==
    ASSUME BaseInv, abandoned = {}, Answer,
           \A t \in Tasks : at[t] = "exchange" => Follows(t),
           NEW u \in Tasks, at[u] = "exchange"
    PROVE  Follows(u)'
<1>. DEFINE r == Head(wire[Link]).req
<1>1. PICK said \in Contents : AnswerSaying(said)
  BY DEF Answer
<1>2. /\ wire[Link] # << >> /\ conn[Link] # "closed"
      /\ inbox' = [inbox EXCEPT ![Link] = Append(@,
            [id |-> Head(wire[Link]).id, req |-> r, reply |-> Reply(r, said)])]
      /\ wire' = [wire EXCEPT ![Link] = Tail(@)]
      /\ cursor' = IF r.kind = "info" THEN [Dump(r) EXCEPT !.next = @ + 1] ELSE cursor
      /\ UNCHANGED <<pc, req, step, at, parts>>
  BY <1>1 DEF AnswerSaying, X!Answer, X!Alive, X!client
<1>3. inbox[Link] = << >> /\ Len(wire[Link]) = 1
  BY <1>2, InFlight
<1>4. PICK t \in Tasks : pc[t] = "waiting" /\ at[t] = "exchange"
  BY <1>2, InFlight
<1>. DEFINE op == Op(t)
            ps == parts[t]
<1>5. /\ DOMAIN wire = {Link} /\ DOMAIN inbox = {Link} /\ wire[Link] \in Seq(XP!Messages)
  BY DEF BaseInv, XP!Inv, XP!TypeOK
<1>6. wire'[Link] = << >> /\ inbox'[Link] # << >> /\ Head(inbox'[Link]).reply = Reply(r, said)
  <2>1. Tail(wire[Link]) = << >>
    BY <1>3, <1>5, ClientAssumption, XP!TailOfOne
  <2>. QED
    BY <1>2, <1>3, <1>5, <2>1
<1>7. r = Ask(op, ps)
  BY <1>2, <1>4 DEF Follows, BaseInv, Placed
<1>8. op.name \in Kinds /\ op.of \in Targets
  BY <1>4, OpType DEF BaseInv, Placed
<1>9. /\ InProgress(op, ps)
      /\ op.name = "info" /\ ps # << >> =>
            cursor = [of |-> op.of, next |-> Len(ps), edition |-> ps[1].edition]
  BY <1>3, <1>4 DEF Follows, CursorFollows, Answered
<1>10. /\ Wanted(op, ps, Reply(r, said))
       /\ r.kind = "info" <=> op.name = "info"
       /\ op.name = "info" =>
            cursor' = [of |-> op.of, next |-> Len(ps) + 1, edition |-> Reply(r, said).edition]
  <2>1. ps \in Seq(Replies) /\ TypeOK
    BY DEF BaseInv, TypeOK
  <2>. QED
    BY <1>2, <1>7, <1>8, <1>9, <2>1, AskedAnswer
<1>. HIDE DEF r
<1>11. CASE u = t
  <2>1. Op(t)' = op /\ parts'[t] = ps /\ Answered(t)'
    BY <1>2, <1>4, <1>6 DEF Op, Answered
  <2>2. op.name = "info" => CursorFollows(t)'
    BY <1>6, <1>10, <2>1 DEF CursorFollows
  <2>. QED
    BY <1>6, <1>9, <1>10, <1>11, <2>1, <2>2 DEF Follows
<1>12. CASE u # t
  <2>1. pc[u] # "waiting"
    BY <1>4, <1>12, OneAtATime DEF Users
  <2>2. Op(u).name = "info" => op.name # "info"
    BY <1>4, <1>12, OneAtATime DEF Users, Locked
  <2>3. Op(u).name = "info" => cursor' = cursor
    BY <1>2, <1>10, <2>2
  <2>. QED
    BY <1>2, <2>1, <2>3, FollowsKept
<1>. QED
  BY <1>11, <1>12

\* Every step keeps what is on its way to a task where that task is.
LEMMA TransferStep == BaseInv /\ Transfers /\ [Next]_vars => Transfers'
<1>. SUFFICES ASSUME BaseInv, Transfers, [Next]_vars, abandoned' = {},
                     NEW u \in Tasks, at'[u] = "exchange"
              PROVE  Follows(u)'
  BY DEF Transfers
<1>1. abandoned = {}
  BY DEF Next, Proceed, AskDataLock, Call, NotConnected, Send, NextChunk, Finish, Fail, Cancel,
      Answer, AnswerSaying, Ignore, LinkStep, vars, exchange, X!ExchangeCall, X!Send, X!SendFails,
      X!Return, X!Receives, X!Continue, X!ReceiveFails, X!CancelQueued, X!CancelWaiting, X!AClose,
      X!CloseDone, X!Drop, X!Closed, X!Answer, X!Ignore
<1>2. \A t \in Tasks : at[t] = "exchange" => Follows(t)
  BY <1>1 DEF Transfers
<1>3. ASSUME NEW t \in Tasks, NotConnected(t) \/ Finish(t) \/ Fail(t) \/ Cancel(t)
      PROVE  Follows(u)'
  BY <1>2, <1>3, OverFollows
<1>4. ASSUME NEW t \in Tasks, AskDataLock(t)
      PROVE  Follows(u)'
  <2>1. /\ at[u] = "exchange"
        /\ UNCHANGED <<exchange, step, parts, gateway>>
    BY <1>4 DEF AskDataLock, BaseInv, TypeOK
  <2>. QED
    BY <1>2, <2>1, FollowsKept DEF exchange, gateway
<1>5. ASSUME NEW t \in Tasks, Call(t)
      PROVE  Follows(u)'
  <2>1. /\ MayCall(t) /\ pc' = [pc EXCEPT ![t] = "queued"]
        /\ \A v \in Tasks \ {t} : req'[v] = req[v] /\ pc'[v] = pc[v] /\ at'[v] = at[v]
        /\ UNCHANGED <<inbox, wire, step, parts, cursor>> /\ pc'[t] = "queued"
    BY <1>5 DEF Call, X!ExchangeCall, gateway, BaseInv, TypeOK, XP!Inv, XP!TypeOK
  <2>2. CASE u = t
    <3>1. at[t] # "exchange"
      BY <2>1 DEF MayCall, Waits
    <3>2. parts'[t] = << >>
      BY <2>1, <3>1 DEF BaseInv, Placed
    <3>. QED
      BY <2>1, <2>2, <3>2 DEF Follows, InProgress, CursorFollows, Answered
  <2>3. CASE u # t
    BY <1>2, <2>1, <2>3, FollowsKept
  <2>. QED
    BY <2>2, <2>3
<1>6. ASSUME NEW t \in Tasks, Send(t)
      PROVE  Follows(u)'
  BY <1>1, <1>2, <1>6, SendFollows
<1>7. ASSUME NEW t \in Tasks, NextChunk(t)
      PROVE  Follows(u)'
  <2>1. at[t] = "exchange" /\ pc[t] = "waiting" /\ at[u] = "exchange"
    BY <1>7 DEF NextChunk, X!Continue, X!Receives
  <2>2. CASE u = t
    BY <1>2, <1>7, <2>1, <2>2, NextChunkFollows
  <2>3. CASE u # t
    <3>1. pc[u] # "waiting"
      BY <2>1, <2>3, OneAtATime DEF Users
    <3>2. /\ pc'[u] = pc[u] /\ req'[u] = req[u] /\ parts'[u] = parts[u]
          /\ UNCHANGED <<step, cursor>>
      BY <1>7, <2>3 DEF NextChunk, X!Continue, gateway, BaseInv, TypeOK, XP!Inv, XP!TypeOK
    <3>. QED
      BY <1>2, <2>1, <3>1, <3>2, FollowsKept
  <2>. QED
    BY <2>2, <2>3
<1>8. CASE Answer
  <2>1. at[u] = "exchange"
    BY <1>8 DEF Answer, AnswerSaying
  <2>. QED
    BY <1>1, <1>2, <1>8, <2>1, AnswerFollows
<1>9. CASE Ignore \/ LinkStep \/ UNCHANGED vars
  <2>1. /\ UNCHANGED <<inbox, req, at, step, parts, cursor>>
        /\ pc' = pc \/ (pc[App] \in X!Ready /\ pc' = [pc EXCEPT ![App] = "idle"])
    BY <1>9 DEF Ignore, X!Ignore, LinkStep, X!AClose, X!CloseDone, X!Drop, X!Closed, X!client,
        vars, exchange, gateway
  <2>2. wire'[Link] \in {wire[Link], << >>}
    <3>1. CASE Ignore
      <4>1. /\ wire[Link] # << >> /\ conn[Link] # "closed"
            /\ wire' = [wire EXCEPT ![Link] = Tail(@)]
        BY <3>1 DEF Ignore, X!Ignore, X!Alive
      <4>2. wire[Link] \in Seq(XP!Messages) /\ Len(wire[Link]) = 1
        BY <1>1, <4>1, InFlight DEF BaseInv, XP!Inv, XP!TypeOK
      <4>3. Tail(wire[Link]) = << >>
        BY <4>2, ClientAssumption, XP!TailOfOne
      <4>. QED
        BY <4>1, <4>3 DEF BaseInv, XP!Inv, XP!TypeOK
    <3>2. CASE LinkStep \/ UNCHANGED vars
      BY <3>2 DEF LinkStep, X!AClose, X!CloseDone, X!Drop, X!Closed, vars, exchange, BaseInv,
          XP!Inv, XP!TypeOK
    <3>. QED
      BY <1>9, <3>1, <3>2
  <2>3. pc'[u] = "waiting" <=> pc[u] = "waiting"
    BY <2>1 DEF X!Ready, BaseInv, XP!Inv, XP!TypeOK
  <2>. QED
    BY <1>2, <2>1, <2>2, <2>3, FollowsKept
<1>. QED
  BY <1>3, <1>4, <1>5, <1>6, <1>7, <1>8, <1>9 DEF Next, Proceed

LEMMA InvInit == Init => Inv
BY BaseInit DEF Inv, Transfers, Init

LEMMA InvStep == Inv /\ [Next]_vars => Inv'
BY BaseStep, TransferStep DEF Inv

LEMMA Invariance == Spec => []Inv
BY InvInit, InvStep, PTL DEF Spec

-----------------------------------------------------------------------------
(* What the operations promise *)

\* Every variable keeps to its type, whatever callers, scripts and answers.
THEOREM TypeCorrect == Spec => []TypeOK
<1>1. Inv => TypeOK
  BY DEF Inv, BaseInv
<1>. QED
  BY <1>1, Invariance, PTL

\* Whether a dump or an own text returns, raises or is cancelled, and at which
\* of its frames, it leaves the data lock, and no frames of another one come
\* between its own (client.py:215, client.py:234).
THEOREM DataLockIsKept == Spec => []DataLockDiscipline
<1>1. Inv => DataLockDiscipline
  BY DEF Inv, BaseInv, DataLockKept, DataLockDiscipline, XP!Lines, Holders
<1>. QED
  BY <1>1, Invariance, PTL

\* What task t is about to take is what its operation has to get next.
LEMMA TakesWanted ==
    ASSUME Inv, abandoned = {}, NEW t \in Tasks, Receiving(t)
    PROVE  /\ X!Received(t).reply \in Replies /\ parts[t] \in Seq(Replies)
           /\ InProgress(Op(t), parts[t])
           /\ Wanted(Op(t), parts[t], X!Received(t).reply)
           /\ Op(t).name \in Kinds
<1>1. pc[t] = "waiting" /\ inbox[on[t]] # << >> /\ t \in Users
  BY DEF Receiving, Users
<1>2. on[t] = Link /\ at[t] = "exchange"
  BY <1>1 DEF Inv, BaseInv, XP!Inv, XP!Pairing, XP!CallersHold, XP!InExchange, Placed, Users
<1>3. inbox[Link] \in Seq(XP!Answers) /\ inbox[Link] # << >> /\ X!Received(t) = Head(inbox[Link])
  BY <1>1, <1>2 DEF Inv, BaseInv, XP!Inv, XP!TypeOK, X!Received
<1>4. Head(inbox[Link]) \in XP!Answers
  BY <1>3
<1>5. Head(inbox[Link]).reply \in Replies
  BY <1>4 DEF XP!Answers
<1>6. Follows(t) /\ Answered(t)
  BY <1>1, <1>2, <1>3 DEF Inv, Transfers, Answered
<1>7. Op(t).name \in Kinds
  BY <1>2, OpType DEF Inv, BaseInv, Placed
<1>. QED
  BY <1>3, <1>5, <1>6, <1>7 DEF Follows, Inv, BaseInv, TypeOK

\* Whoever else dumps, downloads or reads, is cancelled or fails meanwhile: a
\* dump or a file that is returned is all of the one that was asked for, and of
\* one edition, unless a sent request was abandoned (client.py:234-281).
THEOREM DumpsAndFilesAreWhole == Spec => []ResultIsWhole
<1>1. Inv => ResultIsWhole
  <2>. SUFFICES ASSUME Inv, NEW t \in Tasks, Receiving(t), abandoned = {},
                       Transfer(Op(t)), Completes(t)
                PROVE  OneTransfer(Got(t), Op(t).of) /\ Len(Got(t)) = Chunks
    BY DEF ResultIsWhole, Transfer
  <2>. DEFINE b == X!Received(t).reply
  <2>1. /\ OneTransfer(Got(t), Op(t).of) /\ Len(Got(t)) = Len(parts[t]) + 1
        /\ Wanted(Op(t), parts[t], b)
    BY TakesWanted, GotTransfer DEF Got
  <2>2. b.last
    BY DEF Completes, Ends, Transfer
  <2>3. Len(parts[t]) = Chunks - 1
    BY <2>1, <2>2 DEF Wanted
  <2>. QED
    BY <2>1, <2>3, AtmosClientAssumption
<1>. QED
  BY <1>1, Invariance, PTL

\* What is due to an operation is the frame that is there.
LEMMA NeverRefused == Inv => NoSpuriousError
<1>. SUFFICES ASSUME Inv, NEW t \in Tasks, Receiving(t), abandoned = {},
                     ~(Op(t).name = "info" /\ Op(t).of \in Endless),
                     ~(Op(t).name = "file" /\ Op(t).of \in Missing)
              PROVE  Completes(t) \/ WantsMore(t)
  BY DEF NoSpuriousError
<1>. DEFINE b == X!Received(t).reply
            ps == parts[t]
            op == Op(t)
<1>1. /\ b \in Replies /\ ps \in Seq(Replies) /\ InProgress(op, ps) /\ Wanted(op, ps, b)
  BY TakesWanted
<1>2. CASE ~Transfer(op)
  BY <1>1, <1>2 DEF Wanted, Transfer, Completes, Decodes, OfItsKind, Ends
<1>3. CASE Transfer(op)
  <2>1. /\ OneTransfer(Got(t), op.of) /\ Len(Got(t)) = Len(ps) + 1
        /\ Got(t) # << >> /\ Last(Got(t)) = b
    BY <1>1, <1>3, GotTransfer DEF Got
  <2>2. Decodes(op, ps, b)
    BY <1>1, <1>3 DEF Wanted, Transfer, Decodes, OfItsKind
  <2>3. CASE b.last
    <3>1. Assembles(Got(t))
      BY <2>1, <2>3 DEF Assembles, OneTransfer
    <3>. QED
      BY <2>2, <2>3, <3>1 DEF Completes, Ends
  <2>4. CASE ~b.last
    <3>1. Len(ps) # Chunks - 1
      BY <1>1, <1>3, <2>4 DEF Wanted, Unending
    <3>2. \A i \in 1..Len(ps) : i # Chunks
      BY <1>1 DEF InProgress, Unending
    <3>3. Len(ps) < Chunks /\ Len(ps) \in Nat
      <4>1. Chunks \in Nat \ {0} /\ Len(ps) \in Nat
        BY <1>1, AtmosClientAssumption
      <4>. QED
        BY <3>2, <4>1
    <3>4. Len(Got(t)) <= MaxChunks
      BY <2>1, <3>1, <3>3, AtmosClientAssumption
    <3>. QED
      BY <1>3, <2>2, <2>4, <3>4 DEF WantsMore, Ends, Transfer
  <2>. QED
    BY <2>3, <2>4
<1>. QED
  BY <1>2, <1>3

\* No operation is ever refused the frame it receives for the sake of another
\* one's: it is of the kind, of the controller or file, and at the place where
\* the operation is, unless a sent request was abandoned (client.py:269-281,
\* client.py:325).
THEOREM FramesFit == Spec => []NoSpuriousError
BY Invariance, NeverRefused, PTL

=============================================================================
