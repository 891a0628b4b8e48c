--------------------------- MODULE ExchangeProofs ---------------------------
(***************************************************************************)
(* Proofs about Exchange, for every set of tasks, connections, requests    *)
(* and replies: the type invariant, and that an answer goes to the         *)
(* exchange() that asked for it unless a sent request was abandoned on its *)
(* connection.                                                             *)
(***************************************************************************)
EXTENDS Exchange, SequenceTheorems, TLAPS

\* Taking one element out of a sequence.
LEMMA RemoveAtType ==
    ASSUME NEW S, NEW q \in Seq(S), NEW i \in 1..Len(q)
    PROVE  /\ RemoveAt(q, i) \in Seq(S)
           /\ i # 1 => RemoveAt(q, i) # << >> /\ Head(RemoveAt(q, i)) = Head(q)
<1>1. SubSeq(q, 1, i - 1) \in Seq(S) /\ Len(SubSeq(q, 1, i - 1)) = i - 1
  BY SubSeqProperties
<1>2. SubSeq(q, i + 1, Len(q)) \in Seq(S)
  BY SubSeqProperties
<1>3. RemoveAt(q, i) \in Seq(S)
  BY <1>1, <1>2, ConcatProperties DEF RemoveAt
<1>4. ASSUME i # 1
      PROVE  RemoveAt(q, i) # << >> /\ Head(RemoveAt(q, i)) = Head(q)
  <2>. DEFINE front == SubSeq(q, 1, i - 1)
              back == SubSeq(q, i + 1, Len(q))
  <2>1. front \in Seq(S) /\ back \in Seq(S) /\ Len(front) > 0 /\ Len(back) \in Nat
    BY <1>1, <1>2, <1>4
  <2>2. front[1] = q[1]
    BY <1>4, SubSeqProperties
  <2>. HIDE DEF front, back
  <2>3. Len(front \o back) > 0 /\ (front \o back)[1] = front[1]
    BY <2>1, ConcatProperties
  <2>4. RemoveAt(q, i) = front \o back
    BY DEF RemoveAt, front, back
  <2>5. Head(RemoveAt(q, i)) = RemoveAt(q, i)[1] /\ Head(q) = q[1]
    BY <1>3, <2>3, <2>4
  <2>. QED
    BY <1>3, <2>2, <2>3, <2>4, <2>5
<1>. QED
  BY <1>3, <1>4

\* A queue of one task is empty once its only task leaves it: what the
\* exchange lock looks like when the last waiter is served (client.py:304).
LEMMA TailOfOne ==
    ASSUME NEW S, NEW q \in Seq(S), Len(q) = 1
    PROVE  Tail(q) = << >>
<1>1. q # << >>
  OBVIOUS
<1>2. Tail(q) \in Seq(S) /\ Len(Tail(q)) = 0
  BY <1>1, HeadTailProperties
<1>. QED
  BY <1>2, EmptySeq

\* The ids the client gives its calls stay within the bound of the model
\* (the counter of client.py:298).
LEMMA FollowingType ==
    ASSUME NEW n \in 0..MaxCalls
    PROVE  Following(n) \in 0..MaxCalls
BY ExchangeAssumption DEF Following

\* Every step keeps every variable in its type.  That the owner of the lock is
\* there to be removed when an exchange() ends comes from CallersHold.
LEMMA TypeStep == TypeOK /\ CallersHold /\ [Next]_vars => TypeOK'
<1>. SUFFICES ASSUME TypeOK, CallersHold, [Next]_vars PROVE TypeOK'
  OBVIOUS
<1>. USE ExchangeAssumption DEF TypeOK
<1>1. ASSUME NEW t \in Connectors, Connecting(t) PROVE TypeOK'
  <2>1. CASE AClose(t)
    BY <2>1 DEF AClose
  <2>2. CASE \E s \in Sockets : ConnectDone(t, s)
    BY <2>2 DEF ConnectDone
  <2>3. CASE ConnectCall(t) \/ ConnectAgain(t) \/ ConnectFails(t)
    BY <2>3 DEF ConnectCall, ConnectAgain, ConnectFails
  <2>. QED
    BY <1>1, <2>1, <2>2, <2>3 DEF Connecting
<1>2. ASSUME NEW t \in Tasks, Exchanging(t) PROVE TypeOK'
  <2>1. ASSUME NEW r \in Requests, ExchangeCall(t, r) PROVE TypeOK'
    <3>1. Following(calls[t]) \in 0..MaxCalls
      BY FollowingType
    <3>. QED
      BY <2>1, <3>1 DEF ExchangeCall
  <2>2. ASSUME Send(t) PROVE TypeOK'
    <3>1. on[t] \in Sockets /\ req[t] \in Requests
      BY <2>2 DEF Send, CallersHold, InExchange
    <3>2. [id |-> MyId(t), req |-> req[t]] \in Messages
      BY <3>1 DEF Messages, CallIds, MyId
    <3>3. Append(wire[on[t]], [id |-> MyId(t), req |-> req[t]]) \in Seq(Messages)
      BY <3>1, <3>2
    <3>. QED
      BY <2>2, <3>1, <3>3 DEF Send
  <2>3. ASSUME Receives(t)
        PROVE  /\ on[t] \in Sockets
               /\ inbox' \in [Sockets -> Seq(Answers)]
               /\ Tail(lock) \in Seq(Tasks)
    <3>1. on[t] \in Sockets /\ lock # << >>
      BY <2>3 DEF Receives, CallersHold, InExchange, Owns
    <3>2. Tail(inbox[on[t]]) \in Seq(Answers)
      BY <2>3, <3>1 DEF Receives
    <3>. QED
      BY <2>3, <3>1, <3>2 DEF Receives
  <2>4. ASSUME Return(t) PROVE TypeOK'
    BY <2>3, <2>4 DEF Return, Receives, Leave
  <2>5. ASSUME NEW r \in Requests, Continue(t, r) PROVE TypeOK'
    <3>1. Following(calls[t]) \in 0..MaxCalls
      BY FollowingType
    <3>. QED
      BY <2>3, <2>5, <3>1 DEF Continue, Receives
  <2>6. ASSUME SendFails(t) PROVE TypeOK'
    BY <2>6 DEF SendFails, Owns, Leave
  <2>7. ASSUME ReceiveFails(t) PROVE TypeOK'
    BY <2>7 DEF ReceiveFails, Leave, CallersHold, Owns
  <2>8. ASSUME CancelConnect(t) PROVE TypeOK'
    BY <2>8 DEF CancelConnect, ConnectFails
  <2>9. ASSUME CancelQueued(t) PROVE TypeOK'
    BY <2>9, RemoveAtType DEF CancelQueued
  <2>10. ASSUME CancelWaiting(t) PROVE TypeOK'
    BY <2>10 DEF CancelWaiting, Leave, CallersHold, Owns, InExchange
  <2>. QED
    BY <1>2, <2>1, <2>2, <2>4, <2>5, <2>6, <2>7, <2>8, <2>9, <2>10
       DEF Exchanging, Receive
<1>3. ASSUME NEW s \in Sockets, Environment(s) PROVE TypeOK'
  <2>1. ASSUME NEW b \in Replies, Answer(s, b) PROVE TypeOK'
    <3>1. /\ Head(wire[s]) \in Messages
          /\ Tail(wire[s]) \in Seq(Messages)
      BY <2>1 DEF Answer
    <3>2. [id |-> Head(wire[s]).id, req |-> Head(wire[s]).req, reply |-> b] \in Answers
      BY <3>1 DEF Messages, Answers
    <3>. QED
      BY <2>1, <3>1, <3>2 DEF Answer, client
  <2>2. ASSUME Ignore(s) PROVE TypeOK'
    BY <2>2 DEF Ignore, client
  <2>3. ASSUME CloseDone(s) \/ Drop(s) PROVE TypeOK'
    <3>1. << >> \in Seq(Messages) /\ Closed(s)
      BY <2>3 DEF CloseDone, Drop
    <3>. QED
      BY <3>1 DEF Closed, client
  <2>. QED
    BY <1>3, <2>1, <2>2, <2>3 DEF Environment, Handle
<1>4. CASE UNCHANGED vars
  BY <1>4 DEF vars, client
<1>. QED
  BY <1>1, <1>2, <1>3, <1>4 DEF Next

-----------------------------------------------------------------------------

\* Nobody but the owner of the lock is waiting.
LEMMA OneWaiter ==
    ASSUME CallersHold, NEW t \in Tasks, NEW u \in Tasks,
           Owns(t), pc[u] = "waiting"
    PROVE  u = t
BY DEF CallersHold, Owns

\* Whoever is inside the locked block of exchange heads the lock's queue, and
\* no step of any task or of the environment changes that (client.py:304-309).
LEMMA CallersHoldStep == TypeOK /\ CallersHold /\ [Next]_vars => CallersHold'
<1>. SUFFICES ASSUME TypeOK, CallersHold, [Next]_vars PROVE CallersHold'
  OBVIOUS
<1>. USE ExchangeAssumption DEF CallersHold, InExchange
\* When the owner leaves, nobody is left who waits.
<1>1. ASSUME NEW t \in Tasks, Owns(t), lock' = Tail(lock),
             on' = [on EXCEPT ![t] = None], req' = [req EXCEPT ![t] = None],
             pc' = [pc EXCEPT ![t] = "idle"]
      PROVE  CallersHold'
  BY <1>1, OneWaiter DEF TypeOK
\* A task that joins the queue does not change its head.
<1>2. ASSUME NEW t \in Tasks, NEW q \in Seq(Tasks), lock' = Append(q, t),
             NEW r \in Requests, req' = [req EXCEPT ![t] = r],
             socket \in Sockets, on' = [on EXCEPT ![t] = socket],
             pc' = [pc EXCEPT ![t] = "queued"],
             \A u \in Tasks \ {t} : pc[u] = "waiting" => q # << >> /\ Head(q) = u
      PROVE  CallersHold'
  <2>1. q # << >> => lock' # << >> /\ Head(lock') = Head(q)
    BY <1>2
  <2>2. ASSUME NEW u \in Tasks, u # t PROVE  pc'[u] = pc[u] /\ on'[u] = on[u] /\ req'[u] = req[u]
    BY <1>2, <2>2 DEF TypeOK
  <2>3. pc'[t] = "queued" /\ on'[t] = socket /\ req'[t] = r
    BY <1>2 DEF TypeOK
  <2>. QED
    BY <1>2, <2>1, <2>2, <2>3 DEF Owns
<1>3. ASSUME NEW t \in Connectors, Connecting(t) PROVE CallersHold'
  BY <1>3 DEF Connecting, ConnectCall, ConnectAgain, ConnectDone, ConnectFails,
              AClose, Ready, TypeOK, Owns
<1>4. ASSUME NEW t \in Tasks, Exchanging(t) PROVE CallersHold'
  <2>1. ASSUME NEW r \in Requests, ExchangeCall(t, r) PROVE CallersHold'
    BY <1>2, <2>1 DEF ExchangeCall, Owns, TypeOK
  <2>2. ASSUME Send(t) PROVE CallersHold'
    BY <2>2 DEF Send, Owns, TypeOK
  <2>3. ASSUME SendFails(t) \/ Return(t) \/ ReceiveFails(t) \/ CancelWaiting(t)
        PROVE  CallersHold'
    BY <1>1, <2>3 DEF SendFails, Return, Receives, ReceiveFails, CancelWaiting, Leave
  <2>4. ASSUME NEW r \in Requests, Continue(t, r) PROVE CallersHold'
    <3>1. Owns(t) /\ Tail(lock) \in Seq(Tasks)
      BY <2>4 DEF Continue, Receives, Owns, TypeOK
    <3>2. \A u \in Tasks \ {t} : pc[u] # "waiting"
      BY <3>1, OneWaiter
    <3>. QED
      BY <1>2, <2>4, <3>1, <3>2 DEF Continue, TypeOK
  <2>5. ASSUME CancelConnect(t) PROVE CallersHold'
    BY <2>5 DEF CancelConnect, ConnectFails, TypeOK, Owns
  <2>6. ASSUME CancelQueued(t) PROVE CallersHold'
    <3>1. PICK i \in 1..Len(lock) : lock[i] = t /\ lock' = RemoveAt(lock, i)
      BY <2>6 DEF CancelQueued
    <3>2. ASSUME NEW u \in Tasks, pc[u] = "waiting" PROVE lock' # << >> /\ Head(lock') = u
      <4>1. i # 1
        BY <2>6, <3>1, <3>2 DEF CancelQueued, Owns, TypeOK
      <4>. QED
        BY <3>1, <3>2, <4>1, RemoveAtType DEF TypeOK, Owns
    <3>. QED
      BY <2>6, <3>2 DEF CancelQueued, TypeOK, Owns
  <2>. QED
    BY <1>4, <2>1, <2>2, <2>3, <2>4, <2>5, <2>6 DEF Exchanging, Receive
<1>5. ASSUME NEW s \in Sockets, Environment(s) PROVE CallersHold'
  BY <1>5 DEF Environment, Handle, Answer, Ignore, CloseDone, Drop, Closed, client, Owns
<1>6. CASE UNCHANGED vars
  BY <1>6 DEF vars, client, Owns
<1>. QED
  BY <1>3, <1>4, <1>5, <1>6 DEF Next

-----------------------------------------------------------------------------

Inv == TypeOK /\ Pairing

\* A client that was never connected has nothing sent and nothing to pair.
LEMMA InitInv == Init => Inv
BY ExchangeAssumption
   DEF Init, Quiet, Inv, TypeOK, Pairing, CallersHold, InExchange, Paired, Exclusive

\* A step that leaves the traffic of s, its callers and its end alone.
LEMMA PairedFrame ==
    ASSUME Inv, NEW s \in Sockets \ abandoned,
           wire'[s] = wire[s], inbox'[s] = inbox[s],
           conn'[s] = "closed" <=> conn[s] = "closed",
           \A t \in Tasks : (pc'[t] = "waiting" /\ on'[t] = s)
                                <=> (pc[t] = "waiting" /\ on[t] = s),
           \A t \in Tasks : pc[t] = "waiting" => calls'[t] = calls[t] \/ on[t] # s
    PROVE  Paired(s)'
BY DEF Inv, Pairing, Paired, Leftover, Exclusive, MyId

\* The two ways to take a frame off a connection.
LEMMA PairedReceive ==
    ASSUME Inv, NEW t \in Tasks, Receives(t),
           \A u \in Tasks \ {t} : pc'[u] = pc[u] /\ on'[u] = on[u] /\ calls'[u] = calls[u],
           pc'[t] # "waiting"
    PROVE  \A s \in Sockets \ abandoned : Paired(s)'
<1>. TAKE s \in Sockets \ abandoned
<1>1. Owns(t) /\ on[t] \in Sockets
  BY DEF Inv, Pairing, CallersHold, Receives, InExchange
<1>2. \A u \in Tasks \ {t} : pc[u] # "waiting"
  BY <1>1, OneWaiter DEF Inv, Pairing
<1>3. CASE s # on[t]
  BY <1>3, PairedFrame DEF Receives, Inv, TypeOK
<1>4. CASE s = on[t] /\ conn[s] = "closed"
  BY <1>2, <1>4 DEF Paired, Leftover, Receives
<1>5. CASE s = on[t] /\ conn[s] # "closed"
  <2>1. Exclusive(s) /\ inbox[s] # << >>
    BY <1>5 DEF Inv, Pairing, Paired, Receives
  <2>2. wire[s] = << >> /\ Len(inbox[s]) = 1
    BY <2>1 DEF Exclusive
  <2>3. inbox'[s] = << >> /\ wire'[s] = << >>
    BY <1>1, <1>5, <2>2, TailOfOne DEF Receives, Inv, TypeOK
  <2>. QED
    BY <1>5, <2>3 DEF Paired, Exclusive, Receives
<1>. QED
  BY <1>3, <1>4, <1>5

\* The send inside the lock finds the connection idle, so the request it puts
\* out is the only one with an answer to come (client.py:304-305).
LEMMA PairedSend ==
    ASSUME Inv, NEW t \in Tasks, Send(t)
    PROVE  \A s \in Sockets \ abandoned' : Paired(s)'
<1>. TAKE s \in Sockets \ abandoned'
<1>1. on[t] \in Sockets /\ abandoned' = abandoned
  BY DEF Inv, Pairing, CallersHold, Send, InExchange
<1>2. CASE s # on[t]
  BY <1>1, <1>2, PairedFrame DEF Send, Inv, TypeOK
<1>3. CASE s = on[t]
  <2>1. Exclusive(s) /\ conn'[s] # "closed"
    BY <1>1, <1>3 DEF Inv, Pairing, Paired, Send
  <2>2. wire[s] = << >> /\ inbox[s] = << >>
    BY <2>1, OneWaiter DEF Exclusive, Send, Inv, Pairing
  <2>3. wire'[s] = << [id |-> MyId(t), req |-> req[t]] >> /\ inbox'[s] = << >>
    BY <1>1, <1>3, <2>2 DEF Send, Inv, TypeOK
  <2>4. pc'[t] = "waiting" /\ on'[t] = s /\ MyId(t)' = MyId(t)
    BY <1>3 DEF Send, Inv, TypeOK, MyId
  <2>. QED
    BY <2>1, <2>3, <2>4 DEF Paired, Exclusive
<1>. QED
  BY <1>2, <1>3

\* The gateway's and the library's steps.
LEMMA PairedEnvironment ==
    ASSUME Inv, NEW r \in Sockets, Environment(r)
    PROVE  \A s \in Sockets \ abandoned' : Paired(s)'
<1>. TAKE s \in Sockets \ abandoned'
<1>1. abandoned' = abandoned /\ UNCHANGED client
  BY DEF Environment, Handle, Answer, Ignore, CloseDone, Drop, Closed
<1>2. CASE s # r
  BY <1>1, <1>2, PairedFrame
     DEF Environment, Handle, Answer, Ignore, CloseDone, Drop, Closed, client, Inv, TypeOK
<1>3. CASE s = r /\ Handle(r)
  <2>1. Exclusive(s) /\ wire[s] # << >> /\ conn'[s] # "closed"
    BY <1>1, <1>3 DEF Handle, Answer, Ignore, Alive, Inv, Pairing, Paired
  <2>2. PICK t \in Tasks : /\ pc[t] = "waiting" /\ on[t] = s
                           /\ inbox[s] = << >> /\ Len(wire[s]) = 1
                           /\ wire[s][1].id = MyId(t)
    BY <2>1 DEF Exclusive
  <2>3. wire'[s] = << >>
    <3>1. Tail(wire[s]) = << >>
      BY <2>2, TailOfOne DEF Inv, TypeOK
    <3>. QED
      BY <1>3, <3>1 DEF Handle, Answer, Ignore, Inv, TypeOK
  <2>4. CASE Ignore(r)
    BY <1>1, <1>3, <2>1, <2>2, <2>3, <2>4 DEF Ignore, Paired, Exclusive
  <2>5. ASSUME NEW b \in Replies, Answer(r, b) PROVE Paired(s)'
    <3>1. inbox'[s] = << [id |-> MyId(t), req |-> Head(wire[s]).req, reply |-> b] >>
      BY <1>3, <2>2, <2>5 DEF Answer, Inv, TypeOK
    <3>. QED
      BY <1>1, <2>1, <2>2, <2>3, <3>1 DEF Paired, Exclusive, client, MyId
  <2>. QED
    BY <1>3, <2>4, <2>5 DEF Handle
<1>4. CASE s = r /\ Closed(r) /\ conn[r] # "closed"
  <2>1. Exclusive(s) /\ conn'[s] = "closed" /\ inbox'[s] = inbox[s]
    BY <1>1, <1>4 DEF Closed, Inv, Pairing, Paired, TypeOK
  <2>2. ASSUME NEW t \in Tasks, pc[t] = "waiting", on[t] = s, inbox[s] # << >>
        PROVE  inbox[s][1].id = MyId(t)
    BY <2>1, <2>2, OneWaiter DEF Exclusive, Inv, Pairing, CallersHold
  <2>. QED
    BY <1>1, <2>1, <2>2 DEF Paired, Leftover, client, MyId
<1>. QED
  BY <1>2, <1>3, <1>4 DEF Environment, CloseDone, Drop

\* Every step of a task, of the gateway and of the link keeps the pairing of
\* the request in flight with the one answer to come.
LEMMA PairingStep == Inv /\ [Next]_vars => Inv'
<1>. SUFFICES ASSUME Inv, [Next]_vars PROVE Inv'
  OBVIOUS
<1>1. TypeOK' /\ CallersHold'
  BY TypeStep, CallersHoldStep DEF Inv, Pairing
<1>. SUFFICES \A s \in Sockets \ abandoned' : Paired(s)'
  BY <1>1 DEF Inv, Pairing
<1>2. ASSUME NEW t \in Connectors, Connecting(t)
      PROVE  \A s \in Sockets \ abandoned' : Paired(s)'
  BY <1>2, PairedFrame, ExchangeAssumption
     DEF Connecting, ConnectCall, ConnectAgain, ConnectDone, ConnectFails, AClose,
         Ready, Inv, TypeOK
<1>3. ASSUME NEW t \in Tasks, Exchanging(t)
      PROVE  \A s \in Sockets \ abandoned' : Paired(s)'
  <2>1. ASSUME NEW r \in Requests, ExchangeCall(t, r)
        PROVE  \A s \in Sockets \ abandoned' : Paired(s)'
    BY <2>1, PairedFrame DEF ExchangeCall, Ready, Inv, TypeOK
  <2>2. ASSUME SendFails(t) \/ CancelConnect(t) \/ CancelQueued(t)
        PROVE  \A s \in Sockets \ abandoned' : Paired(s)'
    BY <2>2, PairedFrame DEF SendFails, Leave, CancelConnect, ConnectFails,
                            CancelQueued, Inv, TypeOK
  <2>3. ASSUME Return(t)
        PROVE  \A s \in Sockets \ abandoned' : Paired(s)'
    BY <2>3, PairedReceive DEF Return, Leave, Receives, Inv, TypeOK
  <2>4. ASSUME NEW r \in Requests, Continue(t, r)
        PROVE  \A s \in Sockets \ abandoned' : Paired(s)'
    BY <2>4, PairedReceive DEF Continue, Receives, Inv, TypeOK
  <2>5. ASSUME ReceiveFails(t)
        PROVE  \A s \in Sockets \ abandoned' : Paired(s)'
    <3>1. \A u \in Tasks \ {t} : pc[u] # "waiting"
      BY <2>5, OneWaiter DEF ReceiveFails, Inv, Pairing, CallersHold
    <3>. TAKE s \in Sockets \ abandoned'
    <3>2. CASE s # on[t]
      BY <2>5, <3>2, PairedFrame DEF ReceiveFails, Leave, Inv, TypeOK
    <3>3. CASE s = on[t]
      BY <2>5, <3>1, <3>3 DEF ReceiveFails, Leave, Paired, Leftover, Inv, TypeOK
    <3>. QED
      BY <3>2, <3>3
  <2>6. ASSUME CancelWaiting(t)
        PROVE  \A s \in Sockets \ abandoned' : Paired(s)'
    BY <2>6, PairedFrame DEF CancelWaiting, Leave, Inv, TypeOK
  <2>. QED
    BY <1>3, <2>1, <2>2, <2>3, <2>4, <2>5, <2>6, PairedSend DEF Exchanging, Receive
<1>4. ASSUME NEW r \in Sockets, Environment(r)
      PROVE  \A s \in Sockets \ abandoned' : Paired(s)'
  BY <1>4, PairedEnvironment
<1>5. CASE UNCHANGED vars
  BY <1>5, PairedFrame DEF vars, client
<1>. QED
  BY <1>2, <1>3, <1>4, <1>5 DEF Next

\* The pairing holds in every reachable state.
LEMMA Invariance == Spec => []Inv
BY InitInv, PairingStep, PTL DEF Spec

-----------------------------------------------------------------------------

\* Every variable keeps to its type, whatever tasks, connections, cancellations
\* and drops there are.
THEOREM TypeCorrect == Spec => []TypeOK
<1>1. Inv => TypeOK
  BY DEF Inv
<1>. QED
  BY <1>1, Invariance, PTL

\* The lock alone makes order enough to pair answers with requests: as long as
\* no caller of a connection is cancelled between send() and recv(), every
\* exchange() gets the answer to its own request, and never another one.
THEOREM AnswersBelongToCaller == Spec => []AnswersMatch
<1>1. Inv => AnswersMatch
  <2>. SUFFICES ASSUME Inv, NEW t \in Tasks, pc[t] = "waiting",
                       on[t] \notin abandoned, inbox[on[t]] # << >>
                PROVE  inbox[on[t]][1].id = MyId(t)
    BY DEF AnswersMatch, Received
  <2>1. on[t] \in Sockets \ abandoned /\ Owns(t)
    BY DEF Inv, Pairing, CallersHold, InExchange
  <2>2. CASE conn[on[t]] = "closed"
    BY <2>1, <2>2 DEF Inv, Pairing, Paired, Leftover
  <2>3. CASE conn[on[t]] # "closed"
    <3>1. Exclusive(on[t])
      BY <2>1, <2>3 DEF Inv, Pairing, Paired
    <3>. QED
      BY <2>1, <3>1, OneWaiter DEF Exclusive, Inv, Pairing
  <2>. QED
    BY <2>2, <2>3
<1>. QED
  BY <1>1, Invariance, PTL

\* At most one request of a connection is sent and not received, unless one was
\* abandoned there.
THEOREM OneRequestInFlight == Spec => []SingleInFlightUnlessAbandoned
<1>1. Inv => SingleInFlightUnlessAbandoned
  <2>. SUFFICES ASSUME Inv, NEW s \in Sockets, Alive(s), s \notin abandoned
                PROVE  Len(wire[s]) + Len(inbox[s]) <= 1
    BY DEF SingleInFlightUnlessAbandoned
  <2>1. Exclusive(s)
    BY DEF Inv, Pairing, Paired, Alive
  <2>2. CASE wire[s] = << >> /\ inbox[s] = << >>
    BY <2>2
  <2>3. CASE inbox[s] = << >> /\ Len(wire[s]) = 1
    BY <2>3
  <2>4. CASE wire[s] = << >> /\ Len(inbox[s]) = 1
    BY <2>4
  <2>. QED
    BY <2>1, <2>2, <2>3, <2>4 DEF Exclusive
<1>. QED
  BY <1>1, Invariance, PTL

-----------------------------------------------------------------------------

\* The queue q has each member of S in it, once, and nobody else.
Lines(q, S) ==
    /\ \A t \in Tasks : t \in S <=> \E i \in 1..Len(q) : q[i] = t
    /\ \A i, j \in 1..Len(q) : q[i] = q[j] => i = j

Callers == {t \in Tasks : InExchange(t)}

\* A task that is not in the queue comes behind the others.
LEMMA LinesAppend ==
    ASSUME NEW S, NEW q \in Seq(Tasks), Lines(q, S), NEW t \in Tasks, t \notin S
    PROVE  Lines(Append(q, t), S \cup {t})
<1>. DEFINE p == Append(q, t)
<1>1. /\ Len(p) = Len(q) + 1 /\ p[Len(q) + 1] = t
      /\ \A i \in 1..Len(q) : p[i] = q[i]
  OBVIOUS
<1>2. \A i \in 1..Len(q) : q[i] # t
  BY DEF Lines
<1>. HIDE DEF p
<1>3. ASSUME NEW u \in Tasks
      PROVE  u \in S \cup {t} <=> \E i \in 1..Len(p) : p[i] = u
  <2>1. CASE u = t
    <3>1. Len(q) + 1 \in 1..Len(p)
      BY <1>1
    <3>. QED
      BY <1>1, <2>1, <3>1
  <2>2. CASE u # t
    BY <1>1, <2>2 DEF Lines
  <2>. QED
    BY <2>1, <2>2
<1>4. ASSUME NEW i \in 1..Len(p), NEW j \in 1..Len(p), p[i] = p[j]
      PROVE  i = j
  BY <1>1, <1>2, <1>4 DEF Lines
<1>. QED
  BY <1>3, <1>4 DEF Lines, p

\* Whoever leaves the queue, at whichever place, leaves the others in it.
LEMMA LinesWithout ==
    ASSUME NEW S, NEW q \in Seq(Tasks), Lines(q, S), NEW i \in 1..Len(q),
           NEW p \in Seq(Tasks), Len(p) = Len(q) - 1,
           \A k \in 1..Len(p) : p[k] = IF k < i THEN q[k] ELSE q[k + 1]
    PROVE  Lines(p, S \ {q[i]})
<1>1. ASSUME NEW k \in 1..Len(p), NEW l \in 1..Len(p), p[k] = p[l]
      PROVE  k = l
  BY <1>1 DEF Lines
<1>2. ASSUME NEW k \in 1..Len(p) PROVE p[k] # q[i] /\ \E j \in 1..Len(q) : q[j] = p[k]
  BY <1>2 DEF Lines
<1>3. ASSUME NEW j \in 1..Len(q), j # i PROVE \E k \in 1..Len(p) : p[k] = q[j]
  <2>1. CASE j < i
    BY <2>1
  <2>2. CASE j > i
    <3>1. j - 1 \in 1..Len(p) /\ p[j - 1] = q[j]
      BY <2>2
    <3>. QED
      BY <3>1
  <2>. QED
    BY <1>3, <2>1, <2>2
<1>4. ASSUME NEW u \in Tasks
      PROVE  u \in S \ {q[i]} <=> \E k \in 1..Len(p) : p[k] = u
  <2>1. ASSUME u \in S \ {q[i]} PROVE \E k \in 1..Len(p) : p[k] = u
    <3>1. PICK j \in 1..Len(q) : q[j] = u
      BY <2>1 DEF Lines
    <3>. QED
      BY <1>3, <2>1, <3>1
  <2>2. ASSUME NEW k \in 1..Len(p), p[k] = u PROVE u \in S \ {q[i]}
    BY <1>2, <2>2 DEF Lines
  <2>. QED
    BY <2>1, <2>2
<1>. QED
  BY <1>1, <1>4 DEF Lines

LEMMA LinesTail ==
    ASSUME NEW S, NEW q \in Seq(Tasks), Lines(q, S), q # << >>
    PROVE  Lines(Tail(q), S \ {Head(q)})
<1>1. /\ Tail(q) \in Seq(Tasks) /\ Len(Tail(q)) = Len(q) - 1
      /\ \A k \in 1..Len(Tail(q)) : Tail(q)[k] = q[k + 1]
      /\ 1 \in 1..Len(q) /\ Head(q) = q[1]
  OBVIOUS
<1>. DEFINE p == Tail(q)
<1>2. /\ p \in Seq(Tasks) /\ Len(p) = Len(q) - 1
      /\ \A k \in 1..Len(p) : p[k] = IF k < 1 THEN q[k] ELSE q[k + 1]
  BY <1>1
<1>. HIDE DEF p
<1>3. Lines(p, S \ {q[1]})
  BY <1>1, <1>2, LinesWithout
<1>. QED
  BY <1>1, <1>3 DEF p

LEMMA LinesRemoveAt ==
    ASSUME NEW S, NEW q \in Seq(Tasks), Lines(q, S), NEW i \in 1..Len(q)
    PROVE  Lines(RemoveAt(q, i), S \ {q[i]})
<1>. DEFINE front == SubSeq(q, 1, i - 1)
            back == SubSeq(q, i + 1, Len(q))
<1>1. /\ front \in Seq(Tasks) /\ Len(front) = i - 1
      /\ \A k \in 1..i - 1 : front[k] = q[k]
  BY SubSeqProperties
<1>2. /\ back \in Seq(Tasks) /\ Len(back) = Len(q) - i
      /\ \A k \in 1..Len(q) - i : back[k] = q[k + i]
  BY SubSeqProperties
<1>3. RemoveAt(q, i) = front \o back
  BY DEF RemoveAt
<1>. HIDE DEF front, back
<1>. DEFINE p == front \o back
<1>4. /\ p \in Seq(Tasks) /\ Len(p) = Len(q) - 1
      /\ \A k \in 1..Len(p) : p[k] = IF k <= Len(front) THEN front[k] ELSE back[k - Len(front)]
  <2>1. /\ p \in Seq(Tasks) /\ Len(p) = Len(front) + Len(back)
        /\ \A k \in 1..Len(front) + Len(back) :
              p[k] = IF k <= Len(front) THEN front[k] ELSE back[k - Len(front)]
    BY <1>1, <1>2, ConcatProperties
  <2>2. Len(front) + Len(back) = Len(q) - 1
    BY <1>1, <1>2
  <2>. QED
    BY <2>1, <2>2
<1>. HIDE DEF p
<1>5. ASSUME NEW k \in 1..Len(p)
      PROVE  p[k] = IF k < i THEN q[k] ELSE q[k + 1]
  <2>1. CASE k < i
    BY <1>1, <1>4, <2>1
  <2>2. CASE k >= i
    <3>1. k - (i - 1) \in 1..Len(q) - i /\ p[k] = back[k - (i - 1)]
      BY <1>1, <1>4, <2>2
    <3>2. back[k - (i - 1)] = q[k - (i - 1) + i]
      BY <1>2, <3>1
    <3>3. k - (i - 1) + i = k + 1
      OBVIOUS
    <3>. QED
      BY <2>2, <3>1, <3>2, <3>3
  <2>. QED
    BY <2>1, <2>2
<1>6. Lines(p, S \ {q[i]})
  BY <1>4, <1>5, LinesWithout
<1>. QED
  BY <1>3, <1>6 DEF p

\* Every step keeps the queue of the lock that of the tasks in exchange().
LEMMA LinesStep ==
    Inv /\ Lines(lock, Callers) /\ [Next]_vars => Lines(lock, Callers)'
<1>. SUFFICES ASSUME Inv, Lines(lock, Callers), [Next]_vars
              PROVE  Lines(lock', Callers')
  BY DEF Lines
<1>0. lock \in Seq(Tasks)
  BY DEF Inv, TypeOK
\* The owner leaves.
<1>1. ASSUME NEW t \in Tasks, Owns(t), InExchange(t), lock' = Tail(lock),
             pc' = [pc EXCEPT ![t] = "idle"]
      PROVE  Lines(lock', Callers')
  <2>1. Callers' = Callers \ {t}
    BY <1>1 DEF Callers, InExchange, Inv, TypeOK
  <2>. QED
    BY <1>0, <1>1, <2>1, LinesTail DEF Owns
<1>2. ASSUME lock' = lock, Callers' = Callers
      PROVE  Lines(lock', Callers')
  BY <1>2
<1>3. ASSUME NEW t \in Connectors, Connecting(t) PROVE Lines(lock', Callers')
  <2>1. lock' = lock
    BY <1>3 DEF Connecting, ConnectCall, ConnectAgain, ConnectDone, ConnectFails, AClose
  <2>2. Callers' = Callers
    BY <1>3, ExchangeAssumption
       DEF Connecting, ConnectCall, ConnectAgain, ConnectDone, ConnectFails, AClose,
           Ready, Callers, InExchange, Inv, TypeOK
  <2>. QED
    BY <1>2, <2>1, <2>2
<1>4. ASSUME NEW t \in Tasks, Exchanging(t) PROVE Lines(lock', Callers')
  <2>1. ASSUME NEW r \in Requests, ExchangeCall(t, r) PROVE Lines(lock', Callers')
    <3>1. t \notin Callers /\ Callers' = Callers \cup {t}
      BY <2>1 DEF ExchangeCall, Ready, Callers, InExchange, Inv, TypeOK
    <3>. QED
      BY <1>0, <2>1, <3>1, LinesAppend DEF ExchangeCall
  <2>2. ASSUME Send(t) PROVE Lines(lock', Callers')
    <3>1. Callers' = Callers
      BY <2>2 DEF Send, Callers, InExchange, Inv, TypeOK
    <3>. QED
      BY <1>2, <2>2, <3>1 DEF Send
  <2>3. ASSUME SendFails(t) \/ Return(t) \/ ReceiveFails(t) \/ CancelWaiting(t)
        PROVE  Lines(lock', Callers')
    <3>1. InExchange(t) /\ lock' = Tail(lock) /\ pc' = [pc EXCEPT ![t] = "idle"]
      BY <2>3 DEF SendFails, Return, Receives, ReceiveFails, CancelWaiting, Leave, InExchange
    <3>2. Owns(t)
      BY <2>3 DEF SendFails, Return, Receives, ReceiveFails, CancelWaiting, Inv, Pairing,
                  CallersHold
    <3>. QED
      BY <1>1, <3>1, <3>2
  <2>4. ASSUME NEW r \in Requests, Continue(t, r) PROVE Lines(lock', Callers')
    <3>1. Owns(t) /\ t \in Callers /\ lock' = Append(Tail(lock), t)
      BY <2>4 DEF Continue, Receives, Callers, InExchange, Inv, Pairing, CallersHold
    <3>2. Tail(lock) \in Seq(Tasks) /\ Lines(Tail(lock), Callers \ {t})
      BY <1>0, <3>1, LinesTail DEF Owns
    <3>3. Lines(Append(Tail(lock), t), (Callers \ {t}) \cup {t})
      BY <3>2, LinesAppend
    <3>4. Callers' = (Callers \ {t}) \cup {t}
      BY <2>4, <3>1 DEF Continue, Callers, InExchange, Inv, TypeOK
    <3>. QED
      BY <3>1, <3>3, <3>4
  <2>5. ASSUME CancelConnect(t) PROVE Lines(lock', Callers')
    <3>1. lock' = lock /\ Callers' = Callers
      BY <2>5 DEF CancelConnect, ConnectFails, Callers, InExchange, Inv, TypeOK
    <3>. QED
      BY <1>2, <3>1
  <2>6. ASSUME CancelQueued(t) PROVE Lines(lock', Callers')
    <3>1. PICK i \in 1..Len(lock) : lock[i] = t /\ lock' = RemoveAt(lock, i)
      BY <2>6 DEF CancelQueued
    <3>2. Callers' = Callers \ {t}
      BY <2>6 DEF CancelQueued, Callers, InExchange, Inv, TypeOK
    <3>. QED
      BY <1>0, <3>1, <3>2, LinesRemoveAt
  <2>. QED
    BY <1>4, <2>1, <2>2, <2>3, <2>4, <2>5, <2>6 DEF Exchanging, Receive
<1>5. ASSUME NEW s \in Sockets, Environment(s) PROVE Lines(lock', Callers')
  <2>1. UNCHANGED client
    BY <1>5 DEF Environment, Handle, Answer, Ignore, CloseDone, Drop, Closed
  <2>. QED
    BY <1>2, <2>1 DEF client, Callers, InExchange
<1>6. CASE UNCHANGED vars
  BY <1>2, <1>6 DEF vars, client, Callers, InExchange
<1>. QED
  BY <1>3, <1>4, <1>5, <1>6 DEF Next

\* No exit of exchange(), by return, exception or cancellation, and from whichever
\* place in the queue, loses the lock or keeps it: the tasks in the queue of the
\* lock are those in exchange(), each once, and only the owner has sent.
THEOREM LockIsKept == Spec => []LockDiscipline
<1>1. Init => Lines(lock, Callers)
  BY DEF Init, Quiet, Lines, Callers, InExchange
<1>2. Inv /\ Lines(lock, Callers) => LockDiscipline
  BY DEF Inv, Pairing, CallersHold, Lines, Callers, LockDiscipline, InExchange
<1>. QED
  BY <1>1, <1>2, LinesStep, Invariance, PTL DEF Spec

-----------------------------------------------------------------------------
(* Connections *)

\* Whoever is in the middle of connect() found no socket, and the client has
\* got none since.
NoneMeanwhile == \A t \in Tasks : pc[t] = "connecting" => t \in Connectors /\ socket = None

LEMMA SessionStep ==
    ASSUME TypeOK, OneSession, NoneMeanwhile, ~ConnectsOverlap, [Next]_vars
    PROVE  OneSession' /\ NoneMeanwhile'
<1>1. /\ Connectors \subseteq Tasks /\ None \notin Sockets
      /\ \A t \in Tasks : \A w : [pc EXCEPT ![t] = w][t] = w
      /\ \A t, u \in Tasks : \A w : u # t => [pc EXCEPT ![t] = w][u] = pc[u]
  BY ExchangeAssumption DEF TypeOK
\* What neither connects nor opens a connection.
<1>2. ASSUME NEW t \in Tasks, NEW w, w # "connecting",
             pc' = [pc EXCEPT ![t] = w] \/ UNCHANGED pc, UNCHANGED <<socket, conn>>
      PROVE  OneSession' /\ NoneMeanwhile'
  BY <1>1, <1>2 DEF OneSession, NoneMeanwhile
<1>3. ASSUME NEW t \in Connectors, ConnectCall(t)
      PROVE  OneSession' /\ NoneMeanwhile'
  BY <1>1, <1>3 DEF ConnectCall, OneSession, NoneMeanwhile
<1>4. ASSUME NEW t \in Connectors, NEW s \in Sockets, ConnectDone(t, s)
      PROVE  OneSession' /\ NoneMeanwhile'
  <2>1. \A r \in Sockets : conn[r] # "open"
    BY <1>1, <1>4 DEF ConnectDone, OneSession, NoneMeanwhile
  <2>2. \A r \in Sockets : conn'[r] = "open" => r = s
    BY <1>4, <2>1 DEF ConnectDone, TypeOK
  <2>3. \A u \in Tasks : pc'[u] # "connecting"
    BY <1>1, <1>4 DEF ConnectDone, NoneMeanwhile, ConnectsOverlap
  <2>. QED
    BY <1>4, <2>2, <2>3 DEF ConnectDone, OneSession, NoneMeanwhile
<1>5. ASSUME NEW t \in Connectors, AClose(t)
      PROVE  OneSession' /\ NoneMeanwhile'
  <2>1. \A r \in Sockets : conn'[r] # "open"
    BY <1>5 DEF AClose, OneSession, TypeOK
  <2>2. \A u \in Tasks : pc'[u] = "connecting" => pc[u] = "connecting"
    BY <1>1, <1>5 DEF AClose
  <2>. QED
    BY <1>5, <2>1, <2>2 DEF AClose, OneSession, NoneMeanwhile
<1>6. ASSUME NEW t \in Connectors, Connecting(t)
      PROVE  OneSession' /\ NoneMeanwhile'
  BY <1>1, <1>2, <1>3, <1>4, <1>5, <1>6 DEF Connecting, ConnectAgain, ConnectFails
<1>7. ASSUME NEW t \in Tasks, Exchanging(t)
      PROVE  OneSession' /\ NoneMeanwhile'
  BY <1>2, <1>7 DEF Exchanging, ExchangeCall, Send, SendFails, Receive, Return, Continue,
      ReceiveFails, Receives, Leave, CancelConnect, ConnectFails, CancelQueued, CancelWaiting
<1>8. ASSUME NEW s \in Sockets, Environment(s)
      PROVE  OneSession' /\ NoneMeanwhile'
  <2>1. UNCHANGED <<socket, pc>>
    BY <1>8 DEF Environment, Handle, Answer, Ignore, CloseDone, Drop, Closed, client
  <2>2. \A r \in Sockets : conn'[r] = "open" => conn[r] = "open"
    BY <1>8 DEF Environment, Handle, Answer, Ignore, CloseDone, Drop, Closed, TypeOK
  <2>. QED
    BY <2>1, <2>2 DEF OneSession, NoneMeanwhile
<1>9. CASE UNCHANGED vars
  BY <1>9 DEF vars, client, OneSession, NoneMeanwhile
<1>. QED
  BY <1>6, <1>7, <1>8, <1>9 DEF Next

\* As long as no two connect() are in flight at once, the client has no open
\* connection but the stored one, for any number of tasks that connect and close,
\* in whatever order connect(), aclose() and exchange() end (client.py:104-126).
THEOREM SessionsNeedOverlap == Spec => OneSessionUnlessOverlap
<1>1. Init => OneSession /\ NoneMeanwhile
  BY DEF Init, Quiet, OneSession, NoneMeanwhile
<1>2. /\ TypeOK /\ OneSession /\ NoneMeanwhile /\ ~ConnectsOverlap /\ [Next]_vars
      => OneSession' /\ NoneMeanwhile'
  BY SessionStep
<1>. QED
  BY <1>1, <1>2, TypeCorrect, PTL DEF Spec, OneSessionUnlessOverlap

=============================================================================
