------------------------------ MODULE Exchange ------------------------------
(***************************************************************************)
(* The request/response discipline of AtmosClient (client.py): one         *)
(* WebSocket, one asyncio lock, no request identifiers on the wire.        *)
(*                                                                         *)
(* A step of this module is what one asyncio task does between two         *)
(* suspension points, or what the WebSocket library or the gateway does.   *)
(* Requests carry a ghost identifier (caller, call number) that the real   *)
(* frames do not have: the code pairs an answer with a call by order only, *)
(* and the identifier says whether the pairing was right.                  *)
(***************************************************************************)
EXTENDS Naturals, Sequences, SequencesExt

CONSTANTS
    Tasks,      \* asyncio tasks that share one AtmosClient
    Connectors, \* the tasks that call connect() and aclose()
    MayCancel,  \* the tasks that may be cancelled (stop(), wait_for, ...)
    Sockets,    \* the WebSocket connections a run may open, each used once
    Lossy,      \* the connections the network or the gateway may drop
    Requests,   \* what a frame asks for
    Silent,     \* the requests that the gateway may leave unanswered
    Replies,    \* what an answer says
    None,       \* Python's None
    MaxCalls,   \* call numbers 1..MaxCalls are used again after the last one
    MaxPending  \* bound: a sent request is abandoned only below so many

ASSUME ExchangeAssumption ==
    /\ Connectors \subseteq Tasks
    /\ MayCancel \subseteq Tasks
    /\ Lossy \subseteq Sockets
    /\ Silent \subseteq Requests
    /\ None \notin Sockets \cup Requests
    /\ MaxCalls \in Nat \ {0}
    /\ MaxPending \in Nat

VARIABLES
    socket,     \* AtmosClient._socket
    lock,       \* AtmosClient._lock: owner first, then its waiters in order
    pc,         \* where each task is suspended
    on,         \* the local `socket` of the exchange() a task is in, or None
    req,        \* the request of that exchange(), or None
    calls,      \* the number of each task's latest exchange (ghost)
    conn,       \* state of each connection
    wire,       \* requests sent on a connection and not yet answered
    inbox,      \* answers that reached the client and were not received
    abandoned   \* connections on which a sent request lost its caller (ghost)

client == <<socket, lock, pc, on, req, calls>>
vars == <<client, conn, wire, inbox, abandoned>>

Ready == {"idle", "connected"}
CallIds == Tasks \X (0..MaxCalls)
Messages == [id : CallIds, req : Requests]
Answers == [id : CallIds, req : Requests, reply : Replies]

Following(n) == IF n = MaxCalls THEN 1 ELSE n + 1

\* The call that task t is in.
MyId(t) == <<t, calls[t]>>

TypeOK ==
    /\ socket \in Sockets \cup {None}
    /\ lock \in Seq(Tasks)
    /\ pc \in [Tasks -> {"idle", "connecting", "connected", "queued", "waiting"}]
    /\ on \in [Tasks -> Sockets \cup {None}]
    /\ req \in [Tasks -> Requests \cup {None}]
    /\ calls \in [Tasks -> 0..MaxCalls]
    /\ conn \in [Sockets -> {"unused", "open", "closing", "closed"}]
    /\ wire \in [Sockets -> Seq(Messages)]
    /\ inbox \in [Sockets -> Seq(Answers)]
    /\ abandoned \subseteq Sockets

\* No task uses the client and nothing was ever sent.
Quiet ==
    /\ lock = << >>
    /\ pc = [t \in Tasks |-> "idle"]
    /\ on = [t \in Tasks |-> None]
    /\ req = [t \in Tasks |-> None]
    /\ calls = [t \in Tasks |-> 0]
    /\ wire = [s \in Sockets |-> << >>]
    /\ inbox = [s \in Sockets |-> << >>]
    /\ abandoned = {}

Init ==
    /\ Quiet
    /\ socket = None
    /\ conn = [s \in Sockets |-> "unused"]

\* What a first connect() leaves, for modules that begin there.
Connected(s) ==
    /\ Quiet
    /\ socket = s
    /\ conn = [r \in Sockets |-> IF r = s THEN "open" ELSE "unused"]

-----------------------------------------------------------------------------
(* connect() and aclose() *)

\* connect() when there is no socket: suspended in to_thread, then in connect.
ConnectCall(t) ==
    /\ pc[t] \in Ready
    /\ socket = None
    /\ pc' = [pc EXCEPT ![t] = "connecting"]
    /\ UNCHANGED <<socket, lock, on, req, calls, conn, wire, inbox, abandoned>>

\* connect() when a socket is stored: returns at once, whatever its state.
ConnectAgain(t) ==
    /\ pc[t] \in Ready
    /\ socket # None
    /\ pc' = [pc EXCEPT ![t] = "connected"]
    /\ UNCHANGED <<socket, lock, on, req, calls, conn, wire, inbox, abandoned>>

\* The handshake succeeds: the new socket replaces whatever is stored by now.
ConnectDone(t, s) ==
    /\ pc[t] = "connecting"
    /\ conn[s] = "unused"
    /\ conn' = [conn EXCEPT ![s] = "open"]
    /\ socket' = s
    /\ pc' = [pc EXCEPT ![t] = "connected"]
    /\ UNCHANGED <<lock, on, req, calls, wire, inbox, abandoned>>

\* The handshake or the SSL context fails; connect() raises.
ConnectFails(t) ==
    /\ pc[t] = "connecting"
    /\ pc' = [pc EXCEPT ![t] = "idle"]
    /\ UNCHANGED <<socket, lock, on, req, calls, conn, wire, inbox, abandoned>>

\* Mutant: aclose() spares a connection while somebody uses the client.
ACloseSparesBusy(t) ==
    /\ pc[t] \in Ready
    /\ socket # None
    /\ socket' = None
    /\ conn' = [conn EXCEPT ![socket] = IF @ = "open" /\ lock = << >> THEN "closing" ELSE @]
    /\ pc' = [pc EXCEPT ![t] = "idle"]
    /\ UNCHANGED <<lock, on, req, calls, wire, inbox, abandoned>>

\* aclose(): the reference goes first, then the closing handshake starts on a
\* connection that is still open.  Nothing follows the await, so the caller is
\* not tracked further; without a socket aclose() changes nothing.
AClose(t) ==
    /\ pc[t] \in Ready
    /\ socket # None
    /\ socket' = None
    /\ conn' = [conn EXCEPT ![socket] = IF @ = "open" THEN "closing" ELSE @]
    /\ pc' = [pc EXCEPT ![t] = "idle"]
    /\ UNCHANGED <<lock, on, req, calls, wire, inbox, abandoned>>

-----------------------------------------------------------------------------
(* exchange() *)

\* exchange() up to the lock.  The socket is read before the lock is asked
\* for.  (Without a socket the call raises NotConnectedError: no step.)
ExchangeCall(t, r) ==
    /\ pc[t] \in Ready
    /\ socket # None
    /\ lock' = Append(lock, t)
    /\ pc' = [pc EXCEPT ![t] = "queued"]
    /\ on' = [on EXCEPT ![t] = socket]
    /\ req' = [req EXCEPT ![t] = r]
    /\ calls' = [calls EXCEPT ![t] = Following(@)]
    /\ UNCHANGED <<socket, conn, wire, inbox, abandoned>>

Owns(t) == lock # << >> /\ Head(lock) = t

\* Mutant: exchange() without `async with self._lock`.
SendUnlocked(t) ==
    /\ pc[t] = "queued"
    /\ conn[on[t]] = "open"
    /\ wire' = [wire EXCEPT ![on[t]] = Append(@, [id |-> MyId(t), req |-> req[t]])]
    /\ pc' = [pc EXCEPT ![t] = "waiting"]
    /\ UNCHANGED <<socket, lock, on, req, calls, conn, inbox, abandoned>>

\* The owner of the lock sends its frame and starts to wait for the next one.
Send(t) ==
    /\ pc[t] = "queued"
    /\ Owns(t)
    /\ conn[on[t]] = "open"
    /\ wire' = [wire EXCEPT ![on[t]] = Append(@, [id |-> MyId(t), req |-> req[t]])]
    /\ pc' = [pc EXCEPT ![t] = "waiting"]
    /\ UNCHANGED <<socket, lock, on, req, calls, conn, inbox, abandoned>>

\* exchange() ends, with a frame or with an exception, and releases the lock.
Leave(t) ==
    /\ lock' = Tail(lock)
    /\ pc' = [pc EXCEPT ![t] = "idle"]
    /\ on' = [on EXCEPT ![t] = None]
    /\ req' = [req EXCEPT ![t] = None]
    /\ UNCHANGED <<socket, calls>>

\* send() on a closed connection raises ConnectionClosed.
SendFails(t) ==
    /\ pc[t] = "queued"
    /\ Owns(t)
    /\ conn[on[t]] = "closed"
    /\ Leave(t)
    /\ UNCHANGED <<conn, wire, inbox, abandoned>>

\* What recv() hands to task t next.
Received(t) == Head(inbox[on[t]])

Receives(t) ==
    /\ pc[t] = "waiting"
    /\ inbox[on[t]] # << >>
    /\ inbox' = [inbox EXCEPT ![on[t]] = Tail(@)]
    /\ UNCHANGED <<conn, wire, abandoned>>

\* recv() returns the oldest frame of the connection; exchange() returns it.
Return(t) == Receives(t) /\ Leave(t)

\* The caller takes the frame and makes its next exchange before it suspends:
\* the lock goes to the next waiter, and the caller queues behind the others.
Continue(t, r) ==
    /\ Receives(t)
    /\ socket # None
    /\ lock' = Append(Tail(lock), t)
    /\ pc' = [pc EXCEPT ![t] = "queued"]
    /\ on' = [on EXCEPT ![t] = socket]
    /\ req' = [req EXCEPT ![t] = r]
    /\ calls' = [calls EXCEPT ![t] = Following(@)]
    /\ UNCHANGED socket

\* Mutant: recv() gives up on a connection that is still open.
ReceiveTimesOut(t) ==
    /\ pc[t] = "waiting"
    /\ Leave(t)
    /\ UNCHANGED <<conn, wire, inbox, abandoned>>

\* Mutant: the end of the stored connection is noticed, not of the captured one.
ReceiveFailsOnStored(t) ==
    /\ pc[t] = "waiting"
    /\ socket # None
    /\ conn[socket] = "closed"
    /\ Leave(t)
    /\ UNCHANGED <<conn, wire, inbox, abandoned>>

\* recv() on a closed connection raises ConnectionClosed.
ReceiveFails(t) ==
    /\ pc[t] = "waiting"
    /\ conn[on[t]] = "closed"
    /\ Leave(t)
    /\ UNCHANGED <<conn, wire, inbox, abandoned>>

\* Cancelled in connect().
CancelConnect(t) ==
    /\ t \in MayCancel
    /\ ConnectFails(t)

\* Cancelled while it waits for the lock, or before its frame is written.
CancelQueued(t) ==
    /\ t \in MayCancel
    /\ pc[t] = "queued"
    /\ \E i \in 1..Len(lock) : lock[i] = t /\ lock' = RemoveAt(lock, i)
    /\ pc' = [pc EXCEPT ![t] = "idle"]
    /\ on' = [on EXCEPT ![t] = None]
    /\ req' = [req EXCEPT ![t] = None]
    /\ UNCHANGED <<socket, calls, conn, wire, inbox, abandoned>>

\* Mutant: the lock is not released when recv() is cancelled.
CancelWaitingKeepsLock(t) ==
    /\ t \in MayCancel
    /\ pc[t] = "waiting"
    /\ Len(wire[on[t]]) + Len(inbox[on[t]]) < MaxPending
    /\ pc' = [pc EXCEPT ![t] = "idle"]
    /\ abandoned' = abandoned \cup {on[t]}
    /\ UNCHANGED <<socket, lock, on, req, calls, conn, wire, inbox>>

\* Cancelled in recv(): the lock is released, the request stays sent and its
\* answer, arrived or not, stays on the connection.
CancelWaiting(t) ==
    /\ t \in MayCancel
    /\ pc[t] = "waiting"
    /\ Len(wire[on[t]]) + Len(inbox[on[t]]) < MaxPending
    /\ Leave(t)
    /\ abandoned' = abandoned \cup {on[t]}
    /\ UNCHANGED <<conn, wire, inbox>>

-----------------------------------------------------------------------------
(* The gateway and the WebSocket library (external) *)

Alive(s) == conn[s] \in {"open", "closing"}

\* The gateway answers the requests of one connection in order.
Answer(s, b) ==
    /\ Alive(s)
    /\ wire[s] # << >>
    /\ inbox' = [inbox EXCEPT ![s] = Append(@,
            [id |-> Head(wire[s]).id, req |-> Head(wire[s]).req, reply |-> b])]
    /\ wire' = [wire EXCEPT ![s] = Tail(@)]
    /\ UNCHANGED <<client, conn, abandoned>>

\* The gateway leaves a request unanswered.
Ignore(s) ==
    /\ Alive(s)
    /\ wire[s] # << >>
    /\ Head(wire[s]).req \in Silent
    /\ wire' = [wire EXCEPT ![s] = Tail(@)]
    /\ UNCHANGED <<client, conn, inbox, abandoned>>

\* The connection ends: closing handshake done or timed out, or it is lost.
Closed(s) ==
    /\ conn' = [conn EXCEPT ![s] = "closed"]
    /\ wire' = [wire EXCEPT ![s] = << >>]
    /\ UNCHANGED <<client, inbox, abandoned>>

CloseDone(s) == conn[s] = "closing" /\ Closed(s)

Drop(s) == s \in Lossy /\ conn[s] = "open" /\ Closed(s)

-----------------------------------------------------------------------------

Receive(t) ==
    \/ Return(t)
    \/ \E r \in Requests : Continue(t, r)
    \/ ReceiveFails(t)

Handle(s) == Ignore(s) \/ \E b \in Replies : Answer(s, b)

Connecting(t) ==
    \/ ConnectCall(t)
    \/ ConnectAgain(t)
    \/ \E s \in Sockets : ConnectDone(t, s)
    \/ ConnectFails(t)
    \/ AClose(t)

Exchanging(t) ==
    \/ \E r \in Requests : ExchangeCall(t, r)
    \/ Send(t)
    \/ SendFails(t)
    \/ Receive(t)
    \/ CancelConnect(t)
    \/ CancelQueued(t)
    \/ CancelWaiting(t)

Environment(s) ==
    \/ Handle(s)
    \/ CloseDone(s)
    \/ Drop(s)

Next ==
    \/ \E t \in Connectors : Connecting(t)
    \/ \E t \in Tasks : Exchanging(t)
    \/ \E s \in Sockets : Environment(s)

Spec == Init /\ [][Next]_vars

\* The event loop runs every task that can run, close() has a timeout, and a
\* gateway that may ignore a request gets to it.
Fairness ==
    /\ \A t \in Tasks : WF_vars(Send(t) \/ SendFails(t)) /\ WF_vars(Receive(t))
    /\ \A s \in Sockets : WF_vars(Handle(s)) /\ WF_vars(CloseDone(s))

FairSpec == Spec /\ Fairness

-----------------------------------------------------------------------------
(* What the client promises *)

InExchange(t) == pc[t] \in {"queued", "waiting"}

\* On a connection on which no caller was cancelled after it had sent, recv()
\* hands every exchange() the answer to its own request.
AnswersMatch ==
    \A t \in Tasks :
        pc[t] = "waiting" /\ on[t] \notin abandoned /\ inbox[on[t]] # << >>
            => Received(t).id = MyId(t)

\* Every task in exchange() is in the lock's queue, once, and nobody else is;
\* only the owner has sent.  No exit of exchange() loses or keeps the lock.
LockDiscipline ==
    /\ \A t \in Tasks : InExchange(t) <=> \E i \in 1..Len(lock) : lock[i] = t
    /\ \A i, j \in 1..Len(lock) : lock[i] = lock[j] => i = j
    /\ \A t \in Tasks : pc[t] = "waiting" => Owns(t)

\* "The UI keeps a single request in flight.  This method does the same with
\* an asyncio lock" (client.py:288): at most one request of a connection is
\* unanswered at the gateway.
SingleInFlight == \A s \in Sockets : Len(wire[s]) <= 1

\* The same, with the unread answers counted too, where the code achieves it:
\* on a connection on which no sent request was abandoned.
SingleInFlightUnlessAbandoned ==
    \A s \in Sockets :
        Alive(s) /\ s \notin abandoned => Len(wire[s]) + Len(inbox[s]) <= 1

\* A task in exchange() has captured a connection and a request, and one that has sent owns
\* the lock.
CallersHold ==
    \A t \in Tasks :
        /\ InExchange(t) => on[t] \in Sockets /\ req[t] \in Requests
        /\ pc[t] = "waiting" => Owns(t)

\* The one thing in flight, if any, belongs to a task that waits for it.
Exclusive(s) ==
    \/ wire[s] = << >> /\ inbox[s] = << >>
    \/ \E t \in Tasks :
        /\ pc[t] = "waiting"
        /\ on[t] = s
        /\ \/ /\ inbox[s] = << >>
              /\ Len(wire[s]) = 1
              /\ wire[s][1].id = MyId(t)
           \/ /\ wire[s] = << >>
              /\ Len(inbox[s]) = 1
              /\ inbox[s][1].id = MyId(t)

\* A closed connection may keep an answer nobody received.
Leftover(s) ==
    \A t \in Tasks :
        pc[t] = "waiting" /\ on[t] = s /\ inbox[s] # << >>
            => inbox[s][1].id = MyId(t)

Paired(s) == IF conn[s] = "closed" THEN Leftover(s) ELSE Exclusive(s)

\* The inductive invariant behind AnswersMatch: nothing is in flight on a
\* connection without a caller that waits for exactly that.
Pairing ==
    /\ CallersHold
    /\ \A s \in Sockets \ abandoned : Paired(s)

\* "One WG1000 session" (client.py:57): the client has no open connection
\* besides the one it can still close.
OneSession == \A s \in Sockets : conn[s] = "open" => s = socket

\* Two tasks are in connect(), both past the test of _socket.
ConnectsOverlap ==
    \E t, u \in Connectors : t # u /\ pc[t] = "connecting" /\ pc[u] = "connecting"

\* The same, where the code achieves it: nothing but two connect() in flight at
\* once (client.py:114-117) costs the client a session.  Not an aclose() during
\* a connect() or an exchange(), not a lost connection that is still stored, no
\* failed or cancelled handshake, whoever connects and closes.
OneSessionUnlessOverlap == []~ConnectsOverlap => []OneSession

\* Task t is in its n-th exchange().
InCall(t, n) == InExchange(t) /\ calls[t] = n

\* A caller waits on an open connection for an answer that the gateway will
\* never give.
Starved ==
    \E t \in Tasks :
        /\ pc[t] = "waiting"
        /\ conn[on[t]] = "open"
        /\ wire[on[t]] = << >>
        /\ inbox[on[t]] = << >>

\* Every exchange() ends, whoever is cancelled and whichever connection is
\* closed or dropped meanwhile, unless the gateway has ignored a request.
CallsReturn ==
    \A t \in Tasks, n \in 1..MaxCalls : InCall(t, n) ~> (~InCall(t, n) \/ Starved)

\* The same on a connection that the client has lost: aclose() does not reach it.
Stranded ==
    \E t \in Tasks :
        /\ pc[t] = "waiting"
        /\ conn[on[t]] = "open" /\ on[t] # socket
        /\ wire[on[t]] = << >>
        /\ inbox[on[t]] = << >>

\* Even with a gateway that ignores requests, aclose() (or the loss of the
\* connection) ends the exchange() of everybody who holds that connection: no
\* caller on another connection can block them, unless it is one that two
\* overlapping connect() have left open and no aclose() will ever close.
CloseReleases ==
    \A t \in Tasks, n \in 1..MaxCalls :
        InCall(t, n) /\ conn[on[t]] # "open" ~> (~InCall(t, n) \/ Stranded)

=============================================================================
