---------------------------- MODULE AtmosClient -----------------------------
(***************************************************************************)
(* The operations of AtmosClient (client.py) over exchange(): one-frame    *)
(* commands, the Info dump and the file download, which take many frames,  *)
(* and the data lock that dumps and own texts take around theirs.          *)
(*                                                                         *)
(* Each task runs a script of operations on a client that was connected.   *)
(* A dump or a file is the sequence of its chunks; a chunk is named by     *)
(* what it is of, its place, and the edition of the dump it belongs to.    *)
(***************************************************************************)
EXTENDS Naturals, Sequences, SequencesExt

CONSTANTS
    Tasks,      \* the callers
    Script,     \* the operations that each of them makes, in order
    Looping,    \* the callers that begin their script again at its end
    Impatient,  \* the callers that may be cancelled
    App,        \* the task that may call aclose()
    Link,       \* the connection
    Lossy,      \* {Link} if it may be lost
    Chunks,     \* how many chunks the gateway cuts a dump or a file into
    Missing,    \* files that the gateway answers for with an error flag
    Endless,    \* controllers whose dump never says it is complete
    Contents,   \* what the rows of an Info chunk may say
    MaxChunks,  \* more than so many chunks without an end are refused (256)
    MaxCalls, MaxPending,
    None

VARIABLES
    socket, lock, pc, on, req, calls, conn, wire, inbox, abandoned,  \* Exchange
    data_lock,  \* _data_lock: owner first, then its waiters in order
    step,       \* which operation of its script each task is at
    at,         \* where in that operation it is
    parts,      \* the chunks it has received for it
    helloed,    \* the gateway has seen Hello on the connection
    cursor      \* the gateway's dump in progress

exchange == <<socket, lock, pc, on, req, calls, conn, wire, inbox, abandoned>>
gateway == <<helloed, cursor>>
vars == <<exchange, data_lock, step, at, parts, gateway>>

Ops == UNION {{Script[t][i] : i \in 1..Len(Script[t])} : t \in Tasks}
Targets == {o.of : o \in Ops}
Editions == 0..1
Kinds == {"hello", "login", "logout", "read", "write", "own", "info", "file"}

\* `pos` is the req word of an Info request, the byte count of a file
\* acknowledgement.
Requests == [kind : Kinds \cup {"ack"}, of : Targets, pos : Nat]

\* `pos` is the first row of an Info chunk, the offset of a file chunk.
Replies == [kind : Kinds \cup {"error"}, of : Targets, pos : Nat, last : BOOLEAN,
            edition : Editions, said : Contents]

ASSUME AtmosClientAssumption ==
    /\ Impatient \subseteq Tasks
    /\ \A t \in Tasks : Script[t] \in Seq(Ops)
    /\ \A o \in Ops : o.name \in Kinds
    /\ Lossy \subseteq {Link}
    /\ None # Link /\ None \notin Requests
    /\ Contents # {}
    /\ MaxChunks \in Nat
    /\ Chunks \in 1..MaxChunks + 1
    /\ MaxCalls \in Nat \ {0}
    /\ MaxPending \in Nat

X == INSTANCE Exchange WITH
        Tasks <- Tasks \cup {App},
        Connectors <- {App},
        MayCancel <- Impatient,
        Sockets <- {Link},
        Silent <- {r \in Requests : r.kind = "read"}

Op(t) == Script[t][step[t]]

TypeOK ==
    /\ X!TypeOK
    /\ data_lock \in Seq(Tasks)
    /\ step \in [Tasks -> Nat \ {0}]
    /\ \A t \in Tasks : step[t] <= Len(Script[t]) + 1
    /\ at \in [Tasks -> {"between", "datalock", "exchange"}]
    /\ parts \in [Tasks -> Seq(Replies)]
    /\ helloed \in BOOLEAN
    /\ cursor \in [of : Targets, next : Nat, edition : Editions]

Init ==
    /\ X!Connected(Link)
    /\ data_lock = << >>
    /\ step = [t \in Tasks |-> 1]
    /\ at = [t \in Tasks |-> "between"]
    /\ parts = [t \in Tasks |-> << >>]
    /\ helloed = FALSE
    /\ cursor \in [of : Targets, next : {0}, edition : {0}]

-----------------------------------------------------------------------------
(* Requests and answers of an operation *)

\* Mutant: fetch_info() does without the data lock.
LockedOwnText(op) == op.name = "own"

Locked(op) == op.name \in {"own", "info"}

\* Mutant: each acknowledgement asks for the file from its beginning.
AskFromStart(op, ps) ==
    CASE op.name = "info" ->
            [kind |-> "info", of |-> op.of, pos |-> IF ps = << >> THEN 1 ELSE 0]
      [] op.name = "file" /\ ps # << >> ->
            [kind |-> "ack", of |-> Last(ps).of, pos |-> 0]
      [] OTHER -> [kind |-> op.name, of |-> op.of, pos |-> 0]

\* The frame an operation sends when it has got the chunks ps.
Ask(op, ps) ==
    CASE op.name = "info" ->
            [kind |-> "info", of |-> op.of, pos |-> IF ps = << >> THEN 1 ELSE 0]
      [] op.name = "file" /\ ps # << >> ->
            [kind |-> "ack", of |-> Last(ps).of, pos |-> Len(ps)]
      [] OTHER -> [kind |-> op.name, of |-> op.of, pos |-> 0]

\* The answer must be of the operation's kind: _only_payload() compares the code
\* of the command, and the decoders tell an own text from a dump, which have the
\* same one, by the byte behind it.  logout() looks at nothing.
OfItsKind(op, b) == op.name # "logout" => b.kind = op.name

\* The decoders: a file chunk must be without error flag, which is a kind here,
\* and follow the bytes received so far.
Decodes(op, ps, b) ==
    /\ OfItsKind(op, b)
    /\ op.name = "file" => b.pos = Len(ps)

\* An operation is over with its first frame, a transfer with its last chunk.
Ends(op, b) == op.name \in {"info", "file"} => b.last

\* Mutant: rows are taken in the order they come, until there are enough.
AssemblesAnyhow(ps) == Len(ps) >= Chunks /\ Last(ps).last

\* assemble_info_chunks(): one controller, rows without a gap, the end flagged.
\* The number of rows that each chunk announces is left out: the gateway flags
\* the last of them and no other, so it adds nothing to these.
Assembles(ps) ==
    /\ ps # << >>
    /\ \A i \in 1..Len(ps) : ps[i].of = ps[1].of /\ ps[i].pos = i - 1
    /\ Last(ps).last

\* What task t has got when it takes the next frame.
Got(t) == Append(parts[t], X!Received(t).reply)

\* The operation wants another frame.
WantsMore(t) ==
    LET b == X!Received(t).reply IN
    /\ Decodes(Op(t), parts[t], b)
    /\ ~Ends(Op(t), b)
    /\ Op(t).name = "info" => Len(Got(t)) <= MaxChunks

\* The operation returns its result with the next frame.
Completes(t) ==
    LET b == X!Received(t).reply IN
    /\ Decodes(Op(t), parts[t], b)
    /\ Ends(Op(t), b)
    /\ Op(t).name = "info" => Assembles(Got(t))

-----------------------------------------------------------------------------
(* The operations *)

Waits(t) == step[t] <= Len(Script[t]) /\ at[t] = "between"

\* An operation that takes the data lock asks for it.
AskDataLock(t) ==
    /\ Waits(t)
    /\ Locked(Op(t))
    /\ data_lock' = Append(data_lock, t)
    /\ at' = [at EXCEPT ![t] = "datalock"]
    /\ UNCHANGED <<exchange, step, parts, gateway>>

MayCall(t) ==
    \/ Waits(t) /\ ~Locked(Op(t))
    \/ at[t] = "datalock" /\ Head(data_lock) = t

\* The operation's first exchange().
Call(t) ==
    /\ MayCall(t)
    /\ X!ExchangeCall(t, Ask(Op(t), << >>))
    /\ at' = [at EXCEPT ![t] = "exchange"]
    /\ UNCHANGED <<data_lock, step, parts, gateway>>

NextStep(t) == IF t \in Looping /\ step[t] = Len(Script[t]) THEN 1 ELSE step[t] + 1

\* Mutant: the data lock is not let go.
OverKeepsLock(t) ==
    /\ step' = [step EXCEPT ![t] = NextStep(t)]
    /\ at' = [at EXCEPT ![t] = "between"]
    /\ parts' = [parts EXCEPT ![t] = << >>]
    /\ UNCHANGED <<data_lock, gateway>>

\* Mutant: whoever gives up lets the next one of the queue in.
LetGoFirst(t) == IF Locked(Op(t)) THEN data_lock' = Tail(data_lock) ELSE UNCHANGED data_lock

\* `async with` lets the data lock go, at whichever place in its queue.
LetGo(t) ==
    IF Locked(Op(t))
    THEN \E i \in 1..Len(data_lock) : data_lock[i] = t /\ data_lock' = RemoveAt(data_lock, i)
    ELSE UNCHANGED data_lock

\* The operation is over, by return or by exception.
Over(t) ==
    /\ LetGo(t)
    /\ step' = [step EXCEPT ![t] = NextStep(t)]
    /\ at' = [at EXCEPT ![t] = "between"]
    /\ parts' = [parts EXCEPT ![t] = << >>]
    /\ UNCHANGED gateway

\* exchange() raises NotConnectedError.
NotConnected(t) ==
    /\ MayCall(t)
    /\ socket = None
    /\ Over(t)
    /\ UNCHANGED exchange

Send(t) ==
    /\ X!Send(t)
    /\ UNCHANGED <<data_lock, step, at, parts, gateway>>

\* A chunk that is not the last: the next frame is asked for at once.
NextChunk(t) ==
    /\ at[t] = "exchange"
    /\ X!Continue(t, Ask(Op(t), Got(t)))
    /\ WantsMore(t)
    /\ parts' = [parts EXCEPT ![t] = Got(t)]
    /\ UNCHANGED <<data_lock, step, at, gateway>>

\* The result is complete, the frame does not decode or assemble, the dump is
\* too long, or the client was closed before the next chunk was asked for.
Finish(t) ==
    /\ at[t] = "exchange"
    /\ X!Return(t)
    /\ WantsMore(t) => socket = None
    /\ Over(t)

\* ConnectionClosed.
Fail(t) == (X!SendFails(t) \/ X!ReceiveFails(t)) /\ Over(t)

\* Cancelled while it waits for the data lock, or inside exchange().
Cancel(t) ==
    /\ t \in Impatient
    /\ \/ at[t] = "datalock" /\ UNCHANGED exchange
       \/ X!CancelQueued(t)
       \/ X!CancelWaiting(t)
    /\ Over(t)

-----------------------------------------------------------------------------
(* The gateway (external): what src/ relies on it to do *)

Chunk(kind, of, pos, edition, said) ==
    [kind |-> kind, of |-> of, pos |-> pos, edition |-> edition, said |-> said,
     last |-> pos = Chunks - 1 /\ ~(kind = "info" /\ of \in Endless)]

\* One dump at a time: `first` begins a new edition, else the dump goes on,
\* whatever controller is named.
Dump(r) ==
    IF r.pos = 1
    THEN [of |-> r.of, next |-> 0, edition |-> 1 - cursor.edition]
    ELSE cursor

\* What there is to say when nothing is to be told apart.
Blank == CHOOSE said \in Contents : TRUE

Reply(r, said) ==
    CASE r.kind = "info" -> Chunk("info", Dump(r).of, Dump(r).next, Dump(r).edition, said)
      [] r.kind = "file" ->
            Chunk(IF r.of \in Missing THEN "error" ELSE "file", r.of, 0, 0, Blank)
      [] r.kind = "ack" -> Chunk("file", r.of, r.pos, 0, Blank)
      [] OTHER -> [kind |-> r.kind, of |-> r.of, pos |-> 0, last |-> TRUE, edition |-> 0,
                   said |-> Blank]

\* Parameter reads are answered only after Hello.
AnswerSaying(said) ==
    /\ wire[Link] # << >>
    /\ LET r == Head(wire[Link]).req IN
        /\ r.kind = "read" => helloed
        /\ X!Answer(Link, Reply(r, said))
        /\ helloed' = (helloed \/ r.kind = "hello")
        /\ cursor' = IF r.kind = "info" THEN [Dump(r) EXCEPT !.next = @ + 1] ELSE cursor
    /\ UNCHANGED <<data_lock, step, at, parts>>

Answer == \E said \in Contents : AnswerSaying(said)

Ignore ==
    /\ ~helloed
    /\ X!Ignore(Link)
    /\ UNCHANGED <<data_lock, step, at, parts, gateway>>

LinkStep ==
    /\ X!AClose(App) \/ X!CloseDone(Link) \/ X!Drop(Link)
    /\ UNCHANGED <<data_lock, step, at, parts, gateway>>

-----------------------------------------------------------------------------

Proceed(t) ==
    \/ AskDataLock(t)
    \/ Call(t)
    \/ NotConnected(t)
    \/ Send(t)
    \/ NextChunk(t)
    \/ Finish(t)
    \/ Fail(t)

Next ==
    \/ \E t \in Tasks : Proceed(t) \/ Cancel(t)
    \/ Answer
    \/ Ignore
    \/ LinkStep

Spec == Init /\ [][Next]_vars

\* A task that can run is run, and a gateway handles each request.
FairSpec ==
    /\ Spec
    /\ \A t \in Tasks : WF_vars(Proceed(t))
    /\ WF_vars(Answer \/ Ignore)
    /\ WF_vars(X!CloseDone(Link) /\ LinkStep)

-----------------------------------------------------------------------------
(* What the operations promise *)

\* Task t is about to take a frame that is there.
Receiving(t) == pc[t] = "waiting" /\ inbox[on[t]] # << >>

\* The chunks ps are those of one edition of one dump or file, from its start.
OneTransfer(ps, of) ==
    \A i \in 1..Len(ps) :
        ps[i].of = of /\ ps[i].pos = i - 1 /\ ps[i].edition = ps[1].edition

\* A dump or a file that is returned is the one asked for, whole, and of one
\* edition, whatever other callers do meanwhile and however their operations
\* end.  (Unless a sent request was abandoned.)
ResultIsWhole ==
    \A t \in Tasks :
        Receiving(t) /\ abandoned = {} /\ Op(t).name \in {"info", "file"} /\ Completes(t)
            => OneTransfer(Got(t), Op(t).of) /\ Len(Got(t)) = Chunks

\* No operation is refused its frame: each fits where the operation is, so an
\* operation fails only when the connection ends, a dump does not, a file is
\* missing, or a sent request was abandoned.
NoSpuriousError ==
    \A t \in Tasks :
        Receiving(t) /\ abandoned = {}
            => \/ Completes(t)
               \/ WantsMore(t)
               \/ Op(t).name = "info" /\ Op(t).of \in Endless
               \/ Op(t).name = "file" /\ Op(t).of \in Missing

\* Task t asks for the data lock or has it.
WithDataLock(t) == at[t] = "datalock" \/ (at[t] = "exchange" /\ Locked(Op(t)))

\* No exit of a dump or of an own text, from whichever place and however it
\* ends, loses the data lock or keeps it, and only its owner exchanges frames.
DataLockDiscipline ==
    /\ \A t \in Tasks : WithDataLock(t) <=> \E i \in 1..Len(data_lock) : data_lock[i] = t
    /\ \A i, j \in 1..Len(data_lock) : data_lock[i] = data_lock[j] => i = j
    /\ \A t \in Tasks : at[t] = "exchange" /\ Locked(Op(t)) => Head(data_lock) = t

\* Every caller gets through its script: nobody waits for ever for one of the
\* two locks, and an endless dump is given up.  (Unless a read came before any
\* Hello, is not answered, and nobody closes the connection.)
ScriptsEnd == \A t \in Tasks : <>[](step[t] > Len(Script[t]) \/ X!Starved)

=============================================================================
