# py-atmos-wg1000 in TLA+

Models, model checks and proofs for `pyatmos_wg1000`, the asyncio client of the
ATMOS WG1000 heating gateway. Paths below are relative to
`src/pyatmos_wg1000/` of the repository. Every module states in its head which
code it models; `PROJECT.json` gives the lines of each definition.

## 1. The system

| component | code | state it keeps | operations |
|---|---|---|---|
| session | `client.py` | `_socket`, `_lock` | `connect`, `aclose`, `exchange` |
| client operations | `client.py` | `_data_lock`, the chunks of a transfer | `hello`, `login`, `logout`, `read_registers`, `write_registers`, `fetch_own_text`, `fetch_info`, `download_file` |
| event buses | `feed.py` `EventBus`, `InfoEventBus` | `_subs`, `_seq`, a queue for each subscription | `publish`, `subscribe`, `last_seq` |
| poll task | `feed.py`, the same lines in both feeds | `_task` | `start`, `stop`, `run`, `_loop` |
| register feed | `feed.py` `AtmosFeed`, `ValueStore` | `store` | `poll_once` |
| Info feed | `feed.py` `InfoFeed` | `dump` | `poll_once`, a poll being a whole dump |
| frame codec | `protocol/frame.py`, `crc.py` | none | encode, decode |
| payload codecs | `protocol/params.py`, `data.py`, `files.py`, `login.py` | none | records, words, texts, chunks |
| languages | `i18n.py` | the tables, the selected column | `fetch`, `select`, `text`, `languages` |
| rows of the Info page | `protocol/data.py`, `info_value.py`, `info_naming_corpus.py` | none (own texts are kept by the caller) | resolve text ids, split, classify and name the parts of a row |
| tables of names | `protocol/catalog.py`, `pages.py`, `enums.py` | none | look-ups |

How they meet. A feed calls `read_registers` or `fetch_info` of a client that
other tasks use too; each such call is one or more `exchange()`; each
`exchange()` is one frame out and the next frame in on one WebSocket. Frames
have no request identifier. What a poll finds goes to the feed's store and, in
the same step of the task, to the feed's bus and the queues of its subscribers.
The language tables come through `download_file`, between other frames; a row of
the Info page needs a dump, the own texts and the tables.

What is hard. Everything runs on one event loop, so the interleavings are those
at `await`: in `connect()` (two of them between the test of `_socket` and its
assignment), at the two locks, in `send()` and `recv()`, in the interval of a
loop, in `queue.get()`. A task may be cancelled at each of them, `stop()` does
exactly that. The connection may end under everybody; the gateway may leave a
request unanswered, and nothing has a timeout but the closing handshake. The
codecs must take apart what the gateway sends, whole or not, and must give back
what they were given, in fields of 8, 16 and 32 bits. Language files have rows
that are short, long, blank or repeated, and any caption may meet any value.

What makes each part correct:

- session: an answer goes to the task that asked; one request is in flight; no
  exit of `exchange()` loses the lock or keeps it; every call ends; no
  open connection but the stored one;
- operations: a dump or file that is returned is the whole of one dump or file;
  the frames of others never make a transfer fail; neither lock deadlocks;
- buses: a subscriber gets every event since its registration, once, in order;
- poll task: one loop at a time; `stop()` comes back, and not before its loop has ended;
- feeds: store, events and gateway agree and never go back;
- codecs: what is accepted is whole; what was put in comes out; loops end;
- languages and page: the text of the key, in the language that was asked for;
  two parts of a row do not replace each other.

The hazards behind these are listed in `PROJECT.json`, each at its line.

## 2. Modules

| module | models | EXTENDS / INSTANCE |
|---|---|---|
| `Exchange` | session: `connect`, `aclose`, `exchange`, cancellation, the connection, the gateway's answers | |
| `AtmosClient` | the operations over it, `_data_lock`, the gateway's dump in progress | `X == INSTANCE Exchange` |
| `EventBus` | both buses | |
| `FeedTask` | `start`, `stop`, `run`, `_loop` of both feeds | |
| `Mirror` | abstract: a copy of a source that changes on its own and whose copy only goes forward | |
| `AtmosFeed` | `AtmosFeed` with its store, other users of the client, subscribers | `FeedTask`, `X == INSTANCE Exchange`, `B == INSTANCE EventBus`, `Gateway == INSTANCE Mirror` |
| `InfoFeed` | `InfoFeed` with its dump, over dumps of several chunks | `FeedTask`, `C == INSTANCE AtmosClient`, `B == INSTANCE EventBus`, `Gateway == INSTANCE Mirror` |
| `Frame` | both directions of the frame codec | |
| `WireRecords` | the loops of `decode_param_read`, `decode_param_write_result`, `_decode_info_items` | |
| `RegisterWords` | setpoint and regime words | |
| `InfoText` | `expand_info_value_with` | |
| `LanguageCatalog` | `LanguageCatalog` once its two files have come | |
| `OwnText` | `decode_own_text` | |
| `InfoNames` | splitting, classifying and naming a row | |
| `InfoPage` | text ids, and a row as the reader gets it | `LanguageCatalog`, `InfoNames`, `OwnText` |
| `...Proofs` | theorems about the module of that name; `AnswersProofs` about `Frame`, `WireRecords` and `RegisterWords`; `TextProofs` about `LanguageCatalog`, `OwnText`, `InfoText`, `InfoNames` and `InfoPage` | that module; a composed one also instances of the proofs about its parts: `AtmosClientProofs` of `ExchangeProofs`, `AtmosFeedProofs` of that and `EventBusProofs`, `InfoFeedProofs` of `AtmosClientProofs` and `EventBusProofs` |
| `MC...` | the instances for TLC | the module checked |

### Exchange

A step is what a task does between two suspensions. `pc[t]` is the suspension it
is at: `connecting` (in `to_thread` or the handshake), `queued` (at the lock, or
in `send()`), `waiting` (in `recv()`). `on[t]` is the local variable `socket`,
which the code reads *before* it queues for the lock; it may be another
connection than the stored one when the frame is sent. `lock` is the asyncio
lock: the owner first, then the waiters in their order; a lock that is let go
with waiters goes to the first of them, as in CPython. `CancelConnect`,
`CancelQueued` and `CancelWaiting` are the three places where `CancelledError`
can come out. `Continue` is an exchange followed by the next one of the same
operation without a suspension between (a transfer).

Requests carry a ghost identifier that the frames do not have, to say whose
answer is whose. `abandoned` is a ghost too: the connections on which a caller
was cancelled after it had sent.

External: the gateway answers the requests of one connection in order, may
ignore those in `Silent`, and the connection may be lost (`Lossy`) or be closed.

### AtmosClient

Each task runs a script of operations. `Ask` is the frame an operation sends next,
`Decodes` and `Assembles` are the checks of the code on what comes back, and
`Completes`, `WantsMore` say how the operation goes on. A chunk is named by its
kind, controller or file, place and, for dumps, the edition; payload bytes do not
matter here. The kind stands for the code of the command, which `_only_payload()`
compares, and for the byte by which the decoders tell an own text from a dump. The
number of rows that each chunk of a dump announces (`data.py:199`) is left out: the
modelled gateway flags the last chunk and no other. The gateway has one dump in
progress (`cursor`): that the continuation request names a controller and the
gateway goes on with the dump it is at is how `src/` uses it (`client.py:223`), and
the reason for `_data_lock`. `MaxChunks` stands for the 256 of the code. Tasks in
`Looping` begin their script again when it ends: that is how a feed uses the module.

### EventBus

`publish()` never suspends: the bus lock is not held over an `await` that waits,
and `put()` on an unbounded queue returns at once. So it is one step, and a poll
that publishes many updates is one step too (`PublishAll`). `subscribe()` is an
async generator: `Subscribe` is the call, which only makes the generator, and
`Register` the first request for an event, which puts the queue on the list.

### FeedTask, AtmosFeed, InfoFeed

`FeedTask` is the task alone. Loop tasks are born by `Start`, once each, and end
by an error of a poll (`Raises`) or by `stop()`: `Stop` forgets the task and
cancels it, `Cancelled` is the cancelled task's own last step, `StopReturns` the
end of `await task`. From `Stop` on the loop takes no other step, even if its
answer has arrived: asyncio throws `CancelledError` at the next resumption. The
feeds join each of these steps with what the poll does in it.

In `AtmosFeed` a reader begins a poll, sends, and absorbs the answer: compare,
store and publish in one step, as in the code. A register's word is a version
number that only grows, so "older" can be said. In `InfoFeed` a poll is a whole
`fetch_info()`: the data lock, a frame for each chunk, the assembly. A dump has
one row in each chunk, and the gateway reads the row when it answers with its
chunk, so a dump may mix moments, as the real one does.

`Mirror` is what both promise to whoever reads the store: each key of the copy
is a value that the source has had, and each refresh of a key is a step forward.
`MirrorsGateway` says that a feed implements it, with the registers, or the rows,
for the source and the store, or the dump, for the copy. Several pollers may
hold answers of different ages at once; that the older one is never absorbed
after the newer one is the work of the exchange lock and of the order on the
connection.

### Frame, WireRecords, RegisterWords, InfoText

`Frame` keeps sizes: a command is the size of its payload, a frame its fields
and the size of its command area, the CRC right or wrong. The encoder's loop,
every check of the decoder and its loop are steps. `Arrive` is a frame of
another program with any fields. `WireRecords` does the same for the three
record loops; the gateway lays records out and the payload may be cut at any
byte, and a decoder that looks where no record begins finds anything; the header of
the payload, which is checked before, is whole. The word of a regime is its 22 bits
of fields and the ten above them, which decoding drops and encoding clears.
`InfoText` works on bytes, since the bytes are what can be confused: NUL and
0xFF in an index. `RegisterWords` has the integer arithmetic of the words;
temperatures are in tenths of a degree, because `_scaled_half` rounds to them,
and any integer of them may be written: what does not fit in 16 bits wraps.
The code computes in floats: `raw * 10 / 64` is exact, and
`(celsius + 64) * 64 + 0.5` is at least a tenth away from an integer for every
tenth of a degree, so the floor of the float is the floor of the model.

### LanguageCatalog, OwnText, InfoNames, InfoPage

A language file is the names of its columns and its rows; rows are padded and cut as
in `_parse_table()`, and of rows with one key the last stands. `Resolve` is how an
argument of `select()` becomes a column: an index, digits, a code, or what only
looks like digits (a language has a name in the model: one whose name is digits, or
has spaces around it in the table, is left out); `Fetch` adds the register
`USER1_LANG` and English. A failed `select()` or `fetch()` leaves everything else
unchanged, and `failed` says how it failed, also where the code's exception is not
one it documents.

`InfoNames` works on sequences of words as they are spelt, with `/`, `-`, `(` and
`)` as words of their own; the regular expressions of `info_value.py` become
classes of words (`Numbers`, `Units`, `Dashes`, ...), which hold every spelling
where the code ignores case. Two of its tables look alike and are not: `ModeLabels`
is `_MODE_LABELS` of `info_value.py`, which decides what a mode row is, and
`ModeCaptions` the values of `MODE_CAPTIONS` of `info_naming_corpus.py`, which the
smells know. `Stems` stands for the substring test of `info_value.py:234`. The
smells are `Nameless`, `IndexedMode`, `NameIsState` and `DuplicateLabels`.

`OwnText` is the own texts of a controller: the panel writes slot after slot,
each a sequence of words or nothing, with a NUL behind each or only between
them; `SplitWord` is `body.split(b"\x00")` word by word, and `KeepSlots` is the
rule about the last piece. `InfoPage` puts it together: an id is resolved in the
own texts, in the tables or as `EMPTY_TEXT_ID`, and a row gets its parts and
names, in whatever language is selected.

What these modules assume of their constants is what the code has. No mode is
called "Info", which is the name of a row without any text, every mode caption is a
mode label, and no numeral is an abbreviation with a full stop or a part of a mode's
label (`InfoNamesAssumption`; `_MODE_LABELS`, `MODE_CAPTIONS` and
`info_value.py:233-234`). Every cell of a table but the id is a text or nothing, the
column of the ids is not the English one, and a device is not called what its mode
row is called (`InfoPageAssumption`; the last one as in the corpus, whose devices
are named after circuits). No slot says NUL (`OwnTextAssumption`), no byte of UTF-8
text is 0xFF and none inside a value is NUL (`InfoTextAssumption`).

## 3. Runs

| run | instance | shows |
|---|---|---|
| `exchange` | 3 tasks, 2 of them connect and close, all may be cancelled, 2 connections, 1 may be lost, 1 request that may be ignored; symmetric in the tasks that connect and in those that do not | `AnswersMatch`, `LockDiscipline`, `SingleInFlightUnlessAbandoned` |
| `exchange_live` | 2 tasks that both connect and close, one may be cancelled, the same otherwise, fair | `CallsReturn`, `CloseReleases`, `OneSessionUnlessOverlap` |
| `exchange_connect` | 2 tasks that connect, 2 connections | `OneSession` is violated |
| `exchange_cancel` | 3 tasks, 1 may be cancelled | `SingleInFlight` is violated |
| `client` | 3 scripts: two dumps of one controller, one endless dump, a missing and a whole file, an own text, Hello, a read before any Hello; 1 task may be cancelled, the connection lost; fair | `ResultIsWhole`, `NoSpuriousError`, `DataLockDiscipline`, `ScriptsEnd` |
| `bus` | 2 subscriptions, 3 events of 2 kinds, fair | `Delivery`, `EventuallyDelivered` |
| `feed_shared` | a loop, a direct poller, another user who may be cancelled, a subscriber, a register that changes and hides, a lost connection | `StoreIsLastEvent`, `MirrorsGateway` (refinement), `PollIsFresh`, `OnlyConfiguredUnlessAbandoned` |
| `feed_life` | two loop tasks one after the other, two callers of `stop()`, another user, a lost connection, a register that changes; fair | `OneLoop`, `StopWaits`, `ChangesGetThrough`, `StopComesBack` |
| `info_feed` | a loop, a direct poller, a caller of `stop()`, dumps of 2 rows that change, a lost or closed connection; fair | `DumpIsLastEvent`, `MirrorsGateway` (refinement), `FailsForAReason`, `RowsGetThrough` |
| `answers` | lists of 0 to 3 and 254 to 256 commands, sizes at the limits of 16 bits, all short frames of others; up to 3 records of every kind, cut by up to 20 bytes, a count that is right or one too many; halves and temperatures at the ends of the scale, far outside and between; every 16-bit end field; every mode; days at both ends; words of the gateway with and without bits above the fields; fair | `Tiled`, `AcceptedIsWhole`, `RoundTrip`, `FoundAsSent`, `CutIsRefused`, `SetpointsKept`, `RegimeKept`, `EndTimeExact`, `DecodingEnds` |
| `info_page` | 5 x 5 language files, every form of a wish, up to 2 own texts, empty or a mode's label, delimited in both ways, 17 values with all captions and labels; values of up to 3 parts with 0, 255 and others in the indices | `ListedIsSelectable`, `FollowsWish`, `TextIsItsOwn`, `SlotsResolve`, `NamesTellApart`, `ExpandsUnlessShortIndexLast` |
| `info_text_short` | values of up to 4 parts, indices with low byte 90 | `ExpandsAsWritten` is violated |

`answers` and `info_page` check three and two specifications that share no state:
each runs while the others have not begun, so the states add up instead of
multiplying, and no property relates them.

The type invariants of `Exchange`, `AtmosClient`, `EventBus`, `FeedTask`,
`AtmosFeed` and `InfoFeed` are proved; elsewhere they document the variables:
what they could catch, the other properties catch.

Bounds. `MaxCalls` numbers calls 1, 2, 1, 2, ...: two numbers tell a call from the
one before it, and at most one call of a task is open; where identifiers are told
apart by the task already, one is enough. `MaxPending` bounds only how many
unanswered requests cancelled tasks leave behind; two are enough for every answer to
be off by one or two. Three tasks give the lock an owner and two waiters, so a
waiter can be cancelled from the middle and the end. Two connections are a
reconnect. Two loop tasks are a restart. `MaxVersion` 1 is an older sample and a
newer one. Two rows in two chunks are the least that a dump can mix. `MaxEvents` is
3, so a subscriber can register before, between and after. `Chunks` is 2 and
`MaxChunks` 1 in `client`: a dump of exactly `MaxChunks + 1` chunks is legal in the
code (`> 256`) and an endless one is given up. A record that follows another and is
followed by a third is the general position in a payload, and 20 bytes cover every
cut in the longest fixed record; both are unbounded in the proofs. The files of
`info_page` have one row of every odd shape each; two own texts are the least of
which one can be moved by the other; three parts are an escape between two others. A
row of `info_page` is shown where the latest `select()` succeeded: it reads the
selected column and not how a `select()` failed. Deadlock is not checked where the
system may stop: nobody calls anything any more, scripts end, connections are used
up, decoding ends. `info_page` can always go on.

### Fairness

Weak fairness on what the event loop owes a task: a task that can send, receive,
get an event, or end its `stop()` is run (the loop's queue is first in, first
out). On the gateway's handling of requests, where ignoring is one way to handle
those in `Silent`. On the closing handshake, because `close()` of the WebSocket
library has a timeout. None on cancellations, on the loss of a connection, on
calls by users, on changes of registers, or on `connect()`. For a loop, weak
fairness on its next step includes the end of its interval. In `info_feed` the
direct poller polls again and again: the loop must get through next to it, which
it does because waiters of both locks are served in their order. The decoders of
`answers` are plain loops and run on.

## 4. What the checks found

Three runs end in a violation on purpose; they state what the code's documentation
says.

- `exchange_cancel`. "The UI keeps a single request in flight. This method does
  the same with an asyncio lock." (`client.py:288`). A task cancelled in
  `recv()`, by `stop()` of a feed for instance, releases the lock with its
  request on the wire. The next task sends a second one and is handed the first
  one's answer, and so on for the rest of the connection. Payloads do not name
  the request, so the answer is taken: `AtmosFeed` stores registers that it was
  never configured for, and `fetch_info(2)` can return the rows of controller 1,
  as nothing compares the dump's controller with the one asked for
  (`client.py:248`). This is why `AnswersMatch`, `ResultIsWhole`,
  `OnlyConfiguredUnlessAbandoned`, `FailsForAReason` and others except abandoned
  connections.
- `exchange_connect`. "One WG1000 session." (`client.py:57`). Two tasks in
  `connect()` at once both find no socket, both open a WebSocket, and the client
  forgets the one that was stored first (`client.py:114-117`). Nobody can close it
  any more; a caller that had begun to wait on it and gets no answer holds the lock
  against everybody, whoever calls `aclose()`. `OneSessionUnlessOverlap` shows
  that nothing else leaves a connection open, and `CloseReleases` excepts a caller
  on such a one (`Stranded`).
- `info_text_short`. "UTF-8 text after expanding index escapes" (`data.py:212`).
  A value that ends in an escape with an index below 256 ends in that index's
  zero high byte; `rstrip` takes it for padding, and the escape is copied as two
  raw bytes.

Seen while modelling, with the properties stated around them:

- `stop()` is to "cancel the poll loop and wait until it finishes" (`feed.py:255`),
  but drops the task before it waits for it (`feed.py:257`), so a second `stop()`
  meanwhile returns at once and the loop has not stopped for it. `StopWaits` is
  what is left: somebody waits for each such loop.
- `subscribe()` is to yield "register changes published after this call"
  (`feed.py:97`). The body of an async generator begins at the first request for an
  event, and the queue is registered there; what is published between the call and
  that is missed. `Delivery` counts from the registration.
- `connect()` returns at once while a socket object is stored, also a closed one
  (`client.py:114`): after a loss only `aclose()` and `connect()` help.
- `stop()` swallows every `CancelledError` (`feed.py:263`), so also that of its
  own caller; callers of `stop()` are not cancelled in the model.
- After a `stop()` in the middle of a dump the next loop is handed the chunk that
  was on its way, fails to assemble its dump and ends (`client.py:241`).
- A frame of more than 65535 bytes is encoded with a wrapped length field
  (`frame.py:135`), though every command is legal; `RoundTrip` excepts it.
- A temperature that does not fit wraps without an error (`params.py:506`), and
  the halves 65533 to 65535 are shown as 960.0 degrees, which encodes to -64.0;
  `SetpointsKept` and its proof say what 16 bits leave of a temperature.
- A read answer cut exactly between two records is returned as complete
  (`params.py:147`); `CutIsRefused` says so.
- `select("ID")` resolves to the column of the row ids, which `languages()` does
  not list: `KeyError` (`i18n.py:207`). `select("--3")` raises `ValueError`
  (`i18n.py:270`). Both leave the selection as it was, as `FollowsWish` says.
- `decode_circuit_regime()` takes any 32-bit word and drops the bits above the
  fields (`params.py:387-400`), so writing a regime back clears them; `EndTimeExact`
  is about the fields.
- A row whose label is a mode and whose value is numbers gets the numbered mode names
  that the repository calls a smell ("Tryb" with "20 / 6" becomes "Tryb (1)"), and
  a label outside `MODE_CAPTIONS`, such as "Modus", shown with the value "Modus" is
  a name that equals its state; `NamesTellApart` excepts exactly such rows.

## 5. What is proved

For every value of the constants, under the assumptions stated in the modules
(subsets of tasks and connections, bounds that are natural numbers, fields
within their widths).

| theorem | states |
|---|---|
| `ExchangeProofs!TypeCorrect` | `[]TypeOK` |
| `ExchangeProofs!AnswersBelongToCaller` | `[]AnswersMatch` |
| `ExchangeProofs!OneRequestInFlight` | `[]SingleInFlightUnlessAbandoned` |
| `ExchangeProofs!LockIsKept` | `[]LockDiscipline` |
| `ExchangeProofs!SessionsNeedOverlap` | `OneSessionUnlessOverlap` |
| `AtmosClientProofs!TypeCorrect` | `[]TypeOK` |
| `AtmosClientProofs!DataLockIsKept` | `[]DataLockDiscipline` |
| `AtmosClientProofs!DumpsAndFilesAreWhole` | `[]ResultIsWhole` |
| `AtmosClientProofs!FramesFit` | `[]NoSpuriousError` |
| `EventBusProofs!BusTypeCorrect`, `BusNumbers`, `BusDelivers` | `[]TypeOK`, `[]Numbering`, `[]Delivery` |
| `FeedTaskProofs!OneLoopAtATime`, `StopsAreAwaited` | `[]OneLoop`, `[]StopWaits`, for the task alone |
| `AtmosFeedProofs!FeedHasOneLoop`, `FeedStopWaits` | the same of the composed feed |
| `AtmosFeedProofs!StoreMirrorsGateway` | `MirrorsGateway`: the feed implements `Mirror` |
| `AtmosFeedProofs!OnlyConfiguredIsStored` | `[]OnlyConfiguredUnlessAbandoned` |
| `AtmosFeedProofs!PollsAreFresh` | `PollIsFresh` |
| `AtmosFeedProofs!EventsTellTheStore` | `[]StoreIsLastEvent` |
| `AtmosFeedProofs!FeedTypeCorrect`, `FeedDelivers` | `[]TypeOK`, `[]Delivery` of the composition |
| `InfoFeedProofs!InfoFeedTaskKept` | `[](OneLoop /\ StopWaits)` of the composed Info feed |
| `InfoFeedProofs!DumpMirrorsGateway` | `MirrorsGateway`: the Info feed implements `Mirror` |
| `InfoFeedProofs!StoredIsPublished` | `[]DumpIsLastEvent` |
| `InfoFeedProofs!LoopFailsForAReason` | `FailsForAReason` |
| `InfoFeedProofs!InfoFeedTypeCorrect` | `[]TypeOK` |
| `AnswersProofs!CommandsTile`, `AcceptedFramesAreWhole` | `[]Tiled`, `[]AcceptedIsWhole` |
| `AnswersProofs!EncodedFramesDecode` | `[]RoundTrip` |
| `AnswersProofs!RecordsAreFoundAsSent`, `CutsAreRefused` | `[]FoundAsSent`, `[]CutIsRefused` |
| `AnswersProofs!SetpointsDoNotDrift`, `RegimesAreKept`, `EndTimesAreExact` | `[]SetpointsKept`, `[]RegimeKept`, `[]EndTimeExact` |
| `TextProofs!ListedLanguagesWork`, `LanguageFollowsWish`, `TextsAreFound` | `[]ListedIsSelectable`, `FollowsWish`, `[]TextIsItsOwn` of the catalog by itself (`CatalogSpec`) |
| `TextProofs!OwnTextsResolve` | `[]SlotsResolve` |
| `TextProofs!ValuesExpand` | `[]ExpandsUnlessShortIndexLast`, of `InfoText` by itself (`ValueSpec`) |
| `TextProofs!NamesAreTellable` | `[]NamesTellApart` |

With these, every safety and every action property of a passing run is a theorem.

**Exchange.** `AnswersMatch` is about the moment an answer is taken and is not
inductive: it says nothing of a request that is still at the gateway.
`Pairing` does: a connection that is not closed and not abandoned has either
nothing in flight, or exactly one request or answer, with the identifier of a
task that waits for it on that connection; a closed one may keep an answer that
nobody received, of the task that waits there, if any. Besides, a task inside
`exchange()` has captured a connection, and one that waits owns the lock
(`CallersHold`), so two tasks never wait at once: this is where the lock enters.
Sending is the step that needs it: the sender owns the lock, hence nobody waits,
hence nothing is in flight. Then one lemma for each kind of step: what does not
touch a connection, a receive, a send, the environment. `LockIsKept` needs more
of the lock than its owner: `Lines` says that the queue has every task inside
`exchange()` once and no other, which joining at the end, leaving at the front
and being cancelled at any place keep. `SessionsNeedOverlap` is about `connect()`,
which tests the socket before the handshake and stores it after: its lemma
`SessionStep` keeps that a task that is between the two found no socket, and that
none was stored meanwhile (`NoneMeanwhile`). That is where "no two at once" is
needed, and it is part of the property (`ConnectsOverlap`), for any number of tasks
that connect; without it the property is false (section 4).

**AtmosClient.** Every step is a step of `Exchange`, with a script's requests for
calls, so its invariant is taken over through the instance `XP`. `Placed` ties
the two together: a task is inside `exchange()` exactly while its operation says
so, and its request is the one that the chunks it has got call for (`Ask`).
`DataLockKept` is for the data lock what `Lines` is for the other one.
`ResultIsWhole` speaks of the moment a transfer ends, and is carried by
`Transfers`, about transfers that have begun, while no sent request was
abandoned: the chunks a task has are the beginning of one dump or file
(`InProgress`), the answer that waits for it is the next of them (`Wanted`), and
the gateway's dump is the one of the task that holds the data lock, as far as
that task has got (`CursorFollows`). The last part is where the data lock enters:
only a dump moves the gateway's cursor, only its owner asks for one, and a file or
a read between two chunks leaves it alone. What an operation is handed is thus
what it wants (`TakesWanted`), and both theorems about answers follow; of a dump,
the two halves of the guard are that it ends where the gateway flags it and not
before 256 chunks. `AtmosClientAssumption` keeps the number of chunks of a dump
that ends within what the code accepts.

**EventBus.** `Delivery` is carried by `Registered` (the registered queues are
those of the generators that listen) and `Fresh` (a generator that was not
started has nothing). Publishing extends the log and every registered queue by
the same events (`SuffixConcat`), taking removes the first of the rest
(`SuffixTail`).

**FeedTask and the feeds.** `LifeInv` says that a live loop is either the
stored task or was cancelled, and that each cancelled one has a caller of
`stop()` that waits for it. Every step of a feed is a step of its task or leaves
it alone (`TaskStep`), so the theorems about the task carry over to both feeds.

**AtmosFeed.** Every step of the feed is a step of `Exchange`, with the feed's
readers and other users as tasks, and a step of `EventBus` or a stutter; the
theorems about those modules are taken over through the instances `XP` and `BP`.
`MirrorsGateway` is an action property of the store, and what makes a step
forward is in flight long before it. `StoreInv` adds the order of what is under
way: the answers in the inbox of a connection are ordered by version, none is
newer than the register, and none is older than the store. A poll takes the
first of them and the gateway adds the last one, so both ends keep the order,
even where answers go to the wrong task. `PollsAreFresh` is not true of such an
answer, so `PollInv` adds that on a connection that is not abandoned the answer
of a reader's request is at least as new as the register was when the poll
began: `Pairing` says that it is that reader's. `EventsTellTheStore` adds the log
to the store (`BusInv`): a poll's batch has one event for each register that it
changes (`News`), all different, each newer than what the store had
(`PublishesUpdates`, `NewsAreStored`), so a batch can repeat or undo nothing.

**InfoFeed.** Its dump is put together from chunks of different moments and stored
when the last one has come, so the order of `AtmosFeed` has one link more:
`InOrder` says, row by row, that the stored one is not newer than what a poll
under way has taken, nor that than the answers on their way, which are in order,
nor any of them than the row at the gateway. It holds of abandoned connections
too, where a poll is handed chunks of a dump that somebody else had begun,
because it speaks of what chunks say and not of whose they are. Storing keeps it
because no other poll has chunks at that time: it would need the data lock
(`OneDumpAtATime`). `StoredIsPublished` adds that the stored dump is that of the
last event; a poll compares and stores in one step, so it cannot publish the same
twice. `LoopFailsForAReason` comes from `FramesFit`: a poll that is handed an
answer and refuses it would be a spurious error of the client.

**Frame.** `Tiled` needs that the area does not change once there are commands
(`Inv`: until the header is checked, nothing was found). The loop's test `Fits`
is what keeps the next command inside the area; nothing is assumed of the length
field but that it is a number. `RoundTrip` needs to know where the encoder put
each command: `Carried` says that there are places (`Marks`) at which they end,
one behind the other, and that the decoder has found the first of them and
stands at one of the places (`FoundUpTo`). The decoder cannot stop early, as from
each place but the last there are six bytes or more to the end, and cannot fail,
as the next place is inside the area. The header fails only where 16 bits do not
hold the size of the frame.

**WireRecords.** `RecordsInv`: the records of a payload lie one behind the other
(`Chained`), and the decoder has found the first of them and is where the next
one begins (`InStep`). A byte that is left means that a record begins there and
nowhere else (`FindsNext`); the decoder takes as many bytes off for it as the
gateway laid down (`Sizes`), also where a cut is near, because it looks before
it takes.

**LanguageCatalog.** `CatalogInv`: a catalog that is there was built from two
files with the same columns, one of them English, and its language is a column
behind the id. What `_resolve()` finds is such a column for every form of wish
(`ResolveFindsALanguage`), because of several columns with one name the smallest
counts, and there is one (`SmallestColumn`: the order of the naturals is well
founded). `TextsAreFound` rests on `LastRowCounts`. `InfoPage` adds steps that
leave the catalog alone.

**RegisterWords.** A temperature encodes to a half that shows the same
temperature (`HalfRoundTrip`): rounding to 64ths moves it by less than half of a
tenth; modulo 2^16 where it does not fit. So what a word shows is kept by
writing it back, however often. A regime is three fields that do not overlap, and
a BCD time is the only one with its digits.

**OwnText.** `split()` sees words and knows nothing of slots. `OwnInv` says where
the slots are: there are places in the string at which they end, each with its NUL
(`SlotEnds`), and the pieces that were split off are slots as far as the
splitting has got, the last one as far as it has got inside a slot (`SplitUpTo`). A
string with NULs only between the slots is read as if another NUL came behind it
(`WordAt`), so one invariant holds of both ways of sending; what is then left open
is whether an empty last slot is found or not, and an id behind the last one that
was found has no text either way. One lemma for each step, of which
`SplitWordStep` is the one that must tell a NUL that ends a slot from the words
inside: no slot says NUL.

**InfoText.** The same in bytes: the parts of a value lie one behind the other and
end at places (`PartEnds`, `PartStays`), the scan stands at one of these places
and has found the parts before it (`NextPart`). The bytes are read as if NULs
without end came behind them (`Byte`), so stripping a NUL changes nothing that the
invariant says. Stripping takes the NULs behind the value and then, if the value
ends in an index below 256, the high byte of that index and perhaps the low one,
but never the 0xFF before them (`StrippedLength`): no part but the last is
touched. `ValuesExpand` is what is left of the sentence that `info_text_short`
refutes.

**InfoNames, InfoPage.** No induction here, but every way through `part_names()`
and what follows. `PairsDiffer`: the two names of a pair differ, for each of the
four forms of a caption. A dashed caption gives one head and two roles; of two
halves the second may be qualified by the first and is then longer; the texts of
the panel differ or are the same; numbers differ (`NumberedNames`).
`RefinedNames`: a caption that takes the place of one numbered name is shorter
than the other. `PairsAreNoNumberedModes`: a name that says `Mode (1)` would have
to be a number behind a mode, or a half qualified by a numeral, and `Abbreviated`
admits no such half of a mode. Whatever a part is called is one of the row's
`Callings`, so a name that equals its state is a text of the panel and never taken
from the value. `RowInv` and `IdsHaveTexts` bring in the state: every id of a row
that is shown resolves to a text, whichever of the tables, columns and own texts it
comes from.

What `NamesTellApart` excepts is in its statement, each smell by itself, and each
exception is needed: without any one of them TLC finds a row of `info_page` that
violates it. The panel may say the same twice (`SameTexts`: TextA and TextB, or both
halves of a caption, which may be several words); it may number something itself
(`PanelNumbers`); a row may be labelled a mode and show numbers (`ModeOfNumbers`);
and a value may say what the panel calls the row (`Callings`).

Only model-checked: liveness (`CallsReturn`, `CloseReleases`, `ScriptsEnd`,
`EventuallyDelivered`, `ChangesGetThrough`, `StopComesBack`, `RowsGetThrough` and
`DecodingEnds`), as it rests on fairness and `ENABLED`, which are not in the
prover's reach.

## 6. Not modelled

- The words that are only shown (temperature, humidity, time, date, circuit):
  they take single bit fields apart and have no inverse to be checked against.
- CRC, the login payload, the byte layout of file chunks: pure functions; text
  and bits are all there is to them. A login is one exchange.
- `catalog.py`, `pages.py`, `enums.py`, the corpus of panel rows: constants.
  Values of `MCInfoPage` are taken from the corpus.
- Regular expressions and JSON syntax: abstracted to classes of words, and to
  tables.
- TLS, the WebSocket library, the gateway: external, by how the code uses them.
- `scripts/`, `docs/`, `tests/`, packaging.

Four hazards have no property: a file without an end flag is downloaded for ever
(`client.py:269`), and the queue of a subscriber that does not take its events
has no bound (`feed.py:99`), where a property would only restate that there is no
bound in the code; the order of Hello and the read in `fetch()` (`i18n.py:126`),
whose frames are a script of `AtmosClient`; and what is published between a call of
`subscribe()` and the first request for an event (`feed.py:99`), which is missed.

## 7. What could follow

1. An abstract port with one call at a time that `Exchange` implements on
   connections that were not abandoned.
2. The words that are only shown, with the widths of their fields.
