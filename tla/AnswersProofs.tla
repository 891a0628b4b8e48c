--------------------------- MODULE AnswersProofs ----------------------------
(***************************************************************************)
(* Proofs about what takes an answer apart and reads it: Frame, for frames *)
(* of every size and command lengths of every kind; WireRecords, for       *)
(* payloads of any number of records, cut at any byte; RegisterWords, for  *)
(* every temperature, and regime words of every origin.                    *)
(***************************************************************************)
EXTENDS Frame, WireRecords, RegisterWords, TLAPS

-----------------------------------------------------------------------------
(* Frames: the decoder never reads beyond one, and what it accepts is whole *)

Extents == [from : Nat, to : Nat]

Shapes == [version : Nat, declared : Nat, session : BOOLEAN, count : Nat, area : Nat,
           crc_ok : BOOLEAN]

\* The types that the steps of the decoder rely on.
Typed ==
    /\ sent \in Seq(Nat)
    /\ frame \in Shapes
    /\ offset \in Nat
    /\ got \in Seq(Extents)

\* The decoder has not begun.
Fresh == got = << >> /\ offset = 0

\* The inductive invariant: Tiled needs that the area of a frame is not changed
\* once there are commands, which holds as encoder and decoder take turns.
Inv ==
    /\ Typed
    /\ pc \in {"idle", "encoding", "refused", "made"} => Fresh
    /\ Tiled
    /\ AcceptedIsWhole

\* A length field, whoever wrote it, is a natural number (frame.py:174).
LEMMA LengthsAreNatural ==
    ASSUME Typed
    PROVE  NextLengths \subseteq Nat
<1>1. Lengths \subseteq Nat
    BY SMT, FrameAssumption
<1>2. \A i \in 1..Len(sent) : CommandSize(sent[i]) \in Nat
    BY DEF Typed, CommandSize, COMMAND_HEADER
<1>3. Len(got) < Len(sent) => Len(got) + 1 \in 1..Len(sent)
    BY DEF Typed
<1> QED
    BY <1>1, <1>2, <1>3 DEF NextLengths

\* The size of a frame is a natural number.
LEMMA TotalIsNatural ==
    ASSUME NEW s \in BOOLEAN, NEW area \in Nat
    PROVE  Total(s, area) \in Nat
BY DEF Total, Header, CRC_SIZE

\* One more command lies right behind those found (frame.py:177-180).
LEMMA ParseTiles ==
    ASSUME Inv, ParseCommand
    PROVE  Inv'
<1>1. PICK length \in NextLengths :
            /\ Fits(length)
            /\ got' = Append(got, [from |-> offset + COMMAND_HEADER, to |-> offset + length])
            /\ offset' = offset + length
    BY DEF ParseCommand
<1>2. Typed /\ Tiled /\ pc = "parsing"
    BY DEF Inv, ParseCommand
<1>3. length \in Nat /\ 6 <= length /\ offset + length <= frame.area
    BY <1>1, <1>2, LengthsAreNatural DEF Fits, Typed, Shapes, COMMAND_HEADER
<1> DEFINE found == [from |-> offset + 6, to |-> offset + length]
<1>4. found \in Extents /\ got' = Append(got, found)
    BY <1>1, <1>2, <1>3 DEF Typed, Extents, COMMAND_HEADER
<1>5. sent' = sent /\ frame' = frame /\ pc' = pc
    BY DEF ParseCommand
<1>6. Typed'
    BY <1>1, <1>2, <1>3, <1>4, <1>5 DEF Typed
<1>7. /\ Len(got') = Len(got) + 1
      /\ got'[Len(got) + 1] = found
      /\ \A i \in 1..Len(got) : got'[i] = got[i]
    BY <1>2, <1>4 DEF Typed
<1>8. Tiled'
    <2>1. got' # << >> /\ offset' = got'[Len(got')].to
        BY <1>1, <1>2, <1>4, <1>7 DEF Typed
    <2>2. offset' <= frame'.area
        BY <1>1, <1>3, <1>5
    <2>3. ASSUME NEW i \in 1..Len(got')
          PROVE  /\ got'[i].from <= got'[i].to
                 /\ got'[i].from = COMMAND_HEADER + (IF i = 1 THEN 0 ELSE got'[i - 1].to)
        <3>1. CASE i \in 1..Len(got)
            <4>1. i # 1 => i - 1 \in 1..Len(got)
                BY <1>2, <3>1 DEF Typed
            <4> QED
                BY <1>2, <1>7, <3>1, <4>1 DEF Tiled
        <3>2. CASE i = Len(got) + 1
            <4>1. found.from <= found.to /\ found.from = 6 + offset
                BY <1>2, <1>3 DEF Typed
            <4>2. CASE got = << >>
                BY <1>2, <1>7, <3>2, <4>1, <4>2 DEF Tiled, Typed, COMMAND_HEADER
            <4>3. CASE got # << >>
                <5>1. Len(got) \in Nat /\ Len(got) # 0
                    BY <1>2, <4>3 DEF Typed
                <5>2. got'[i - 1] = got[Len(got)] /\ i # 1
                    BY <1>7, <3>2, <5>1
                <5> QED
                    BY <1>2, <1>7, <3>2, <4>1, <4>3, <5>2 DEF Tiled, COMMAND_HEADER
            <4> QED
                BY <4>2, <4>3
        <3> QED
            BY <1>2, <1>7, <2>3, <3>1, <3>2 DEF Typed
    <2> QED
        BY <2>1, <2>2, <2>3 DEF Tiled
<1> QED
    BY <1>2, <1>5, <1>6, <1>8 DEF Inv, AcceptedIsWhole

\* Every step of an encoder, of another program and of the decoder keeps it.
LEMMA Invariance == Inv /\ [Next]_vars => Inv'
<1> SUFFICES ASSUME Inv, [Next]_vars
             PROVE  Inv'
    OBVIOUS
<1>1. ASSUME NEW list \in Lists, NEW s \in BOOLEAN, Encode(list, s)
      PROVE  Inv'
    <2>1. list \in Seq(Nat) /\ sent' = list
        BY <1>1, FrameAssumption DEF Encode
    <2>2. Fresh' /\ pc' \in {"encoding", "refused"}
        BY <1>1 DEF Encode, Inv, Fresh
    <2>3. frame' \in Shapes
        BY <1>1 DEF Encode, NoFrame, Shapes
    <2> QED
        BY <2>1, <2>2, <2>3 DEF Inv, Typed, Fresh, AcceptedIsWhole, Tiled, Shapes
<1>2. CASE EncodeCommand
    <2>1. frame \in Shapes /\ sent \in Seq(Nat) /\ Fresh
        BY <1>2 DEF EncodeCommand, Inv, Typed
    <2>2. Fresh' /\ sent' = sent /\ pc' \in {"encoding", "refused"}
        BY <1>2, <2>1 DEF EncodeCommand, Fresh
    <2>3. frame' \in Shapes
        <3> DEFINE bytes == CommandSize(sent[frame.count + 1])
        <3>1. frame.count + 1 \in 1..Len(sent)
            BY <1>2, <2>1 DEF EncodeCommand, Shapes
        <3>2. bytes \in Nat
            BY <2>1, <3>1 DEF CommandSize, COMMAND_HEADER
        <3>3. \/ frame' = frame
              \/ frame' = [frame EXCEPT !.count = @ + 1, !.area = @ + bytes]
            BY <1>2 DEF EncodeCommand
        <3> HIDE DEF bytes
        <3>4. frame.count \in Nat /\ frame.area \in Nat
            BY <2>1 DEF Shapes
        <3>5. frame.count + 1 \in Nat /\ frame.area + bytes \in Nat
            BY <3>2, <3>4
        <3> QED
            BY <2>1, <3>3, <3>5 DEF Shapes
    <2> QED
        BY <2>1, <2>2, <2>3 DEF Inv, Typed, Fresh, AcceptedIsWhole, Tiled, Shapes
<1>3. CASE Seal
    <2> DEFINE total == Total(frame.session, frame.area)
    <2>1. frame \in Shapes /\ Fresh /\ Fresh' /\ sent' = sent /\ pc' = "made"
        BY <1>3 DEF Seal, Inv, Typed, Fresh
    <2>2. total \in Nat
        BY <2>1, TotalIsNatural DEF Shapes
    <2>3. frame' = [frame EXCEPT !.version = 1, !.crc_ok = TRUE, !.declared = total % 65536]
        BY SMT, <1>3 DEF Seal, PROTOCOL_VERSION, MAX_FIELD
    <2> HIDE DEF total
    <2>4. total % 65536 \in Nat
        BY SMT, <2>2
    <2> DEFINE low == total % 65536
    <2>5. low \in Nat /\ frame' = [frame EXCEPT !.version = 1, !.crc_ok = TRUE, !.declared = low]
        BY <2>3, <2>4
    <2> HIDE DEF low
    <2>6. frame' \in Shapes
        BY <2>1, <2>5, 1 \in Nat, TRUE \in BOOLEAN DEF Shapes
    <2> QED
        BY <2>1, <2>6 DEF Inv, Typed, Fresh, AcceptedIsWhole, Tiled, Shapes
<1>4. CASE Arrive
    <2>1. PICK v \in 1..2, s \in BOOLEAN, c \in Counts, a \in Areas, ok \in BOOLEAN,
               extra \in 0..1 :
            frame' = [version |-> v, session |-> s, count |-> c, area |-> a, crc_ok |-> ok,
                      declared |-> Total(s, a) + extra]
        BY <1>4 DEF Arrive
    <2>2. a \in Nat /\ c \in Nat
        BY FrameAssumption
    <2>3. Total(s, a) \in Nat
        BY <2>2, TotalIsNatural
    <2>4. frame' \in Shapes
        BY <2>1, <2>2, <2>3 DEF Shapes
    <2>5. Fresh /\ Fresh' /\ sent' = sent /\ pc' = "made"
        BY <1>4 DEF Arrive, Inv, Fresh
    <2> QED
        BY <2>4, <2>5 DEF Inv, Typed, Fresh, AcceptedIsWhole, Tiled, Shapes
<1>5. CASE CheckHeader
    BY <1>5 DEF CheckHeader, Inv, Typed, Fresh, AcceptedIsWhole, Tiled
<1>6. CASE ParseCommand
    BY <1>6, ParseTiles
<1>7. CASE ParseFails
    BY <1>7 DEF ParseFails, Inv, Typed, Fresh, AcceptedIsWhole, Tiled
<1>8. CASE Done
    <2>1. UNCHANGED <<sent, frame, offset, got>> /\ pc' \in {"accepted", "rejected"}
        BY <1>8 DEF Done
    <2>2. Typed /\ Tiled
        BY DEF Inv
    <2>3. Typed' /\ Tiled'
        BY <2>1, <2>2 DEF Typed, Tiled
    <2>4. offset = frame.area
        BY <1>8, <2>2 DEF Done, Typed, Tiled, Shapes
    <2>5. AcceptedIsWhole'
        BY <1>8, <2>1, <2>4 DEF Done, AcceptedIsWhole
    <2> QED
        BY <2>1, <2>3, <2>5 DEF Inv
<1>9. CASE UNCHANGED vars
    BY <1>9 DEF vars, Inv, Typed, Fresh, AcceptedIsWhole, Tiled
<1> QED
    BY <1>1, <1>2, <1>3, <1>4, <1>5, <1>6, <1>7, <1>8, <1>9 DEF Next, Decode

\* The invariant holds in every reachable state.
LEMMA InvHolds == Spec => []Inv
<1>1. Init => Inv
    BY DEF Init, Inv, Typed, Fresh, Tiled, AcceptedIsWhole, NoFrame, Shapes
<1> QED
    BY <1>1, Invariance, PTL DEF Spec

\* _parse_commands() cuts the command area into commands one behind the other
\* and never looks beyond it, whatever the length fields say (frame.py:166-181).
THEOREM CommandsTile == Spec => []Tiled
<1>1. Inv => Tiled
    BY DEF Inv
<1> QED
    BY <1>1, InvHolds, PTL

\* A frame that decodes has nothing left over and the number of commands that
\* it announces (frame.py:157-160), whoever made it.
THEOREM AcceptedFramesAreWhole == Spec => []AcceptedIsWhole
<1>1. Inv => AcceptedIsWhole
    BY DEF Inv
<1> QED
    BY <1>1, InvHolds, PTL

-----------------------------------------------------------------------------
(* Frames of our own: what is encoded is decoded *)

\* The commands of the frame end at the places e of its area, one behind the
\* other, each as long as it was encoded.
Marks(e) ==
    /\ e \in [0..frame.count -> Nat]
    /\ e[0] = 0 /\ e[frame.count] = frame.area
    /\ \A i \in 1..frame.count : e[i] = e[i - 1] + CommandSize(sent[i])
    /\ \A i, j \in 0..frame.count : i < j => e[i] + 6 <= e[j]

\* The decoder has found the first of them and stands behind.
FoundUpTo(e) ==
    /\ Len(got) <= frame.count
    /\ offset = e[Len(got)]
    /\ \A i \in 1..Len(got) : PayloadSize(got[i]) = sent[i]

Declared == frame.declared = Total(frame.session, frame.area) % 65536

\* Where encoder and decoder are in a frame that the library made.
Carried ==
    /\ frame.count <= Len(sent)
    /\ pc # "encoding" => frame.count = Len(sent)
    /\ \E e : Marks(e) /\ FoundUpTo(e)
    /\ pc = "made" => frame.version = 1 /\ frame.crc_ok /\ Declared
    /\ pc = "rejected" => Total(frame.session, frame.area) > 65535
    /\ pc = "accepted" => Len(got) = frame.count

OwnInv ==
    /\ Inv
    /\ pc = "idle" => sent = << >>
    /\ sent # << >> /\ pc # "refused" => Carried

\* One more command is encoded behind the others.
LEMMA EncodeCarries ==
    ASSUME OwnInv, EncodeCommand, pc' # "refused"
    PROVE  Carried'
<1>. DEFINE bytes == CommandSize(sent[frame.count + 1])
            n == frame.count
<1>1. /\ pc = "encoding" /\ pc' = "encoding" /\ Len(sent) \in Nat /\ n \in Nat /\ n < Len(sent)
      /\ frame.area \in Nat /\ sent # << >> /\ got = << >> /\ offset = 0
  BY DEF EncodeCommand, OwnInv, Inv, Typed, Fresh, Shapes
<1>2. PICK e : Marks(e) /\ FoundUpTo(e)
  BY <1>1 DEF OwnInv, Carried
<1>3. bytes \in Nat /\ 6 <= bytes
  <2>1. sent[n + 1] \in Nat
    BY <1>1 DEF OwnInv, Inv, Typed
  <2>. QED
    BY <2>1 DEF CommandSize, COMMAND_HEADER
<1>4. /\ frame' = [frame EXCEPT !.count = @ + 1, !.area = @ + bytes]
      /\ sent' = sent /\ got' = got /\ offset' = offset
  BY DEF EncodeCommand
<1>5. frame'.count = n + 1 /\ frame'.area = frame.area + bytes
  BY <1>4 DEF OwnInv, Inv, Typed, Shapes
<1>0. PICK more : more = [i \in 0..n + 1 |-> IF i <= n THEN e[i] ELSE frame.area + bytes]
  OBVIOUS
<1>6. more \in [0..n + 1 -> Nat] /\ more[0] = 0 /\ more[n + 1] = frame.area + bytes
  BY <1>1, <1>2, <1>3, <1>0 DEF Marks
<1>7. \A i \in 0..n : more[i] = e[i]
  BY <1>1, <1>0
<1>8. ASSUME NEW i \in 1..n + 1
      PROVE  more[i] = more[i - 1] + CommandSize(sent[i])
  <2>1. CASE i \in 1..n
    BY <1>1, <1>2, <1>7, <2>1 DEF Marks
  <2>2. CASE i = n + 1
    <3>1. more[i - 1] = e[n] /\ e[n] = frame.area
      BY <1>1, <1>2, <1>7, <2>2 DEF Marks
    <3>. QED
      BY <1>6, <2>2, <3>1
  <2>. QED
    BY <1>1, <2>1, <2>2
<1>9. ASSUME NEW i \in 0..n + 1, NEW j \in 0..n + 1, i < j
      PROVE  more[i] + 6 <= more[j]
  <2>1. i \in 0..n /\ more[i] = e[i] /\ e[i] \in Nat /\ e[n] = frame.area
    <3>1. i \in 0..n
      BY <1>1, <1>9
    <3>2. e \in [0..n -> Nat] /\ e[n] = frame.area
      BY <1>2 DEF Marks
    <3>. QED
      BY <1>7, <3>1, <3>2
  <2>2. CASE j \in 0..n
    BY <1>2, <1>7, <1>9, <2>1, <2>2 DEF Marks
  <2>3. CASE j = n + 1
    <3>1. e[i] <= e[n]
      <4>1. i < n => e[i] + 6 <= e[n]
        <5>1. n \in 0..n
          BY <1>1
        <5>2. \A k, l \in 0..n : k < l => e[k] + 6 <= e[l]
          BY <1>2 DEF Marks
        <5>. QED
          BY <2>1, <5>1, <5>2
      <4>2. CASE i < n
        BY <1>1, <2>1, <4>1, <4>2
      <4>3. CASE i = n
        BY <1>1, <2>1, <4>3
      <4>. QED
        BY <1>1, <2>1, <4>2, <4>3
    <3>. QED
      BY <1>1, <1>3, <1>6, <2>1, <2>3, <3>1
  <2>. QED
    BY <1>1, <2>2, <2>3
<1>. HIDE DEF bytes
<1>10. Marks(more)'
  <2>1. \A i \in 1..frame'.count : more[i] = more[i - 1] + CommandSize(sent[i])'
    BY <1>4, <1>5, <1>8 DEF CommandSize, COMMAND_HEADER
  <2>2. \A i, j \in 0..frame'.count : i < j => more[i] + 6 <= more[j]
    BY <1>5, <1>9
  <2>3. \A i \in 1..frame'.count : more[i] = more[i - 1] + (6 + sent'[i])
    BY <2>1 DEF CommandSize, COMMAND_HEADER
  <2>4. more \in [0..frame'.count -> Nat] /\ more[0] = 0 /\ more[frame'.count] = frame'.area
    BY <1>5, <1>6
  <2>. QED
    BY <2>2, <2>3, <2>4 DEF Marks, CommandSize, COMMAND_HEADER
<1>11. FoundUpTo(more)'
  BY <1>1, <1>4, <1>5, <1>6 DEF FoundUpTo
<1>. QED
  BY <1>1, <1>4, <1>5, <1>10, <1>11 DEF Carried

\* The decoder finds the next command where the encoder put it, and nowhere
\* does it stumble over one.
LEMMA ParseCarries ==
    ASSUME OwnInv, sent # << >>, pc = "parsing"
    PROVE  /\ ParseCommand => Carried'
           /\ ~ParseFails
           /\ offset >= frame.area => Len(got) = frame.count
<1>. DEFINE n == Len(got)
<1>1. /\ n \in Nat /\ frame.count \in Nat /\ frame.area \in Nat /\ got \in Seq(Extents)
      /\ Carried /\ frame.count = Len(sent)
  BY DEF OwnInv, Inv, Typed, Shapes, Carried
<1>2. PICK e : Marks(e) /\ FoundUpTo(e)
  BY <1>1 DEF Carried
<1>3. n <= frame.count /\ offset = e[n] /\ e[n] \in Nat /\ e[frame.count] = frame.area
  BY <1>1, <1>2 DEF Marks, FoundUpTo
<1>4. ASSUME n # frame.count
      PROVE  /\ n + 1 \in 1..frame.count
             /\ NextLengths = {CommandSize(sent[n + 1])}
             /\ e[n + 1] = offset + CommandSize(sent[n + 1])
             /\ offset + 6 <= e[n + 1] /\ e[n + 1] <= frame.area /\ e[n + 1] \in Nat
             /\ sent[n + 1] \in Nat /\ offset \in Nat
  <2>1. n + 1 \in 1..frame.count /\ n < Len(sent)
    BY <1>1, <1>3, <1>4
  <2>2. e[n + 1] = e[n] + CommandSize(sent[n + 1])
    <3>1. n + 1 - 1 = n
      BY <1>1
    <3>. QED
      BY <1>2, <2>1, <3>1 DEF Marks
  <2>3. e[n + 1] \in Nat /\ e[n] + 6 <= e[n + 1] /\ e[n + 1] <= e[frame.count]
    BY <1>1, <1>2, <2>1 DEF Marks
  <2>4. sent[n + 1] \in Nat
    BY <1>1, <2>1 DEF OwnInv, Inv, Typed
  <2>. QED
    BY <1>3, <2>1, <2>2, <2>3, <2>4 DEF NextLengths
<1>5. offset >= frame.area => n = frame.count
  BY <1>1, <1>3, <1>4
<1>6. ~ParseFails
  <2>. SUFFICES ASSUME offset < frame.area
                PROVE  /\ ~(offset + 6 > frame.area)
                       /\ \A length \in NextLengths : Fits(length)
    BY DEF ParseFails, COMMAND_HEADER
  <2>1. n # frame.count
    BY <1>1, <1>3
  <2>. QED
    BY <1>1, <1>3, <1>4, <2>1 DEF Fits, COMMAND_HEADER, CommandSize
<1>7. ASSUME ParseCommand
      PROVE  Carried'
  <2>1. n # frame.count
    BY <1>1, <1>3, <1>7 DEF ParseCommand, COMMAND_HEADER
  <2>. DEFINE length == CommandSize(sent[n + 1])
  <2>2. /\ got' = Append(got, [from |-> offset + 6, to |-> offset + length])
        /\ offset' = offset + length
        /\ UNCHANGED <<pc, sent, frame>>
    BY <1>4, <1>7, <2>1 DEF ParseCommand, COMMAND_HEADER
  <2>3. length = 6 + sent[n + 1]
    BY DEF CommandSize, COMMAND_HEADER
  <2>. DEFINE found == [from |-> offset + 6, to |-> offset + length]
  <2>4. /\ Len(got') = n + 1 /\ got'[n + 1] = found
        /\ \A i \in 1..n : got'[i] = got[i]
    BY <1>1, <2>2
  <2>5. PayloadSize(found) = sent[n + 1]
    BY <1>4, <2>1, <2>3 DEF PayloadSize
  <2>. HIDE DEF length, found
  <2>6. ASSUME NEW i \in 1..n + 1
        PROVE  PayloadSize(got'[i]) = sent[i]
    BY <1>1, <1>2, <2>4, <2>5 DEF FoundUpTo
  <2>7. Marks(e)' /\ FoundUpTo(e)'
    <3>1. Marks(e)'
      BY <1>2, <2>2 DEF Marks
    <3>2. Len(got') <= frame'.count /\ offset' = e[Len(got')]
      BY <1>1, <1>4, <2>1, <2>2, <2>4 DEF length
    <3>. QED
      BY <2>2, <2>4, <2>6, <3>1, <3>2 DEF FoundUpTo, PayloadSize
  <2>. QED
    BY <1>1, <2>2, <2>7 DEF Carried
<1>. QED
  BY <1>5, <1>6, <1>7

\* The invariant of our own frames is kept: what a step of the encoder, or of
\* the decoder, makes of such a frame is told by the two lemmas above; a frame
\* of another program has no `sent`.
LEMMA OwnInvariance == OwnInv /\ [Next]_vars => OwnInv'
<1>. SUFFICES ASSUME OwnInv, [Next]_vars
              PROVE  OwnInv'
  OBVIOUS
<1>1. Inv' /\ Inv
  BY Invariance DEF OwnInv
<1>2. ASSUME NEW list \in Lists, NEW s \in BOOLEAN, Encode(list, s), sent' # << >>,
             pc' # "refused"
      PROVE  Carried'
  <2>1. /\ list \in Seq(Nat) /\ sent' = list /\ Len(list) \in Nat
        /\ pc' = "encoding" /\ got' = got /\ offset' = offset
    BY <1>2, FrameAssumption DEF Encode
  <2>2. frame'.count = 0 /\ frame'.area = 0
    BY <1>2 DEF Encode, NoFrame
  <2>3. got = << >> /\ offset = 0
    BY <1>1, <1>2 DEF Encode, Inv, Fresh
  <2>. DEFINE start == [i \in 0..0 |-> 0]
  <2>4. start[0] = 0 /\ start \in [0..0 -> Nat]
    OBVIOUS
  <2>. HIDE DEF start
  <2>5. Marks(start)'
    BY <2>2, <2>4 DEF Marks
  <2>6. FoundUpTo(start)'
    BY <2>1, <2>2, <2>3, <2>4 DEF FoundUpTo
  <2>. QED
    BY <2>1, <2>2, <2>5, <2>6 DEF Carried
<1>3. ASSUME Seal, sent # << >>
      PROVE  Carried'
  <2>1. Carried /\ frame.count = Len(sent)
    BY <1>3 DEF Seal, OwnInv
  <2>2. frame \in Shapes
    BY <1>1 DEF Inv, Typed
  <2>3. /\ sent' = sent /\ got' = got /\ offset' = offset /\ pc' = "made"
        /\ frame'.count = frame.count /\ frame'.area = frame.area
        /\ frame'.session = frame.session /\ frame'.version = 1 /\ frame'.crc_ok
        /\ frame'.declared = Total(frame.session, frame.area) % 65536
    BY <1>3, <2>2 DEF Seal, Shapes, PROTOCOL_VERSION, MAX_FIELD
  <2>4. Declared'
    BY <2>3 DEF Declared, Total, Header
  <2>5. PICK e : Marks(e) /\ FoundUpTo(e)
    BY <2>1 DEF Carried
  <2>6. Marks(e)' /\ FoundUpTo(e)'
    BY <2>3, <2>5 DEF Marks, FoundUpTo
  <2>. QED
    BY <2>1, <2>3, <2>4, <2>6 DEF Carried
<1>4. ASSUME CheckHeader, sent # << >>
      PROVE  Carried'
  <2>1. /\ Carried /\ pc = "made" /\ UNCHANGED <<sent, frame, offset, got>>
        /\ pc' = IF Acceptable THEN "parsing" ELSE "rejected"
    BY <1>4 DEF CheckHeader, OwnInv
  <2>2. frame.count = Len(sent) /\ frame.version = 1 /\ frame.crc_ok /\ Declared
    BY <2>1 DEF Carried
  <2>3. PICK e : Marks(e) /\ FoundUpTo(e)
    BY <2>1 DEF Carried
  <2>4. frame.area >= 6
    <3>1. Len(sent) \in Nat /\ Len(sent) # 0 /\ e[frame.count] = frame.area /\ e[0] = 0
      BY <1>1, <1>4, <2>3 DEF Inv, Typed, Marks
    <3>2. 0 \in 0..frame.count /\ frame.count \in 0..frame.count /\ 0 < frame.count
      BY <2>2, <3>1
    <3>3. e[0] + 6 <= e[frame.count]
      BY <2>3, <3>2 DEF Marks
    <3>. QED
      BY <3>1, <3>3
  <2>5. ASSUME ~Acceptable
        PROVE  Total(frame.session, frame.area) > 65535
    <3>1. Total(frame.session, frame.area) \in Nat
      BY <1>1, TotalIsNatural DEF Inv, Typed, Shapes
    <3>2. frame.declared # Total(frame.session, frame.area)
      BY <2>2, <2>4, <2>5 DEF Acceptable, PROTOCOL_VERSION, COMMAND_HEADER
    <3>. QED
      BY <2>2, <3>1, <3>2 DEF Declared
  <2>6. Total(frame.session, frame.area)' = Total(frame.session, frame.area)
    BY <2>1
  <2>7. Marks(e)' /\ FoundUpTo(e)'
    BY <2>1, <2>3 DEF Marks, FoundUpTo
  <2>. QED
    BY <2>1, <2>2, <2>5, <2>6, <2>7 DEF Carried
<1>5. ASSUME Done, sent # << >>
      PROVE  Carried'
  <2>1. /\ Carried /\ pc = "parsing" /\ UNCHANGED <<sent, frame, offset, got>>
        /\ Len(got) = frame.count /\ pc' = "accepted"
    BY <1>5, ParseCarries DEF Done, OwnInv
  <2>2. PICK e : Marks(e) /\ FoundUpTo(e)
    BY <2>1 DEF Carried
  <2>3. Marks(e)' /\ FoundUpTo(e)'
    BY <2>1, <2>2 DEF Marks, FoundUpTo
  <2>. QED
    BY <2>1, <2>3 DEF Carried
<1>6. ASSUME sent' # << >>, pc' # "refused"
      PROVE  Carried'
  <2>1. CASE \E list \in Lists, s \in BOOLEAN : Encode(list, s)
    BY <1>2, <1>6, <2>1
  <2>2. CASE EncodeCommand
    BY <1>6, <2>2, EncodeCarries
  <2>3. CASE Seal
    BY <1>3, <1>6, <2>3 DEF Seal
  <2>4. CASE Arrive
    BY <1>6, <2>4 DEF Arrive, OwnInv
  <2>5. CASE CheckHeader
    BY <1>4, <1>6, <2>5 DEF CheckHeader
  <2>6. CASE ParseCommand
    BY <1>6, <2>6, ParseCarries DEF ParseCommand
  <2>7. CASE ParseFails
    BY <1>6, <2>7, ParseCarries DEF ParseFails
  <2>8. CASE Done
    BY <1>5, <1>6, <2>8 DEF Done
  <2>9. CASE UNCHANGED vars
    <3>1. Carried
      BY <1>6, <2>9 DEF vars, OwnInv
    <3>2. PICK e : Marks(e) /\ FoundUpTo(e)
      BY <3>1 DEF Carried
    <3>3. pc' = pc /\ sent' = sent /\ frame' = frame /\ offset' = offset /\ got' = got
      BY <2>9 DEF vars
    <3>4. Marks(e)' /\ FoundUpTo(e)'
      BY <3>2, <3>3 DEF Marks, FoundUpTo
    <3>5. Declared' = Declared /\ Total(frame.session, frame.area)' = Total(frame.session, frame.area)
      BY <3>3 DEF Declared
    <3>. QED
      BY <3>1, <3>3, <3>4, <3>5 DEF Carried
  <2>. QED
    BY <2>1, <2>2, <2>3, <2>4, <2>5, <2>6, <2>7, <2>8, <2>9 DEF Next, Decode
<1>7. pc' = "idle" => sent' = << >>
  <2>1. CASE pc' = pc /\ sent' = sent
    BY <2>1 DEF OwnInv
  <2>2. CASE pc' # "idle"
    BY <2>2
  <2>. QED
    BY <2>1, <2>2 DEF Next, Decode, Encode, EncodeCommand, Seal, Arrive, CheckHeader,
       ParseCommand, ParseFails, Done, vars
<1>. QED
  BY <1>1, <1>6, <1>7 DEF OwnInv

\* What a client encodes, the decoder returns command by command, unless the
\* frame is longer than its length field can say: for lists of every length,
\* with payloads of every size (frame.py:60, 78, 93, 108).
THEOREM EncodedFramesDecode == Spec => []RoundTrip
<1>1. Init => OwnInv
  BY DEF Init, OwnInv, Inv, Typed, Fresh, Tiled, AcceptedIsWhole, Shapes, NoFrame, Extents
<1>2. OwnInv => RoundTrip
  <2>. SUFFICES ASSUME OwnInv, sent # << >>, pc # "refused",
                       Total(frame.session, frame.area) <= 65535
                PROVE  /\ pc # "rejected"
                       /\ pc = "accepted" =>
                            /\ Len(got) = Len(sent)
                            /\ \A i \in 1..Len(sent) : PayloadSize(got[i]) = sent[i]
    BY DEF RoundTrip, MAX_FIELD
  <2>1. Carried
    BY DEF OwnInv
  <2>2. Total(frame.session, frame.area) \in Nat
    BY TotalIsNatural DEF OwnInv, Inv, Typed, Shapes
  <2>3. pc # "rejected"
    BY <2>1, <2>2 DEF Carried
  <2>. QED
    BY <2>1, <2>3 DEF Carried, FoundUpTo
<1>. QED
  BY <1>1, <1>2, OwnInvariance, PTL DEF Spec

-----------------------------------------------------------------------------
(* Records: the decoders stay in step with those of the payload *)

\* Where the i-th record begins, or where the records end.
At(r, l, i) == IF i <= Len(r) THEN r[i].at ELSE l

\* The records lie one behind the other, from the first byte to Laid.
Chained ==
    /\ format \in Formats
    /\ records \in Seq([at : Nat, kind : Kinds(format)])
    /\ Laid \in Nat
    /\ At(records, Laid, 1) = 0
    /\ \A i \in 1..Len(records) :
            At(records, Laid, i + 1) = records[i].at + LaidOut(records[i].kind)
    /\ \A i, j \in 1..Len(records) + 1 : i < j => At(records, Laid, i) < At(records, Laid, j)

\* The decoder has found the first records, and is where the next one begins.
InStep ==
    /\ taken \in Seq(Kinds(format))
    /\ Len(taken) <= Len(records)
    /\ \A i \in 1..Len(taken) : taken[i] = records[i].kind
    /\ place = At(records, Laid, Len(taken) + 1)

\* What is known of the payload, and of how the decoder has ended.
Ended ==
    /\ size \in Nat /\ count \in Nat
    /\ size <= Laid
    /\ stage = "gateway" => size = Laid /\ taken = << >> /\ place = 0
    /\ stage # "gateway" /\ format = "write" => Len(taken) <= count
    /\ stage = "raised" => ~Whole
    /\ stage = "returned" => place = size /\ (format = "write" => Len(taken) = count)

RecordsInv == Chained /\ InStep /\ Ended

\* A record has at least one byte, and the decoders take as many off for a record
\* of a known kind as the gateway put down (params.py:148-168, data.py:275-286).
LEMMA Sizes ==
    ASSUME format \in Formats, NEW kind \in Kinds(format)
    PROVE  /\ LaidOut(kind) \in Nat \ {0}
           /\ kind.name # "unknown" =>
                Needs(kind) = LaidOut(kind) /\ Least <= Needs(kind) /\ Least \in Nat
<1>1. CASE format = "read"
  BY <1>1 DEF Kinds, LaidOut, Needs, Least
<1>2. CASE format = "write"
  BY <1>2 DEF Kinds, LaidOut, Needs, Least
<1>3. CASE format = "info"
  BY <1>3, WireRecordsAssumption DEF Kinds, LaidOut, Needs, Least
<1>. QED
  BY <1>1, <1>2, <1>3 DEF Formats

\* What a sequence over S has at its places is in S.
LEMMA ElementsOfSeq ==
    ASSUME NEW S, NEW s \in Seq(S)
    PROVE  \A i \in 1..Len(s) : s[i] \in S
OBVIOUS

\* What the invariant says of the types.
LEMMA Facts ==
    ASSUME RecordsInv
    PROVE  /\ format \in Formats
           /\ size \in Nat /\ count \in Nat /\ Laid \in Nat /\ Least \in Nat \ {0}
           /\ Len(records) \in Nat /\ Len(taken) \in Nat /\ Len(taken) <= Len(records)
           /\ \A i \in 1..Len(records) :
                records[i].at \in Nat /\ records[i].kind \in Kinds(format)
           /\ \A i \in 1..Len(records) + 1 : At(records, Laid, i) \in Nat
           /\ At(records, Laid, Len(records) + 1) = Laid
           /\ place \in Nat
<1>1. format \in Formats /\ size \in Nat /\ count \in Nat /\ Laid \in Nat
  BY DEF RecordsInv, Chained, Ended
<1>2. Least \in Nat \ {0}
  BY <1>1 DEF Least, Formats
<1>3. Len(records) \in Nat /\ Len(taken) \in Nat /\ Len(taken) <= Len(records)
  BY DEF RecordsInv, Chained, InStep
<1>4. \A i \in 1..Len(records) : records[i] \in [at : Nat, kind : Kinds(format)]
  <2>1. records \in Seq([at : Nat, kind : Kinds(format)])
    BY DEF RecordsInv, Chained
  <2>. QED
    BY <2>1, ElementsOfSeq
<1>5. \A i \in 1..Len(records) : records[i].at \in Nat /\ records[i].kind \in Kinds(format)
  BY <1>4
<1>6. At(records, Laid, Len(records) + 1) = Laid
  BY <1>3 DEF At
<1>7. \A i \in 1..Len(records) + 1 : At(records, Laid, i) \in Nat
  BY <1>1, <1>3, <1>5 DEF At
<1>8. place \in Nat
  BY <1>3, <1>7 DEF RecordsInv, InStep
<1>. QED
  BY <1>1, <1>2, <1>3, <1>5, <1>6, <1>7, <1>8

\* An empty payload satisfies the invariant.
LEMMA RecordsInitInv == RecordsInit => RecordsInv
BY DEF RecordsInit, RecordsInv, Chained, InStep, Ended, At, Laid

\* The gateway puts a record behind the others.
LEMMA PutStep ==
    ASSUME RecordsInv, NEW kind \in Kinds(format), Put(kind)
    PROVE  RecordsInv'
<1>. DEFINE n == Len(records)
            new == [at |-> size, kind |-> kind]
<1>0. n \in Nat /\ \A i \in 1..n + 1 : At(records, Laid, i) \in Nat
  BY Facts
<1>1. /\ format' = format /\ stage = "gateway" /\ stage' = "gateway" /\ count' = count
      /\ records' = Append(records, new) /\ size' = size + LaidOut(kind)
      /\ taken = << >> /\ taken' = taken /\ place = 0 /\ place' = 0
      /\ size = Laid /\ size \in Nat /\ count \in Nat
  BY DEF Put, RecordsInv, Ended
<1>2. LaidOut(kind) \in Nat \ {0}
  BY Sizes DEF RecordsInv, Chained
<1>3. /\ records' \in Seq([at : Nat, kind : Kinds(format)])
      /\ n \in Nat /\ Len(records') = n + 1 /\ records'[n + 1] = new
      /\ \A i \in 1..n : records'[i] = records[i]
  BY <1>1 DEF RecordsInv, Chained
<1>4. Laid' = size + LaidOut(kind)
  <2>1. records' # << >> /\ records'[Len(records')].at = size /\ records'[Len(records')].kind = kind
    BY <1>3
  <2>. QED
    BY <2>1 DEF Laid, LaidOut
<1>5. \A i \in 1..n + 1 : At(records', Laid', i) = At(records, Laid, i)
  <2>1. ASSUME NEW i \in 1..n PROVE At(records', Laid', i) = At(records, Laid, i)
    BY <1>3, <2>1 DEF At
  <2>2. At(records', Laid', n + 1) = size /\ At(records, Laid, n + 1) = size
    BY <1>1, <1>3 DEF At
  <2>. QED
    BY <1>3, <2>1, <2>2
<1>6. At(records', Laid', n + 2) = size + LaidOut(kind) /\ At(records, Laid, n + 1) = size
  BY <1>1, <1>3, <1>4 DEF At
<1>7. \A i \in 1..n + 1 : At(records, Laid, i) \in Nat /\ At(records, Laid, i) <= size
  <2>1. ASSUME NEW i \in 1..n PROVE At(records, Laid, i) < At(records, Laid, n + 1)
    BY <1>3, <2>1 DEF RecordsInv, Chained
  <2>. QED
    BY <1>0, <1>1, <1>3, <1>6, <2>1
<1>8. Chained'
  <2>1. ASSUME NEW i \in 1..n + 1
        PROVE  At(records', Laid', i + 1) = records'[i].at + LaidOut(records'[i].kind)
    <3>1. CASE i = n + 1
      <4>1. records'[i].at = size /\ records'[i].kind = kind /\ i + 1 = n + 2
        BY <1>3, <3>1
      <4>. QED
        BY <1>6, <4>1
    <3>2. CASE i \in 1..n
      <4>1. At(records, Laid, i + 1) = records[i].at + LaidOut(records[i].kind)
        BY <3>2 DEF RecordsInv, Chained
      <4>2. At(records', Laid', i + 1) = At(records, Laid, i + 1) /\ records'[i] = records[i]
        BY <1>3, <1>5, <3>2
      <4>. QED
        BY <4>1, <4>2
    <3>. QED
      BY <1>3, <3>1, <3>2
  <2>2. ASSUME NEW i \in 1..n + 2, NEW j \in 1..n + 2, i < j
        PROVE  At(records', Laid', i) < At(records', Laid', j)
    <3>1. CASE j = n + 2
      <4>1. i \in 1..n + 1
        BY <1>3, <2>2, <3>1
      <4>2. /\ At(records', Laid', i) = At(records, Laid, i)
            /\ At(records, Laid, i) \in Nat /\ At(records, Laid, i) <= size
        BY <1>5, <1>7, <4>1
      <4>3. At(records', Laid', j) = size + LaidOut(kind)
        BY <1>6, <3>1
      <4>. QED
        BY <1>1, <1>2, <4>2, <4>3
    <3>2. CASE j \in 1..n + 1
      <4>1. i \in 1..n + 1
        BY <1>3, <2>2, <3>2
      <4>2. At(records, Laid, i) < At(records, Laid, j)
        BY <2>2, <3>2, <4>1 DEF RecordsInv, Chained
      <4>. QED
        BY <1>5, <3>2, <4>1, <4>2
    <3>. QED
      BY <1>3, <3>1, <3>2
  <2>3. At(records', Laid', 1) = 0
    BY <1>3, <1>5 DEF RecordsInv, Chained
  <2>4. format' \in Formats /\ Laid' \in Nat
    BY <1>1, <1>2, <1>4 DEF RecordsInv, Chained
  <2>5. records' \in Seq([at : Nat, kind : Kinds(format')])
    BY <1>1, <1>3
  <2>6. \A i \in 1..Len(records') :
            At(records', Laid', i + 1) = records'[i].at + LaidOut(records'[i].kind)
    BY <1>3, <2>1
  <2>7. \A i, j \in 1..Len(records') + 1 : i < j => At(records', Laid', i) < At(records', Laid', j)
    BY <1>3, <2>2
  <2>. QED
    BY <2>3, <2>4, <2>5, <2>6, <2>7 DEF Chained, LaidOut
<1>9. InStep'
  BY <1>1, <1>3, <1>8 DEF InStep, Chained
<1>10. Ended'
  BY <1>1, <1>2, <1>4 DEF Ended
<1>. QED
  BY <1>8, <1>9, <1>10 DEF RecordsInv

\* Bytes get lost at the end of the payload; the records stay what they were.
LEMMA DeliverStep ==
    ASSUME RecordsInv, NEW cut \in 0..MaxCut, NEW more \in 0..1,
           Deliver(cut, Len(records) + more)
    PROVE  RecordsInv'
<1>1. /\ UNCHANGED <<format, records, place, taken>>
      /\ size' = size - cut /\ cut <= size /\ count' = Len(records) + more
      /\ stage = "gateway" /\ stage' = "decoder"
  BY DEF Deliver
<1>2. Chained' /\ InStep'
  BY <1>1 DEF RecordsInv, Chained, InStep, At, Laid
<1>3. Ended'
  <2>1. cut \in Nat /\ Len(records) \in Nat /\ size = Laid /\ size \in Nat
    BY <1>1, Facts, WireRecordsAssumption DEF RecordsInv, Ended
  <2>2. Len(taken) = 0 /\ Laid' = Laid
    BY <1>1 DEF RecordsInv, Ended, Laid
  <2>. QED
    BY <1>1, <2>1, <2>2 DEF Ended
<1>. QED
  BY <1>2, <1>3 DEF RecordsInv

\* Wherever there is a byte behind the place of the decoder, the next record of
\* the payload begins there, and it is what the decoder finds.
LEMMA FindsNext ==
    ASSUME RecordsInv, place < size
    PROVE  /\ Len(taken) + 1 \in 1..Len(records)
           /\ place = records[Len(taken) + 1].at
           /\ Found = {records[Len(taken) + 1].kind}
<1>. DEFINE n == Len(taken) + 1
<1>1. n \in 1..Len(records)
  <2>1. CASE Len(taken) = Len(records)
    BY <2>1, Facts DEF RecordsInv, InStep, Ended
  <2>2. CASE Len(taken) < Len(records)
    BY <2>2, Facts
  <2>. QED
    BY <2>1, <2>2, Facts
<1>2. place = records[n].at
  BY <1>1 DEF RecordsInv, InStep, At
<1>3. ASSUME NEW i \in 1..Len(records), records[i].at = place
      PROVE  i = n
  <2>1. i \in 1..Len(records) + 1 /\ n \in 1..Len(records) + 1 /\ i \in Nat /\ n \in Nat
    BY <1>1, <1>3, Facts
  <2>2. At(records, Laid, i) = At(records, Laid, n) /\ At(records, Laid, i) \in Nat
    BY <1>1, <1>2, <1>3, <2>1, Facts DEF At
  <2>3. /\ ~(At(records, Laid, i) < At(records, Laid, n))
        /\ ~(At(records, Laid, n) < At(records, Laid, i))
    BY <2>2
  <2>4. ~(i < n) /\ ~(n < i)
    BY <2>1, <2>3 DEF RecordsInv, Chained
  <2>. QED
    BY <2>1, <2>4
<1>4. {i \in 1..Len(records) : records[i].at = place} = {n}
  BY <1>1, <1>2, <1>3
<1>. QED
  BY <1>1, <1>2, <1>4 DEF Found

\* If there is a byte behind it, there is a whole record; and in a payload that
\* arrived whole the decoder can read it.
LEMMA WholeIsReadable ==
    ASSUME RecordsInv, Whole, place < size
    PROVE  GoesOn /\ place + Least <= size /\ \A kind \in Found : Readable(kind)
<1>. DEFINE n == Len(taken) + 1
            kind == records[n].kind
<1>1. n \in 1..Len(records) /\ place = records[n].at /\ Found = {kind}
  BY FindsNext
<1>2. kind \in Kinds(format) /\ kind.name # "unknown" /\ format \in Formats /\ place \in Nat
  BY <1>1, Facts DEF Whole
<1>3. Needs(kind) = LaidOut(kind) /\ Least <= Needs(kind) /\ Least \in Nat /\ LaidOut(kind) \in Nat
  BY <1>2, Sizes
<1>4. At(records, Laid, n + 1) = place + LaidOut(kind)
  BY <1>1 DEF RecordsInv, Chained
<1>5. At(records, Laid, n + 1) <= Laid
  <2>1. At(records, Laid, Len(records) + 1) = Laid /\ n + 1 \in 1..Len(records) + 1
    BY <1>1, Facts
  <2>2. CASE n = Len(records)
    BY <2>1, <2>2, Facts
  <2>3. CASE n < Len(records)
    <3>1. n + 1 \in 1..Len(records) + 1 /\ Len(records) + 1 \in 1..Len(records) + 1
          /\ n + 1 < Len(records) + 1
      BY <1>1, <2>3, Facts
    <3>2. At(records, Laid, n + 1) < At(records, Laid, Len(records) + 1)
      BY <3>1 DEF RecordsInv, Chained
    <3>3. At(records, Laid, n + 1) \in Nat /\ Laid \in Nat
      BY <3>1, Facts
    <3>. QED
      BY <2>1, <3>2, <3>3
  <2>. QED
    BY <1>1, <2>2, <2>3, Facts
<1>6. size = Laid /\ count = Len(records) /\ size \in Nat
  BY DEF Whole, RecordsInv, Ended
<1>7. place + Least <= size /\ Readable(kind)
  <2>1. place + LaidOut(kind) <= size
    BY <1>4, <1>5, <1>6
  <2>2. place + Needs(kind) <= size
    BY <1>3, <2>1
  <2>. QED
    BY <1>2, <1>3, <1>6, <2>2 DEF Readable
<1>8. GoesOn
  <2>1. Len(taken) < count
    BY <1>1, <1>6, Facts
  <2>. QED
    BY <1>2, <1>7, <2>1 DEF GoesOn, Formats
<1>. QED
  BY <1>1, <1>7, <1>8

\* At the end of a payload that arrived whole, every record was found.
LEMMA WholeEnds ==
    ASSUME RecordsInv, Whole, place >= size
    PROVE  place = size /\ Len(taken) = Len(records) /\ ~GoesOn
<1>1. size = Laid /\ count = Len(records) /\ size \in Nat
  BY DEF Whole, RecordsInv, Ended
<1>2. At(records, Laid, Len(records) + 1) = Laid
  BY Facts
<1>3. Len(taken) = Len(records)
  <2>1. SUFFICES ASSUME Len(taken) < Len(records) PROVE FALSE
    BY Facts
  <2>2. /\ Len(taken) + 1 \in 1..Len(records) + 1 /\ Len(records) + 1 \in 1..Len(records) + 1
        /\ Len(taken) + 1 < Len(records) + 1
    BY <2>1, Facts
  <2>3. At(records, Laid, Len(taken) + 1) < Laid
    BY <1>2, <2>2 DEF RecordsInv, Chained
  <2>. QED
    BY <1>1, <2>3, Facts DEF RecordsInv, InStep
<1>4. place = size
  BY <1>1, <1>2, <1>3 DEF RecordsInv, InStep
<1>5. ~GoesOn
  <2>1. ~(place < size) /\ ~(Len(taken) < count) /\ ~(place + Least <= size)
    BY <1>1, <1>3, <1>4, Facts
  <2>. QED
    BY <2>1, Facts DEF GoesOn, Formats
<1>. QED
  BY <1>3, <1>4, <1>5

\* A turn of the loop takes exactly the next record of the payload.
LEMMA TakeStep ==
    ASSUME RecordsInv, TakeRecord
    PROVE  RecordsInv'
<1>. DEFINE n == Len(taken) + 1
<1>1. /\ UNCHANGED <<format, records, count, size, stage>>
      /\ stage = "decoder" /\ GoesOn /\ place + Least <= size
  BY DEF TakeRecord, payload
<1>2. place \in Nat /\ size \in Nat
  BY Facts
<1>3. Least \in Nat \ {0}
  BY Facts
<1>4. n \in 1..Len(records) /\ place = records[n].at /\ Found = {records[n].kind}
  BY <1>1, <1>2, <1>3, FindsNext
<1>5. /\ Readable(records[n].kind)
      /\ taken' = Append(taken, records[n].kind)
      /\ place' = place + Needs(records[n].kind)
  BY <1>4 DEF TakeRecord
<1>6. records[n].kind \in Kinds(format) /\ format \in Formats
  BY <1>4, Facts
<1>7. place' = At(records, Laid, n + 1)
  <2>1. Needs(records[n].kind) = LaidOut(records[n].kind)
    BY <1>5, <1>6, Sizes DEF Readable
  <2>. QED
    BY <1>4, <1>5, <2>1 DEF RecordsInv, Chained
<1>8. Chained' /\ At(records', Laid', n + 1) = At(records, Laid, n + 1)
  BY <1>1 DEF RecordsInv, Chained, At, Laid
<1>9. InStep'
  <2>1. /\ taken' \in Seq(Kinds(format')) /\ Len(taken') = n
        /\ \A i \in 1..n : taken'[i] = records[i].kind
    BY <1>1, <1>4, <1>5, <1>6 DEF RecordsInv, InStep
  <2>. QED
    BY <1>1, <1>4, <1>7, <1>8, <2>1 DEF InStep
<1>10. Ended'
  <2>1. format = "write" => n <= count
    BY <1>1, Facts DEF GoesOn
  <2>2. Len(taken') = n
    BY <1>5 DEF RecordsInv, InStep
  <2>. QED
    BY <1>1, <2>1, <2>2 DEF RecordsInv, Ended, Laid
<1>. QED
  BY <1>8, <1>9, <1>10 DEF RecordsInv

\* A decoder that stops leaves everything but the stage.
LEMMA StopStep ==
    ASSUME RecordsInv, UNCHANGED <<format, records, count, size, place, taken>>,
           stage = "decoder", stage' \in {"returned", "raised"},
           stage' = "raised" => ~Whole,
           stage' = "returned" => place = size /\ (format = "write" => Len(taken) = count)
    PROVE  RecordsInv'
<1>1. Chained' /\ InStep'
  BY DEF RecordsInv, Chained, InStep, At, Laid
<1>2. Whole' = Whole
  BY DEF Whole, Laid
<1>3. Ended'
  BY <1>2, Facts DEF RecordsInv, Ended, Laid
<1>. QED
  BY <1>1, <1>3 DEF RecordsInv

\* A payload that arrived whole gives no reason to refuse it.
LEMMA TakeFailsStep ==
    ASSUME RecordsInv, TakeFails
    PROVE  RecordsInv'
<1>1. ~Whole
  <2>1. SUFFICES ASSUME Whole PROVE FALSE
    OBVIOUS
  <2>2. place < size
    BY <2>1, WholeEnds, Facts DEF TakeFails
  <2>3. place + Least <= size /\ \A kind \in Found : Readable(kind)
    BY <2>1, <2>2, WholeIsReadable
  <2>. QED
    BY <2>3, Facts DEF TakeFails
<1>. QED
  BY <1>1, StopStep DEF TakeFails, payload

\* The loop ends at the end of a whole payload.
LEMMA EndStep ==
    ASSUME RecordsInv, End
    PROVE  RecordsInv'
<1>1. ASSUME Whole PROVE place = size
  <2>1. ~(place < size)
    BY <1>1, WholeIsReadable DEF End
  <2>. QED
    BY <1>1, <2>1, WholeEnds, Facts
<1>2. format = "write" => Len(taken) = count
  BY Facts DEF End, GoesOn, RecordsInv, Ended
<1>. QED
  BY <1>1, <1>2, StopStep DEF End, payload

\* Every step keeps the invariant ...
LEMMA RecordsStep == RecordsInv /\ [RecordsNext]_answer => RecordsInv'
<1>. SUFFICES ASSUME RecordsInv, [RecordsNext]_answer PROVE RecordsInv'
  OBVIOUS
<1>1. CASE UNCHANGED answer
  BY <1>1 DEF answer, payload, RecordsInv, Chained, InStep, Ended, At, Laid, Whole
<1>. QED
  BY <1>1, PutStep, DeliverStep, TakeStep, TakeFailsStep, EndStep
     DEF RecordsNext, RecordsDecode

\* ... so it always holds.
LEMMA RecordsInvariance == RecordsSpec => []RecordsInv
BY RecordsInitInv, RecordsStep, PTL DEF RecordsSpec

\* A decoder never shifts one record into the next, whatever bytes are missing
\* and whatever kinds come one behind the other, and takes a whole payload apart
\* completely, however many records it has.
THEOREM RecordsAreFoundAsSent == RecordsSpec => []FoundAsSent
<1>1. RecordsInv => FoundAsSent
  <2>. SUFFICES ASSUME RecordsInv PROVE FoundAsSent
    OBVIOUS
  <2>1. ASSUME Whole, stage = "returned" PROVE Len(taken) = Len(records)
    BY <2>1, WholeEnds, Facts DEF RecordsInv, Ended
  <2>. QED
    BY <2>1 DEF RecordsInv, InStep, Ended, FoundAsSent
<1>. QED
  BY <1>1, RecordsInvariance, PTL

\* A payload that ends inside a record is refused by each of the decoders.
THEOREM CutsAreRefused == RecordsSpec => []CutIsRefused
<1>1. RecordsInv => CutIsRefused
  <2>. SUFFICES ASSUME RecordsInv, stage = "returned" PROVE CutIsRefused
    BY DEF CutIsRefused
  <2>1. place = size /\ (format = "write" => Len(taken) = count)
    BY DEF RecordsInv, Ended
  <2>2. CASE Len(taken) = Len(records)
    BY <2>1, <2>2, Facts DEF CutIsRefused, RecordsInv, InStep
  <2>3. CASE Len(taken) < Len(records)
    <3>1. Len(taken) + 1 \in 1..Len(records)
      BY <2>3, Facts
    <3>2. records[Len(taken) + 1].at = size
      BY <2>1, <3>1 DEF RecordsInv, InStep, At
    <3>. QED
      BY <2>1, <3>1, <3>2 DEF CutIsRefused
  <2>. QED
    BY <2>2, <2>3, Facts
<1>. QED
  BY <1>1, RecordsInvariance, PTL

-----------------------------------------------------------------------------
(* Register words: setpoints survive any sequence of changes, for every        *)
(* temperature and every word of the gateway; regimes are shown as written     *)

Bits16 == {b \in Int : 0 <= b /\ b <= 65535}

\* Temperatures that a half holds without wrapping.
Holdable == {t \in Int : -640 <= t /\ t <= 9599}

\* What the fields of a regime may be.
RegimeFieldsOf == {n \in Int : 0 <= n /\ n <= 4194303}

Times == [hour : 0..23, minute : 0..59]

\* What the constants are, in these terms.
LEMMA Constants ==
    /\ Temperatures \subseteq Int
    /\ Halves \subseteq Bits16
    /\ Regimes \subseteq [fields : RegimeFieldsOf, spare : 0..1023]
    /\ [hour : Hours, minute : Minutes] \subseteq Times
    /\ AllHalves = Bits16
<1> DEFINE Below(n) == {b \in Int : 0 <= b /\ b <= n}
<1>0. \A n \in Int : 0..n = Below(n)
    BY SMT
<1>1. AllHalves = Bits16
    <2>1. U16 - 1 = 65535
        BY SMT DEF U16
    <2> QED
        BY <1>0, <2>1 DEF AllHalves, Bits16
<1>2. AllFields = RegimeFieldsOf
    <2>1. 64 * U16 - 1 = 4194303
        BY SMT DEF U16
    <2> QED
        BY <1>0, <2>1 DEF AllFields, RegimeFieldsOf
<1>3. [hour : Hours, minute : Minutes] \subseteq Times
    BY RegisterWordsAssumption DEF Times
<1> QED
    BY <1>1, <1>2, <1>3, RegisterWordsAssumption DEF AllRegimes

\* Wrapping takes off whole turns of 1024.0 degrees.
LEMMA Turns ==
    ASSUME NEW t \in Int
    PROVE  \E k \in Int : t = Wrapped(t) + 10240 * k /\ Wrapped(t) \in Holdable
<1> DEFINE k == (t + 640) \div 10240
<1>1. k \in Int /\ (t + 640) % 10240 \in 0..10239
    BY SMT
<1>2. t + 640 = 10240 * k + ((t + 640) % 10240)
    BY SMT
<1> QED
    BY SMT, <1>1, <1>2 DEF Wrapped, Holdable

\* A turn more of the temperature is 65536 more before the mask.
LEMMA TurnsDoNotCount ==
    ASSUME NEW u \in Holdable, NEW k \in Int
    PROVE  EncodeTempHalf(u + 10240 * k) = EncodeTempHalf(u)
<1> DEFINE n == 128 * (u + 640) + 10
<1>1. 128 * ((u + 10240 * k) + 640) + 10 = n + 1310720 * k
    BY SMT DEF Holdable
<1>2. n \in Int
    BY SMT DEF Holdable
<1>3. (n + 1310720 * k) \div 20 = (n \div 20) + 65536 * k
    <2> HIDE DEF n
    <2> QED
        BY SMT, <1>2
<1>4. n \div 20 \in Int
    BY SMT, <1>2
<1>5. \A q \in Int : (q + 65536 * k) % 65536 = q % 65536
    BY SMT
<1>6. ((n \div 20) + 65536 * k) % 65536 = (n \div 20) % 65536
    BY <1>4, <1>5
<1> QED
    BY <1>1, <1>3, <1>6 DEF EncodeTempHalf, U16

\* Masking changes nothing that fits 16 bits.
LEMMA FitsMask ==
    ASSUME NEW q \in Int, 0 <= q, q < 65536
    PROVE  q % 65536 = q
BY SMT

\* A temperature that a half can hold encodes to one that shows it (params.py:499,
\* 504): rounding to a 64th of a degree and back to a tenth loses nothing.
LEMMA HalfRoundTrip ==
    ASSUME NEW t \in Holdable
    PROVE  EncodeTempHalf(t) \in Bits16 /\ ScaledHalf(EncodeTempHalf(t)) = t
<1> DEFINE n == 128 * (t + 640) + 10
           q == n \div 20
<1>1. n \in Int /\ 10 <= n /\ n <= 1310602
    BY SMT DEF Holdable
<1>2. q \in Int /\ 20 * q <= n /\ n < 20 * q + 20
    BY SMT, <1>1
<1>3. 0 <= q /\ q <= 65530
    BY SMT, <1>1, <1>2
<1>4. q % 65536 = q
    <2>1. q \in Int /\ 0 <= q /\ q < 65536
        BY SMT, <1>2, <1>3
    <2> HIDE DEF q
    <2> QED
        BY <2>1, FitsMask
<1>5. EncodeTempHalf(t) = q
    BY SMT, <1>4 DEF EncodeTempHalf, U16
<1>6. (20 * q + 64) \div 128 = t + 640
    BY SMT, <1>2, <1>3 DEF Holdable
<1>7. ScaledHalf(q) = t
    BY SMT, <1>6 DEF ScaledHalf, Holdable
<1> QED
    BY SMT, <1>2, <1>3, <1>5, <1>7 DEF Bits16

\* Any temperature encodes to a half that shows what is left of it.
LEMMA HalfShowsWrapped ==
    ASSUME NEW t \in Int
    PROVE  /\ EncodeTempHalf(t) \in Bits16
           /\ ScaledHalf(EncodeTempHalf(t)) = Wrapped(t)
           /\ Wrapped(t) \in Int
<1>1. PICK k \in Int : t = Wrapped(t) + 10240 * k /\ Wrapped(t) \in Holdable
    BY Turns
<1>2. EncodeTempHalf(t) = EncodeTempHalf(Wrapped(t))
    BY <1>1, TurnsDoNotCount
<1>3. Wrapped(t) \in Int
    BY SMT, <1>1 DEF Holdable
<1> QED
    BY <1>1, <1>2, <1>3, HalfRoundTrip

\* What is left of a temperature wraps no further.
LEMMA WrapsOnce ==
    ASSUME NEW t \in Int
    PROVE  Wrapped(Wrapped(t)) = Wrapped(t)
<1>1. Wrapped(t) \in Holdable
    BY Turns
<1>2. \A u \in Holdable : Wrapped(u) = u
    BY SMT DEF Holdable, Wrapped
<1> QED
    BY <1>1, <1>2

-----------------------------------------------------------------------------

\* The inductive invariant: a word of two halves shows what `shown` says or what
\* is left of it.
Shows ==
    register = "setpoints" =>
        /\ word \in [low : Bits16, high : Bits16]
        /\ shown \in [comfort : Int, reduced : Int]
        /\ ScaledHalf(word.low) \in {shown.comfort, Wrapped(shown.comfort)}
        /\ ScaledHalf(word.high) \in {shown.reduced, Wrapped(shown.reduced)}

LEMMA ScaledIsInt ==
    ASSUME NEW raw \in Bits16
    PROVE  ScaledHalf(raw) \in Int
BY SMT DEF ScaledHalf, Bits16

\* Written back, what a half shows of t is shown as what is left of t.
LEMMA RewrittenShows ==
    ASSUME NEW t \in Int, NEW d \in {t, Wrapped(t)}
    PROVE  /\ EncodeTempHalf(d) \in Bits16
           /\ ScaledHalf(EncodeTempHalf(d)) \in {t, Wrapped(t)}
<1>1. d \in Int /\ Wrapped(d) = Wrapped(t)
    BY WrapsOnce, HalfShowsWrapped
<1> QED
    BY <1>1, HalfShowsWrapped

\* A setpoint that is changed shows its new temperature and the other one the
\* temperature it showed, or what 16 bits leave of them, whatever sequence of
\* changes came before: neither drifts in a read, change and write of the pair
\* (params.py:293, 309), for temperatures and words of all kinds.
THEOREM SetpointsDoNotDrift == WordsSpec => []SetpointsKept
<1>1. WordsInit => Shows
    <2> SUFFICES ASSUME WordsInit, register = "setpoints"
                 PROVE  Shows
        BY DEF Shows
    <2>1. word \in [low : Halves, high : Halves] /\ shown = DecodeSetpoints(word)
        BY SMT DEF WordsInit
    <2>2. word \in [low : Bits16, high : Bits16]
        BY <2>1, Constants
    <2>3. word.low \in Bits16 /\ word.high \in Bits16
        BY <2>2
    <2>4. ScaledHalf(word.low) \in Int /\ ScaledHalf(word.high) \in Int
        BY <2>3, ScaledIsInt
    <2>5. shown = [comfort |-> ScaledHalf(word.low), reduced |-> ScaledHalf(word.high)]
        BY <2>1 DEF DecodeSetpoints
    <2> QED
        BY <2>2, <2>4, <2>5 DEF Shows
<1>2. Shows /\ [WordsNext]_words => Shows'
    <2> SUFFICES ASSUME Shows, [WordsNext]_words
                 PROVE  Shows'
        OBVIOUS
    <2>1. ASSUME NEW t \in Temperatures, SetComfort(t)
          PROVE  Shows'
        <3>1. t \in Int /\ shown \in [comfort : Int, reduced : Int]
            BY <2>1, Constants DEF Shows, SetComfort
        <3> DEFINE d == ScaledHalf(word.high)
        <3>2. d \in {shown.reduced, Wrapped(shown.reduced)} /\ shown.reduced \in Int
            BY <2>1, <3>1 DEF Shows, SetComfort
        <3>3. word' = [low |-> EncodeTempHalf(t), high |-> EncodeTempHalf(d)]
            BY <2>1 DEF SetComfort, Write, EncodeSetpoints, DecodeSetpoints
        <3>4. shown' = [comfort |-> t, reduced |-> shown.reduced]
            BY SMT, <2>1, <3>1 DEF SetComfort
        <3>5. EncodeTempHalf(t) \in Bits16 /\ ScaledHalf(EncodeTempHalf(t)) \in {t, Wrapped(t)}
            BY <3>1, RewrittenShows
        <3>6. /\ EncodeTempHalf(d) \in Bits16
              /\ ScaledHalf(EncodeTempHalf(d)) \in {shown.reduced, Wrapped(shown.reduced)}
            BY <3>2, RewrittenShows
        <3> QED
            BY <3>1, <3>2, <3>3, <3>4, <3>5, <3>6 DEF Shows
    <2>2. ASSUME NEW t \in Temperatures, SetReduced(t)
          PROVE  Shows'
        <3>1. t \in Int /\ shown \in [comfort : Int, reduced : Int]
            BY <2>2, Constants DEF Shows, SetReduced
        <3> DEFINE d == ScaledHalf(word.low)
        <3>2. d \in {shown.comfort, Wrapped(shown.comfort)} /\ shown.comfort \in Int
            BY <2>2, <3>1 DEF Shows, SetReduced
        <3>3. word' = [low |-> EncodeTempHalf(d), high |-> EncodeTempHalf(t)]
            BY <2>2 DEF SetReduced, Write, EncodeSetpoints, DecodeSetpoints
        <3>4. shown' = [comfort |-> shown.comfort, reduced |-> t]
            BY SMT, <2>2, <3>1 DEF SetReduced
        <3>5. EncodeTempHalf(t) \in Bits16 /\ ScaledHalf(EncodeTempHalf(t)) \in {t, Wrapped(t)}
            BY <3>1, RewrittenShows
        <3>6. /\ EncodeTempHalf(d) \in Bits16
              /\ ScaledHalf(EncodeTempHalf(d)) \in {shown.comfort, Wrapped(shown.comfort)}
            BY <3>2, RewrittenShows
        <3> QED
            BY <3>1, <3>2, <3>3, <3>4, <3>5, <3>6 DEF Shows
    <2>3. ASSUME NEW index, NEW week, NEW end, SetRegime(index, week, end)
          PROVE  Shows'
        BY SMT, <2>3 DEF SetRegime, Shows
    <2>4. CASE UNCHANGED words
        BY <2>4 DEF words, Shows
    <2> QED
        BY <2>1, <2>2, <2>3, <2>4 DEF WordsNext
<1>3. Shows => SetpointsKept
    BY DEF Shows, SetpointsKept, DecodeSetpoints
<1> QED
    BY <1>1, <1>2, <1>3, PTL DEF WordsSpec

-----------------------------------------------------------------------------

Bytes == {b \in Int : 0 <= b /\ b <= 255}

\* A number of two digits is one byte of BCD, and comes back.
LEMMA BcdRoundTrip ==
    ASSUME NEW v \in 0..59
    PROVE  /\ ToBcd(v) \in Bytes
           /\ IsBcd(ToBcd(v))
           /\ FromBcd(ToBcd(v)) = v
BY SMT DEF ToBcd, IsBcd, FromBcd, Bytes

\* A byte of BCD comes back too.
LEMMA BcdIsExact ==
    ASSUME NEW b \in Bytes, IsBcd(b)
    PROVE  ToBcd(FromBcd(b)) = b
BY SMT DEF ToBcd, IsBcd, FromBcd, Bytes

\* Two bytes are found again in their 16 bits.
LEMMA TwoBytes ==
    ASSUME NEW high \in Bytes, NEW low \in Bytes
    PROVE  /\ 256 * high + low \in Bits16
           /\ (256 * high + low) \div 256 = high
           /\ (256 * high + low) % 256 = low
BY SMT DEF Bits16, Bytes

\* An end time decodes from what it encodes to (params.py:429, 437).
LEMMA EndTimeRoundTrip ==
    ASSUME NEW t \in Times
    PROVE  EncodeEndTime(t) \in Bits16 /\ DecodeEndTime(EncodeEndTime(t)) = t
<1> DEFINE h == ToBcd(t.hour)
           m == ToBcd(t.minute)
<1>1. t.hour \in 0..23 /\ t.minute \in 0..59 /\ t = [hour |-> t.hour, minute |-> t.minute]
    BY DEF Times
<1>2. t.hour \in 0..59
    BY SMT, <1>1
<1>3. h \in Bytes /\ IsBcd(h) /\ FromBcd(h) = t.hour
    BY <1>2, BcdRoundTrip
<1>4. m \in Bytes /\ IsBcd(m) /\ FromBcd(m) = t.minute
    BY <1>1, BcdRoundTrip
<1>5. EncodeEndTime(t) = 256 * h + m
    BY DEF EncodeEndTime
<1>6. /\ EncodeEndTime(t) \in Bits16
      /\ EncodeEndTime(t) \div 256 = h
      /\ EncodeEndTime(t) % 256 = m
    <2> HIDE DEF h, m
    <2> QED
        BY <1>3, <1>4, <1>5, TwoBytes
<1>7. t.hour <= 23 /\ t.minute <= 59
    BY SMT, <1>1
<1> HIDE DEF h, m
<1> QED
    BY <1>1, <1>3, <1>4, <1>6, <1>7 DEF DecodeEndTime

\* The fields of a regime word are found again in it (params.py:387, 403).
LEMMA RegimeFields ==
    ASSUME NEW index \in 0..15, NEW week \in 0..3, NEW d \in Bits16
    PROVE  LET w == EncodeRegime(index, week, d) IN
           /\ w.fields % 16 = index
           /\ (w.fields \div 16) % 4 = week
           /\ (w.fields \div 64) % U16 = d
<1> DEFINE w == 64 * d + 16 * week + index
<1>1. w % 16 = index /\ w \div 16 = 4 * d + week
    BY SMT DEF Bits16
<1>2. (4 * d + week) % 4 = week
    BY SMT DEF Bits16
<1>3. w \div 64 = d
    BY SMT DEF Bits16
<1>4. d % 65536 = d
    BY SMT DEF Bits16
<1> QED
    BY <1>1, <1>2, <1>3, <1>4 DEF EncodeRegime, U16

\* The ends that can be asked for, by mode.
LEMMA PermittedEnds ==
    ASSUME NEW index \in 0..7, NEW end \in Permitted(index)
    PROVE  /\ DateTime(index, end) \in Bits16
           /\ EndOf(index, DateTime(index, end)) = end
<1>1. CASE index = HOLIDAY
    <2> index \notin {ABSENCE, VISIT}
        BY SMT, <1>1 DEF HOLIDAY, ABSENCE, VISIT
    <2>1. end \in Days \cap AllHalves
        BY <1>1 DEF Permitted
    <2>2. end \in Bits16
        BY <2>1, Constants
    <2>3. DateTime(index, end) = end
        BY <1>1 DEF DateTime
    <2>4. EndOf(index, end) = end
        BY <1>1 DEF EndOf
    <2> QED
        BY <2>2, <2>3, <2>4
<1>2. CASE index \in {ABSENCE, VISIT}
    <2>1. index # HOLIDAY
        BY SMT, <1>2 DEF HOLIDAY, ABSENCE, VISIT
    <2>2. end \in [hour : Hours, minute : Minutes]
        BY <1>2, <2>1 DEF Permitted
    <2>3. end \in Times
        BY <2>2, Constants
    <2> QED
        BY <1>2, <2>1, <2>3, EndTimeRoundTrip DEF DateTime, EndOf
<1>3. CASE index # HOLIDAY /\ index \notin {ABSENCE, VISIT}
    <2>1. end = None
        BY <1>3 DEF Permitted
    <2>2. 0 \in Bits16
        BY SMT DEF Bits16
    <2> QED
        BY <1>3, <2>1, <2>2 DEF DateTime, EndOf
<1> QED
    BY <1>1, <1>2, <1>3

\* A regime that is chosen from the menu is shown as it was chosen, mode, week
\* program and end, and a regime of the gateway until then as it decodes
\* (params.py:403, 387), for all days and times.
THEOREM RegimesAreKept == WordsSpec => []RegimeKept
<1>1. WordsInit => RegimeKept
    BY DEF WordsInit, RegimeKept
<1>2. RegimeKept /\ [WordsNext]_words => RegimeKept'
    <2> SUFFICES ASSUME RegimeKept, [WordsNext]_words
                 PROVE  RegimeKept'
        OBVIOUS
    <2>1. ASSUME NEW t \in Temperatures, SetComfort(t) \/ SetReduced(t)
          PROVE  RegimeKept'
        BY SMT, <2>1 DEF SetComfort, SetReduced, Write, RegimeKept
    <2>2. ASSUME NEW index \in 0..7, NEW week \in 0..2, NEW end \in Permitted(index),
                 SetRegime(index, week, end)
          PROVE  RegimeKept'
        <3> DEFINE d == DateTime(index, end)
        <3>1. d \in Bits16 /\ EndOf(index, d) = end
            BY PermittedEnds
        <3>2. index \in 0..15 /\ week \in 0..3
            BY SMT
        <3>3. word' = EncodeRegime(index, week, d)
              /\ shown' = [index |-> index, week |-> week, end |-> end]
            BY <2>2 DEF SetRegime
        <3> HIDE DEF d
        <3>4. /\ word'.fields % 16 = index
              /\ (word'.fields \div 16) % 4 = week
              /\ (word'.fields \div 64) % U16 = d
            BY <3>1, <3>2, <3>3, RegimeFields
        <3> QED
            BY <3>1, <3>3, <3>4 DEF RegimeKept, DecodeRegime
    <2>3. CASE UNCHANGED words
        BY <2>3 DEF words, RegimeKept
    <2> QED
        BY <2>1, <2>2, <2>3 DEF WordsNext
<1> QED
    BY <1>1, <1>2, PTL DEF WordsSpec

\* A field that decodes to a time is what that time encodes to.
LEMMA EndTimeIsExact ==
    ASSUME NEW d \in Bits16, DecodeEndTime(d) # None
    PROVE  EncodeEndTime(DecodeEndTime(d)) = d
<1> DEFINE high == d \div 256
           low == d % 256
<1>1. high \in Bytes /\ low \in Bytes /\ d = 256 * high + low
    BY SMT DEF Bits16, Bytes
<1>2. IsBcd(high) /\ IsBcd(low)
    BY DEF DecodeEndTime
<1>3. DecodeEndTime(d) = [hour |-> FromBcd(high), minute |-> FromBcd(low)]
    BY DEF DecodeEndTime
<1> HIDE DEF high, low
<1>4. ToBcd(FromBcd(high)) = high /\ ToBcd(FromBcd(low)) = low
    BY <1>1, <1>2, BcdIsExact
<1> QED
    BY <1>1, <1>3, <1>4 DEF EncodeEndTime

\* The word of a regime is its fields, but for the bits above them.
LEMMA RegimeIsItsFields ==
    ASSUME NEW w \in RegimeFieldsOf
    PROVE  /\ (w \div 64) % U16 \in Bits16
           /\ EncodeRegime(w % 16, (w \div 16) % 4, (w \div 64) % U16)
                = [fields |-> w, spare |-> 0]
<1>1. w \div 64 \in Bits16
    BY SMT DEF Bits16, RegimeFieldsOf
<1>2. (w \div 64) % 65536 = w \div 64
    BY SMT, <1>1 DEF Bits16
<1>3. 64 * (w \div 64) + 16 * ((w \div 16) % 4) + (w % 16) = w
    BY SMT DEF RegimeFieldsOf
<1> QED
    BY <1>1, <1>2, <1>3 DEF EncodeRegime, U16

\* An end time that is shown is the only one that its field stands for, in any
\* 32-bit word (params.py:387, 437): no field that is no BCD time passes for one,
\* and written back it changes no field.
THEOREM EndTimesAreExact == WordsSpec => []EndTimeExact
<1>1. WordsInit => EndTimeExact
    <2> SUFFICES ASSUME WordsInit, register = "regime",
                        shown.index \in {ABSENCE, VISIT}, shown.end # None
                 PROVE  EncodeRegime(shown.index, shown.week, EncodeEndTime(shown.end))
                            = [word EXCEPT !.spare = 0]
        BY DEF EndTimeExact
    <2> DEFINE f == word.fields
               d == (f \div 64) % U16
    <2>1. /\ f \in RegimeFieldsOf
          /\ [word EXCEPT !.spare = 0] = [fields |-> f, spare |-> 0]
        BY Constants DEF WordsInit
    <2>2. shown = DecodeRegime(word)
        BY SMT DEF WordsInit
    <2>3. shown.index = f % 16 /\ shown.week = (f \div 16) % 4
          /\ shown.end = EndOf(shown.index, d)
        BY <2>2 DEF DecodeRegime
    <2>4. shown.index # HOLIDAY
        BY SMT DEF HOLIDAY, ABSENCE, VISIT
    <2>5. shown.end = DecodeEndTime(d)
        BY <2>3, <2>4 DEF EndOf
    <2>6. /\ d \in Bits16
          /\ EncodeRegime(f % 16, (f \div 16) % 4, d) = [fields |-> f, spare |-> 0]
        BY <2>1, RegimeIsItsFields
    <2> HIDE DEF d, f
    <2>7. EncodeEndTime(shown.end) = d
        BY <2>5, <2>6, EndTimeIsExact
    <2> QED
        BY <2>1, <2>3, <2>6, <2>7
<1>2. EndTimeExact /\ [WordsNext]_words => EndTimeExact'
    <2> SUFFICES ASSUME EndTimeExact, [WordsNext]_words
                 PROVE  EndTimeExact'
        OBVIOUS
    <2>1. ASSUME NEW t \in Temperatures, SetComfort(t) \/ SetReduced(t)
          PROVE  EndTimeExact'
        BY SMT, <2>1 DEF SetComfort, SetReduced, Write, EndTimeExact
    <2>2. ASSUME NEW index \in 0..7, NEW week \in 0..2, NEW end \in Permitted(index),
                 SetRegime(index, week, end)
          PROVE  EndTimeExact'
        <3>1. word' = EncodeRegime(index, week, DateTime(index, end))
              /\ shown' = [index |-> index, week |-> week, end |-> end]
            BY <2>2 DEF SetRegime
        <3>2. index \in {ABSENCE, VISIT} => DateTime(index, end) = EncodeEndTime(end)
            BY SMT DEF DateTime, HOLIDAY, ABSENCE, VISIT
        <3>3. [word' EXCEPT !.spare = 0] = word'
            BY <3>1 DEF EncodeRegime
        <3> QED
            BY <3>1, <3>2, <3>3 DEF EndTimeExact
    <2>3. CASE UNCHANGED words
        BY <2>3 DEF words, EndTimeExact
    <2> QED
        BY <2>1, <2>2, <2>3 DEF WordsNext
<1> QED
    BY <1>1, <1>2, PTL DEF WordsSpec

=============================================================================
