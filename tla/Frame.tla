-------------------------------- MODULE Frame -------------------------------
(***************************************************************************)
(* The frame codec (protocol/frame.py): commands with a length field each, *)
(* in a frame with a version, a length field, a session id if the client   *)
(* sends it, a command count and a CRC.                                    *)
(*                                                                         *)
(* Bytes are abstracted to sizes: a command is the size of its payload, a  *)
(* decoded command the place of its payload in the command area, and the   *)
(* CRC is right or wrong.  A length field of a frame that another program  *)
(* made is chosen when it is read; each is read once.                      *)
(***************************************************************************)
EXTENDS Naturals, Sequences

CONSTANTS
    Lists,      \* the command lists that are encoded: sequences of payload sizes
    Areas,      \* sizes of the command area in frames that others made
    Counts,     \* command counts in such frames
    Lengths     \* command length fields in such frames

PROTOCOL_VERSION == 1
COMMAND_HEADER == 6
CRC_SIZE == 4
MAX_COMMANDS == 255
MAX_FIELD == 65535      \* of a 16-bit length field

ASSUME FrameAssumption ==
    /\ Lists \subseteq Seq(Nat)
    /\ Areas \subseteq Nat
    /\ Counts \subseteq 0..255
    /\ Lengths \subseteq 0..MAX_FIELD

VARIABLES
    pc,         \* how far the frame is
    sent,       \* the list that was encoded; empty for a frame of others
    frame,      \* the frame
    offset,     \* where _parse_commands() is in the command area
    got         \* the commands it has found: where their payloads begin and end

vars == <<pc, sent, frame, offset, got>>

\* Version, length field, session id of a client frame, command count.
Header(session) == IF session THEN 1 + 2 + 32 + 1 ELSE 1 + 2 + 1

Frames == [version : Nat, declared : 0..MAX_FIELD, session : BOOLEAN, count : 0..255,
           area : Nat, crc_ok : BOOLEAN]

NoFrame == [version |-> 0, declared |-> 0, session |-> FALSE, count |-> 0, area |-> 0,
            crc_ok |-> FALSE]

TypeOK ==
    /\ pc \in {"idle", "encoding", "refused", "made", "parsing", "rejected", "accepted"}
    /\ sent \in Seq(Nat)
    /\ frame \in Frames
    /\ offset \in Nat
    /\ got \in Seq([from : Nat, to : Nat])

Init ==
    /\ pc = "idle"
    /\ sent = << >>
    /\ frame = NoFrame
    /\ offset = 0
    /\ got = << >>

-----------------------------------------------------------------------------
(* encode_client_frame(), encode_server_frame() *)

\* The size of an encoded command, which is what its length field says.
CommandSize(payload) == COMMAND_HEADER + payload

Total(session, area) == Header(session) + area + CRC_SIZE

\* _encode_frame() begins; ProtocolError for the number of commands.
Encode(list, s) ==
    /\ pc = "idle"
    /\ pc' = IF Len(list) \in 1..MAX_COMMANDS THEN "encoding" ELSE "refused"
    /\ sent' = list
    /\ frame' = [NoFrame EXCEPT !.session = s]
    /\ UNCHANGED <<offset, got>>

\* One turn of its loop; struct.error for a size that its field cannot hold.
EncodeCommand ==
    /\ pc = "encoding"
    /\ frame.count < Len(sent)
    /\ LET size == CommandSize(sent[frame.count + 1]) IN
        IF size > MAX_FIELD
        THEN pc' = "refused" /\ UNCHANGED frame
        ELSE /\ frame' = [frame EXCEPT !.count = @ + 1, !.area = @ + size]
             /\ UNCHANGED pc
    /\ UNCHANGED <<sent, offset, got>>

\* Mutant: the CRC is not counted.
SealWithoutCrc ==
    /\ pc = "encoding"
    /\ frame.count = Len(sent)
    /\ pc' = "made"
    /\ frame' = [frame EXCEPT !.version = PROTOCOL_VERSION, !.crc_ok = TRUE,
                    !.declared = (Header(frame.session) + frame.area) % (MAX_FIELD + 1)]
    /\ UNCHANGED <<sent, offset, got>>

\* The two bytes of the length field take the low 16 bits of the size.
Seal ==
    /\ pc = "encoding"
    /\ frame.count = Len(sent)
    /\ pc' = "made"
    /\ frame' = [frame EXCEPT !.version = PROTOCOL_VERSION, !.crc_ok = TRUE,
                    !.declared = Total(frame.session, frame.area) % (MAX_FIELD + 1)]
    /\ UNCHANGED <<sent, offset, got>>

\* A frame that another program made, whole or not (external).
Arrive ==
    /\ pc = "idle"
    /\ pc' = "made"
    /\ \E v \in 1..2, s \in BOOLEAN, c \in Counts, a \in Areas, ok \in BOOLEAN, extra \in 0..1 :
            frame' = [version |-> v, session |-> s, count |-> c, area |-> a, crc_ok |-> ok,
                      declared |-> Total(s, a) + extra]
    /\ UNCHANGED <<sent, offset, got>>

-----------------------------------------------------------------------------
(* decode_client_frame(), decode_server_frame() *)

\* The checks before the commands, in whatever order: all must hold.
Acceptable ==
    /\ frame.area >= COMMAND_HEADER
    /\ frame.crc_ok
    /\ frame.version = PROTOCOL_VERSION
    /\ frame.declared = Total(frame.session, frame.area)

CheckHeader ==
    /\ pc = "made"
    /\ pc' = IF Acceptable THEN "parsing" ELSE "rejected"
    /\ UNCHANGED <<sent, frame, offset, got>>

\* What the length field at the next command says.
NextLengths ==
    IF Len(got) < Len(sent) THEN {CommandSize(sent[Len(got) + 1])} ELSE Lengths

\* Mutant: a length field may count the payload alone.
FitsLoosely(length) == offset + length <= frame.area

Fits(length) == length >= COMMAND_HEADER /\ offset + length <= frame.area

\* One turn of the loop of _parse_commands() that finds a command.
ParseCommand ==
    /\ pc = "parsing"
    /\ offset + COMMAND_HEADER <= frame.area
    /\ \E length \in NextLengths :
        /\ Fits(length)
        /\ got' = Append(got, [from |-> offset + COMMAND_HEADER, to |-> offset + length])
        /\ offset' = offset + length
    /\ UNCHANGED <<pc, sent, frame>>

\* Mutant: what is left after the last whole command is not looked at.
ParseFailsOnLength ==
    /\ pc = "parsing"
    /\ offset + COMMAND_HEADER <= frame.area
    /\ \E length \in NextLengths : ~Fits(length)
    /\ pc' = "rejected"
    /\ UNCHANGED <<sent, frame, offset, got>>

\* A truncated header, or a length that does not fit.
ParseFails ==
    /\ pc = "parsing"
    /\ offset < frame.area
    /\ \/ offset + COMMAND_HEADER > frame.area
       \/ \E length \in NextLengths : ~Fits(length)
    /\ pc' = "rejected"
    /\ UNCHANGED <<sent, frame, offset, got>>

\* Mutant: the count in the frame is not compared.
DoneUncounted ==
    /\ pc = "parsing"
    /\ offset >= frame.area
    /\ pc' = "accepted"
    /\ UNCHANGED <<sent, frame, offset, got>>

\* The loop ends; the frame must hold as many commands as it announces.
Done ==
    /\ pc = "parsing"
    /\ offset >= frame.area
    /\ pc' = IF Len(got) = frame.count THEN "accepted" ELSE "rejected"
    /\ UNCHANGED <<sent, frame, offset, got>>

Decode == CheckHeader \/ ParseCommand \/ ParseFails \/ Done

Next ==
    \/ \E list \in Lists, s \in BOOLEAN : Encode(list, s)
    \/ EncodeCommand
    \/ Seal
    \/ Arrive
    \/ Decode

Spec == Init /\ [][Next]_vars

\* Decoding is a plain loop: it runs on.
FairSpec == Spec /\ WF_vars(Decode)

-----------------------------------------------------------------------------
(* What the codec promises *)

PayloadSize(command) == command.to - command.from

\* The commands found so far lie one behind the other from the start of the
\* area to the offset, without gap, overlap or a byte beyond the frame.
Tiled ==
    /\ \A i \in 1..Len(got) :
        /\ got[i].from <= got[i].to
        /\ got[i].from = COMMAND_HEADER + (IF i = 1 THEN 0 ELSE got[i - 1].to)
    /\ offset = IF got = << >> THEN 0 ELSE got[Len(got)].to
    /\ offset <= frame.area

\* A frame of anybody's that is accepted has no byte left over, and the
\* commands that it announces.
AcceptedIsWhole ==
    pc = "accepted" => offset = frame.area /\ Len(got) = frame.count

\* A frame that the library encoded, and that its length field can describe,
\* is decoded to the commands that went in.
RoundTrip ==
    sent # << >> /\ pc # "refused" /\ Total(frame.session, frame.area) <= MAX_FIELD
        => /\ pc # "rejected"
           /\ pc = "accepted" =>
                /\ Len(got) = Len(sent)
                /\ \A i \in 1..Len(sent) : PayloadSize(got[i]) = sent[i]

\* Every frame is accepted or rejected in the end.
DecodingEnds == pc = "made" ~> pc \in {"accepted", "rejected"}

=============================================================================
