----------------------------- MODULE MCAnswers ------------------------------
(* Frame at the limits of its fields: 255 commands, 65535 bytes; WireRecords on
   payloads of a few records; and RegisterWords at the ends of the scale and
   beyond, and what lies between in steps that have no divisor in common with the
   steps of the words.  A frame does not look into the payloads of its commands,
   nor a record into its word, so each of the three runs while the others have not
   begun. *)
EXTENDS Frame, WireRecords, RegisterWords

Uniform(n, p) == [i \in 1..n |-> p]

\* 255 commands of 257 bytes are more than the length field can say; the last
\* payloads are the largest that a command, and a frame of one, can have.
LimitLists ==
    {Uniform(n, p) : n \in {0, 1, 2, 3, 254, 255, 256}, p \in {0, 1, 250, 251}}
        \cup {Uniform(n, p) : n \in 1..3, p \in {21831, 32754, 65489, 65490, 65521, 65522,
                                                65529, 65530}}
        \cup {<<0, 5, 0>>, <<3, 0, 65480>>}

SmallAreas == 0..20
SmallCounts == 0..3
SmallLengths == {0, 5, 6, 7, 9, 15, 65535}

\* The halves from 65533 on show 960.0 degrees, which wraps when it is written.
SomeHalves == {0, 1, 3, 4, 65531, 65532, 65533, 65535} \cup {7919 * i + 13 : i \in 0..7}

SomeTemperatures ==
    {-20000, -641, -640, -639, -1, 0, 205, 9598, 9599, 9600, 9601, 20000}
        \cup {101 * i - 600 : i \in 0..40}

\* Every date_time field in an absence and every mode, with and without bits above.
SomeRegimes ==
    {[fields |-> 64 * d + ABSENCE, spare |-> d % 1024] : d \in 0..65535}
        \cup [fields : 0..63, spare : {0, 1, 1023}]

SomeDays == {-1, 0, 1, 59, 365, 3650, 65534, 65535, 65536}

MCInit == Init /\ RecordsInit /\ WordsInit

FramesAtRest == pc = "idle"
RecordsAtRest == format = "read" /\ stage = "gateway" /\ records = << >>
WordsAtRest == register = "setpoints" /\ word = [low |-> 0, high |-> 0]

MCNext ==
    \/ RecordsAtRest /\ WordsAtRest /\ Next /\ UNCHANGED <<answer, words>>
    \/ FramesAtRest /\ WordsAtRest /\ RecordsNext /\ UNCHANGED <<vars, words>>
    \/ FramesAtRest /\ RecordsAtRest /\ WordsNext /\ UNCHANGED <<vars, answer>>

MCSpec == MCInit /\ [][MCNext]_<<vars, answer, words>>

\* Both decoders are plain loops: they run on.
MCFairSpec ==
    /\ MCSpec
    /\ WF_vars(Decode /\ UNCHANGED <<answer, words>>)
    /\ WF_answer(RecordsDecode /\ UNCHANGED <<vars, words>>)

=============================================================================
