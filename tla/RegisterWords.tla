--------------------------- MODULE RegisterWords ----------------------------
(***************************************************************************)
(* Register words that are written (protocol/params.py): the setpoint pair *)
(* and the regime of a circuit, packed and unpacked over and over.         *)
(*                                                                         *)
(* Temperatures are in tenths of a degree, the resolution that decoding    *)
(* rounds to; a word is a pair of 16-bit halves.  The word of a regime is  *)
(* the 22 bits of its fields and the ten above, which decoding masks away. *)
(* A date is the number of its day, counted from REGIME_DATE_EPOCH.        *)
(***************************************************************************)
EXTENDS Integers

CONSTANTS
    Temperatures,   \* what a setpoint is changed to
    Halves,         \* halves of the setpoint words that the gateway holds first
    Regimes,        \* regime words that it holds first
    Days,           \* end dates that are asked for
    Hours, Minutes, \* those of the end times that are asked for
    None

U16 == 65536
AllHalves == 0..U16 - 1
AllFields == 0..64 * U16 - 1
AllRegimes == [fields : AllFields, spare : 0..1023]

ASSUME RegisterWordsAssumption ==
    /\ Temperatures \subseteq Int
    /\ Halves \subseteq AllHalves
    /\ Regimes \subseteq AllRegimes
    /\ Days \subseteq Int
    /\ Hours \subseteq 0..23
    /\ Minutes \subseteq 0..59

VARIABLES
    register,   \* which of the two registers this is about
    word,       \* its word at the gateway
    shown       \* what decoding showed, changed to what was written since (ghost)

words == <<register, word, shown>>

-----------------------------------------------------------------------------
(* Setpoints: decode_packed_setpoints(), encode_packed_setpoints() *)

\* Mutant: the temperature is cut to tenths instead of rounded.
CutHalf(raw) == (20 * raw) \div 128 - 640

\* _scaled_half(): floor(raw * 10 / 64 + 1/2) / 10 - 64 degrees.
ScaledHalf(raw) == (20 * raw + 64) \div 128 - 640

\* _encode_temp_half(): floor((celsius + 64) * 64 + 1/2), the low 16 bits.
EncodeTempHalf(tenths) == ((128 * (tenths + 640) + 10) \div 20) % U16

DecodeSetpoints(w) == [comfort |-> ScaledHalf(w.low), reduced |-> ScaledHalf(w.high)]

EncodeSetpoints(comfort, reduced) ==
    [low |-> EncodeTempHalf(comfort), high |-> EncodeTempHalf(reduced)]

\* What is left of a temperature in a half: those from -64.0 to 959.9 degrees
\* stay as they are, the others wrap without an error.
Wrapped(tenths) == ((tenths + 640) % 10240) - 640

-----------------------------------------------------------------------------
(* Regimes: decode_circuit_regime(), encode_circuit_regime() *)

HOLIDAY == 0
ABSENCE == 1
VISIT == 2

AllTimes == [hour : 0..23, minute : 0..59]

\* _to_bcd(): (value // 10 << 4) | value % 10.
ToBcd(value) == 16 * (value \div 10) + (value % 10)

IsBcd(byte) == byte \div 16 <= 9 /\ byte % 16 <= 9

FromBcd(byte) == 10 * (byte \div 16) + (byte % 16)

EncodeEndTime(t) == 256 * ToBcd(t.hour) + ToBcd(t.minute)

\* Mutant: digits are not looked at.
DecodeAnyEndTime(d) ==
    IF FromBcd(d \div 256) <= 23 /\ FromBcd(d % 256) <= 59
    THEN [hour |-> FromBcd(d \div 256), minute |-> FromBcd(d % 256)]
    ELSE None

DecodeEndTime(d) ==
    IF /\ IsBcd(d \div 256) /\ FromBcd(d \div 256) <= 23
       /\ IsBcd(d % 256) /\ FromBcd(d % 256) <= 59
    THEN [hour |-> FromBcd(d \div 256), minute |-> FromBcd(d % 256)]
    ELSE None

\* CircuitRegime.end_time, end_date: what the date_time field means in a mode.
EndOf(index, d) ==
    CASE index = HOLIDAY -> d
      [] index \in {ABSENCE, VISIT} -> DecodeEndTime(d)
      [] OTHER -> None

\* Mutant: the epoch is day 1.
DateTimeFromOne(index, end) ==
    CASE index = HOLIDAY -> end + 1
      [] index \in {ABSENCE, VISIT} -> EncodeEndTime(end)
      [] OTHER -> 0

\* encode_regime_end_time(), encode_regime_end_date(), or no end.
DateTime(index, end) ==
    CASE index = HOLIDAY -> end
      [] index \in {ABSENCE, VISIT} -> EncodeEndTime(end)
      [] OTHER -> 0

EncodeRegime(index, week, d) == [fields |-> 64 * d + 16 * week + index, spare |-> 0]

DecodeRegime(w) ==
    LET index == w.fields % 16 IN
    [index |-> index, week |-> (w.fields \div 16) % 4,
     end |-> EndOf(index, (w.fields \div 64) % U16)]

-----------------------------------------------------------------------------
(* A user of the words *)

WordsTypeOK ==
    /\ register \in {"setpoints", "regime"}
    /\ register = "setpoints" =>
        /\ word \in [low : AllHalves, high : AllHalves]
        /\ shown \in [comfort : Int, reduced : Int]
    /\ register = "regime" =>
        /\ word \in AllRegimes
        /\ shown.index \in 0..15 /\ shown.week \in 0..3
        /\ \/ shown.end = None
           \/ shown.index = HOLIDAY /\ shown.end \in AllHalves
           \/ shown.index \in {ABSENCE, VISIT} /\ shown.end \in AllTimes

WordsInit ==
    \/ /\ register = "setpoints"
       /\ word \in [low : Halves, high : Halves]
       /\ shown = DecodeSetpoints(word)
    \/ /\ register = "regime"
       /\ word \in Regimes
       /\ shown = DecodeRegime(word)

\* The word is read, one setpoint is changed, and both are written back.
Write(comfort, reduced) ==
    /\ word' = EncodeSetpoints(comfort, reduced)
    /\ UNCHANGED register

SetComfort(t) ==
    /\ register = "setpoints"
    /\ Write(t, DecodeSetpoints(word).reduced)
    /\ shown' = [shown EXCEPT !.comfort = t]

SetReduced(t) ==
    /\ register = "setpoints"
    /\ Write(DecodeSetpoints(word).comfort, t)
    /\ shown' = [shown EXCEPT !.reduced = t]

Permitted(index) ==
    CASE index = HOLIDAY -> Days \cap AllHalves  \* others raise ProtocolError
      [] index \in {ABSENCE, VISIT} -> [hour : Hours, minute : Minutes]
      [] OTHER -> {None}

\* A regime of the menu is chosen, with a week program and an end.
SetRegime(index, week, end) ==
    /\ register = "regime"
    /\ word' = EncodeRegime(index, week, DateTime(index, end))
    /\ shown' = [index |-> index, week |-> week, end |-> end]
    /\ UNCHANGED register

WordsNext ==
    \/ \E t \in Temperatures : SetComfort(t) \/ SetReduced(t)
    \/ \E index \in 0..7, week \in 0..2 :
        \E end \in Permitted(index) : SetRegime(index, week, end)

WordsSpec == WordsInit /\ [][WordsNext]_words

-----------------------------------------------------------------------------
(* What the words promise *)

\* A setpoint is shown as it was last written or, if it was not changed, as it
\* was shown before, or as what a half can hold of that: however often one of
\* the pair is changed, the other does not drift, though the word's steps are
\* not tenths of a degree, and a temperature out of range wraps once and for all.
SetpointsKept ==
    register = "setpoints" =>
        \A half \in {"comfort", "reduced"} :
            DecodeSetpoints(word)[half] \in {shown[half], Wrapped(shown[half])}

\* A regime word shows the mode, week program and end that were written.
RegimeKept ==
    register = "regime" => DecodeRegime(word) = shown

\* An end time that decodes is the only one its field stands for, in all 32-bit
\* words of the gateway: written back, it leaves the fields of the word as they
\* are.  (The ten bits above them, which nothing shows, are written as zeros.)
EndTimeExact ==
    register = "regime" /\ shown.index \in {ABSENCE, VISIT} /\ shown.end # None
        => EncodeRegime(shown.index, shown.week, EncodeEndTime(shown.end))
            = [word EXCEPT !.spare = 0]

=============================================================================
