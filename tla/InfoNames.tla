----------------------------- MODULE InfoNames ------------------------------
(***************************************************************************)
(* How a row of the Info page is taken apart and named                     *)
(* (protocol/info_value.py): the value is split into one part or two, each *)
(* part gets a kind, a unit and a name.                                    *)
(*                                                                         *)
(* A text is the sequence of its words as they are spelt, the spaces       *)
(* between them left out; "/", "-", "(" and ")" are words of their own.    *)
(* Where the code ignores letter case, a constant holds every spelling.    *)
(***************************************************************************)
EXTENDS Integers, Sequences, SequencesExt

CONSTANTS
    Numbers,        \* words that are numbers
    Units,          \* words that are units
    OnOff,          \* _BINARY_ON and _BINARY_OFF
    Moves,          \* _VALVE
    Dashes,         \* words of nothing but dashes
    ModeLabels,     \* _MODE_LABELS
    ModeCaptions,   \* MODE_CAPTIONS, as the panel spells them
    Abbreviations,  \* words that end in a full stop
    Stems           \* a text of less than ten characters, and one it is part of

\* A mode is not called "Info"; a numeral has no full stop and is no part of one.
ASSUME InfoNamesAssumption ==
    /\ ModeCaptions \subseteq ModeLabels
    /\ "Info" \notin ModeLabels
    /\ {"1", "2"} \cap Abbreviations = {}
    /\ \A mode \in ModeLabels : {<< <<"1">>, <<mode>> >>, << <<"2">>, <<mode>> >>} \cap Stems = {}

-----------------------------------------------------------------------------
(* split_display(), parse_part(), parse_info_display() *)

\* Where the first separator between words is; 0 if there is none.
Place(text, separator) ==
    LET places == {i \in 2..Len(text) - 1 : text[i] = separator} IN
    IF places = {} THEN 0 ELSE Min(places)

Has(text, separator) == Place(text, separator) # 0
Before(text, separator) == SubSeq(text, 1, Place(text, separator) - 1)
After(text, separator) == SubSeq(text, Place(text, separator) + 1, Len(text))

\* The first parenthesis that holds the rest of a value.
Opening(value) ==
    LET places == {i \in 2..Len(value) - 2 :
                    value[i] = "(" /\ \A j \in i + 1..Len(value) - 1 : value[j] # ")"}
    IN IF places = {} \/ Last(value) # ")" THEN 0 ELSE Min(places)

\* "S/N" stands for whatever a serial number begins with.
SplitDisplay(value) ==
    IF value # << >> /\ Head(value) = "S/N" THEN <<value>>
    ELSE IF Has(value, "/") THEN <<Before(value, "/"), After(value, "/")>>
    ELSE LET i == Opening(value)
         IN IF i = 0 THEN <<value>>
            ELSE <<SubSeq(value, 1, i - 1), SubSeq(value, i + 1, Len(value) - 1)>>

NoUnit == ""

Part(kind, raw, unit) == [kind |-> kind, raw |-> raw, unit |-> unit, name |-> << >>]

UnitOf(raw, default) == IF Len(raw) = 2 THEN raw[2] ELSE default

\* Dashes, alone or before one word.
Gap(raw) == Head(raw) \in Dashes /\ Len(raw) <= 2

Number(raw) == Head(raw) \in Numbers /\ (Len(raw) = 1 \/ (Len(raw) = 2 /\ raw[2] \in Units))

ParsePart(raw, default) ==
    CASE raw = << >> -> Part("missing", raw, NoUnit)
      [] Gap(raw) -> Part("missing", raw, UnitOf(raw, default))
      [] Len(raw) = 1 /\ raw[1] \in OnOff -> Part("binary", raw, NoUnit)
      [] Len(raw) = 1 /\ raw[1] \in Moves -> Part("valve", raw, NoUnit)
      [] Number(raw) -> Part("number", raw, UnitOf(raw, default))
      [] OTHER -> Part("text", raw, NoUnit)

\* The left half inherits the unit of the right one.
ParseDisplay(value) ==
    LET halves == SplitDisplay(value) IN
    IF Len(halves) = 1 THEN <<ParsePart(halves[1], NoUnit)>>
    ELSE LET right == ParsePart(halves[2], NoUnit)
         IN <<ParsePart(halves[1], right.unit), right>>

-----------------------------------------------------------------------------
(* part_names(), _refine_mixed_dual_names() *)

FirstOf(texts) ==
    LET there == {i \in DOMAIN texts : texts[i] # << >>} IN
    IF there = {} THEN <<"Info">> ELSE texts[Min(there)]

SingleName(row) ==
    IF row.caption = << >> /\ row.text_a # << >> /\ row.text_b # << >>
    THEN row.text_a \o <<"/">> \o row.text_b
    ELSE FirstOf(<<row.caption, row.text_a, row.text_b>>)

\* "Head - roleA / roleB".
Dashed(caption) == Has(caption, "-") /\ Has(After(caption, "-"), "/")

DashedNames(caption) ==
    LET head == Append(Before(caption, "-"), "-")
        tail == After(caption, "-")
    IN <<head \o Before(tail, "/"), head \o After(tail, "/")>>

\* Exactly one " / ".
Halved(caption) == Has(caption, "/") /\ ~Has(After(caption, "/"), "/")

Abbreviated(left, right) ==
    Last(right) \in Abbreviations \/ <<right, left>> \in Stems

QualifyShortHalf(left, right) ==
    IF Abbreviated(left, right) THEN left \o <<"(">> \o right \o <<")">> ELSE right

Numbered(base) == <<base \o <<"(", "1", ")">>, base \o <<"(", "2", ")">>>>

PairNames(row) ==
    LET left == Before(row.caption, "/")
        right == After(row.caption, "/")
    IN IF Dashed(row.caption) THEN DashedNames(row.caption)
       ELSE IF Halved(row.caption) THEN <<left, QualifyShortHalf(left, right)>>
       ELSE IF row.text_a # << >> /\ row.text_b # << >> THEN <<row.text_a, row.text_b>>
       ELSE Numbered(FirstOf(<<row.caption, row.text_a, row.text_b>>))

Numeric == {"number", "missing"}
Switch == {"binary", "valve"}

\* Mutant: a status text is its own name.
RefineByState(row, names, parts) ==
    LET base == FirstOf(<<row.caption>>) IN
    IF names # Numbered(base) \/ {parts[1].kind, parts[2].kind} \subseteq Numeric THEN names
    ELSE <<base, parts[2].raw>>

\* Numbered halves of different kinds: one of them keeps the caption.
RefineMixedDualNames(row, names, parts) ==
    LET base == FirstOf(<<row.caption>>)
        left == parts[1].kind
        right == parts[2].kind
        keeps == IF left \in Switch THEN 1
                 ELSE IF right \in Switch THEN 2
                 ELSE IF left \in Numeric THEN 1 ELSE 2
    IN IF names # Numbered(base) \/ {left, right} \subseteq Numeric THEN names
       ELSE [names EXCEPT ![keeps] = base]

-----------------------------------------------------------------------------
(* parse_info_row() *)

IsMode(text) == Len(text) = 1 /\ text[1] \in ModeLabels

\* The texts that may say that a row is about a mode, TextA before the caption.
Labels(row) == <<row.text_a, row.text_b, row.caption>>
ModeLabelled(row) == {i \in 1..3 : IsMode(Labels(row)[i])}
RegimeRowLabel(row) == Labels(row)[Min(ModeLabelled(row))]

\* The row of a mode has text, in one part or two.
ModeRow(row, parts) ==
    /\ ModeLabelled(row) # {}
    /\ \A i \in 1..Len(parts) : parts[i].kind = "text" /\ parts[i].raw # << >>

Named(part, name) == [part EXCEPT !.name = name]

\* The mode in effect has no name of its own, the one selected has the label's.
ModeParts(row, parts) ==
    <<Named(Last(parts), << >>), Named(parts[1], RegimeRowLabel(row))>>

ParseRow(row) ==
    LET parts == ParseDisplay(row.value) IN
    IF ModeRow(row, parts) THEN ModeParts(row, parts)
    ELSE IF Len(parts) = 1 THEN <<Named(parts[1], SingleName(row))>>
    ELSE LET names == RefineMixedDualNames(row, PairNames(row), parts)
         IN [i \in 1..2 |-> Named(parts[i], names[i])]

-----------------------------------------------------------------------------
(* naming_smells() (protocol/info_naming_corpus.py) *)

Label(device, part) == IF part.name = << >> THEN device ELSE part.name

\* Both parts would be shown under the name of the device.
Nameless(parts) == Len(parts) = 2 /\ \A i \in 1..2 : parts[i].name = << >>

IndexedMode(part) == \E mode \in ModeCaptions : \E k \in {1, 2} : part.name = Numbered(<<mode>>)[k]

NameIsState(part) ==
    /\ part.name # << >> /\ part.name = part.raw
    /\ \A mode \in ModeCaptions : part.name # <<mode>>

DuplicateLabels(device, parts) ==
    /\ Len(parts) = 2
    /\ Label(device, parts[1]) = Label(device, parts[2])
    /\ parts[1].raw = parts[2].raw

=============================================================================
