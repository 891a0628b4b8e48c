------------------------------ MODULE InfoPage ------------------------------
(***************************************************************************)
(* A row of the Info page as a reader of the library gets it: the ids of   *)
(* an Info item are resolved with the language tables and the own texts    *)
(* (protocol/data.py), and its value is taken apart and named.             *)
(***************************************************************************)
EXTENDS LanguageCatalog, InfoNames, OwnText

CONSTANTS
    Rows,           \* the items of a dump: ids of texts, and an expanded value
    DEVICE          \* what a part without a name is shown under

EMPTY_TEXT_ID == 1614
OWN_TEXT_OFFSET == 32768

\* Every cell but the id of a row is a text, and the device is not called a mode.
ASSUME InfoPageAssumption ==
    /\ \A file \in Files : \A k \in 1..Len(file.data) : \A c \in 2..Len(file.data[k]) :
            file.data[k][c] \in {None} \cup Seq(STRING)
    /\ FALLBACK # ID_COLUMN
    /\ Rows \subseteq [caption : Nat, text_a : Nat, text_b : Nat, value : Seq(STRING)]
    /\ ~IsMode(DEVICE)

VARIABLE row        \* the item that is shown, None before

vars == <<catalog, own, row>>

Init ==
    /\ CatalogInit
    /\ OwnInit
    /\ row = None

-----------------------------------------------------------------------------

\* resolve_text_id(), with no text for an id that has none.
ResolveTextId(id) ==
    IF id = EMPTY_TEXT_ID THEN << >>
    ELSE IF id >= OWN_TEXT_OFFSET
    THEN LET slot == id - OWN_TEXT_OFFSET IN
         IF slot < Len(own_text) THEN own_text[slot + 1] ELSE << >>
    ELSE IF Text(regulator, id) = None THEN << >> ELSE Text(regulator, id)

-----------------------------------------------------------------------------

\* A row of the dump is shown, in whatever language is selected.
Show ==
    /\ language # None /\ stage = "decoded" /\ row = None
    /\ row' \in Rows
    /\ UNCHANGED <<catalog, own>>

\* What was shown in the language before is shown again.
CatalogStep == CatalogNext /\ row' = None /\ UNCHANGED own

OwnStep == OwnNext /\ UNCHANGED <<catalog, row>>

Next == OwnStep \/ Show \/ CatalogStep

Spec == Init /\ [][Next]_vars

\* The row with its ids resolved, and its parts.
Texts ==
    [caption |-> ResolveTextId(row.caption), text_a |-> ResolveTextId(row.text_a),
     text_b |-> ResolveTextId(row.text_b), value |-> row.value]

Parts == ParseRow(Texts)

-----------------------------------------------------------------------------
(* What the page promises *)

\* An own text is found under its slot, however the slots are delimited and
\* whichever of them are empty: no empty slot shifts the others.
SlotsResolve ==
    stage = "decoded" =>
        \A i \in 0..MaxSlots :
            ResolveTextId(OWN_TEXT_OFFSET + i) = IF i < Len(slots) THEN slots[i + 1] ELSE << >>

\* A text says the same twice, on both sides of a separator.
Twin(text) == Has(text, "/") /\ Before(text, "/") = After(text, "/")

\* The panel itself calls both halves of a row the same.
SameTexts(texts) ==
    \/ texts.text_a = texts.text_b /\ texts.text_a # << >>
    \/ Twin(texts.caption)
    \/ Has(texts.caption, "-") /\ Twin(After(texts.caption, "-"))

\* What the texts of a row call it, or a part of it.
Callings(texts) ==
    {FirstOf(<<texts.caption>>), SingleName(texts), PairNames(texts)[1], PairNames(texts)[2],
     texts.text_a, texts.text_b}

\* The panel numbers or qualifies something itself, as "Tryb (1)".
PanelNumbers(texts) ==
    \E t \in {texts.caption, texts.text_a, texts.text_b} : "(" \in {t[i] : i \in 1..Len(t)}

\* A row that is called a mode and shows something else: "Tryb" with "20 / 6".
ModeOfNumbers(texts) == ModeLabelled(texts) # {} /\ ~ModeRow(texts, ParseDisplay(texts.value))

\* The two parts of a row have different names in every language, unless the
\* panel calls them the same, so neither replaces the other where they are kept
\* by name.  And what the repository calls smells (info_naming_corpus.py:199)
\* comes from the panel's texts or not at all: no two parts are nameless or read
\* alike; a mode is numbered only by the panel, or where a row of that name shows
\* no mode; and a state is the name of its part only where the panel calls the
\* row so ("Dom" with TextA "Modus" shows "Modus"), never because the name is
\* taken from the value: "keep both under the panel caption so HA never shows
\* `Tryb letni: Tryb letni`" (info_value.py:346).
NamesTellApart ==
    row # None /\ ~SameTexts(Texts) =>
        /\ Len(Parts) = 2 => Parts[1].name # Parts[2].name
        /\ ~Nameless(Parts) /\ ~DuplicateLabels(DEVICE, Parts)
        /\ \A i \in 1..Len(Parts) :
            /\ IndexedMode(Parts[i]) => PanelNumbers(Texts) \/ ModeOfNumbers(Texts)
            /\ NameIsState(Parts[i]) => Parts[i].raw \in Callings(Texts)

=============================================================================
