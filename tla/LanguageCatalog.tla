-------------------------- MODULE LanguageCatalog ---------------------------
(***************************************************************************)
(* LanguageCatalog (i18n.py): two tables of the gateway with one column    *)
(* for each language, a selected column, and English for what it leaves    *)
(* blank.                                                                  *)
(*                                                                         *)
(* A file is the names of its columns and its rows; columns are counted    *)
(* from 0, and column 0 is the id of the row.  Names of languages are      *)
(* compared without case and spaces in the code, texts without the spaces  *)
(* around them: both are members of sets here.                             *)
(***************************************************************************)
EXTENDS Integers, Sequences, FiniteSetsExt

CONSTANTS
    Files,          \* what a language file may be
    Wishes,         \* the languages that callers ask for
    Registers,      \* what USER1_LANG may hold, None if it has no value
    FALLBACK,       \* "ENG"
    ID_COLUMN,      \* "ID"
    None

VARIABLES
    ui, regulator,  \* the two files
    language,       \* the selected column, None before there is a catalog
    failed          \* how the latest fetch() or select() failed, None if not

catalog == <<ui, regulator, language, failed>>

Cell(row, column) == row[column + 1]

\* The arguments of select(): an index, also if it is written in digits, a name,
\* or what looks like digits and is not a number ("--3").  A language has a name
\* here: one that is digits, or has spaces around it in the table, is left out,
\* and could be selected by its index alone.
Index(n) == [form |-> "index", index |-> n, code |-> None]
Code(c) == [form |-> "code", index |-> 0, code |-> c]
OddDigits == [form |-> "odd", index |-> 0, code |-> None]

\* A file has any number of columns and rows, and a row any number of cells.
ASSUME CatalogAssumption ==
    /\ \A file \in Files :
        /\ Len(file.columns) \in Nat /\ Len(file.data) \in Nat
        /\ \A k \in 1..Len(file.data) : Len(file.data[k]) \in Nat
    /\ \A wish \in Wishes :
        wish.index \in Int /\ wish \in {Index(wish.index), Code(wish.code), OddDigits}
    /\ Registers \ {None} \subseteq Int

-----------------------------------------------------------------------------
(* The tables: _parse_table(), text() *)

Width(file) == Len(file.columns)

\* A row, cut or filled up to the columns there are.
Padded(row, width) == [i \in 1..width |-> IF i <= Len(row) THEN row[i] ELSE None]

\* The places of the rows with that key.
RowsFor(file, key) ==
    {k \in 1..Len(file.data) : file.data[k] # << >> /\ Cell(file.data[k], 0) = key}

\* Mutant: the first row of a key counts.
RowOfFirst(file, key) == Padded(file.data[Min(RowsFor(file, key))], Width(file))

\* A later row replaces an earlier one with its key.
RowOf(file, key) == Padded(file.data[Max(RowsFor(file, key))], Width(file))

Blank(cell) == cell \in {None, << >>}

\* _column_for_code(): the first column of that name.
ColumnsFor(columns, code) == {c \in 0..Len(columns) - 1 : Cell(columns, c) = code}
ColumnFor(columns, code) == Min(ColumnsFor(columns, code))

\* text(): the selected cell, or the English one, or None.  The file is given: the
\* code takes the regulator's for a key like "T16_90", and the other for the rest.
Text(file, key) ==
    IF RowsFor(file, key) = {} THEN None
    ELSE LET row == RowOf(file, key)
             selected == Cell(row, language)
             english == Cell(row, ColumnFor(file.columns, FALLBACK))
         IN IF ~Blank(selected) THEN selected
            ELSE IF ~Blank(english) THEN english ELSE None

\* languages(): every column but the first, under the index of the gateway.
Languages ==
    [c \in 1..Width(ui) - 1 |-> [code |-> Cell(ui.columns, c), gateway_index |-> c - 1]]

-----------------------------------------------------------------------------
(* _resolve() *)

ColumnAt(n) == n + 1

\* Mutant: the last column is left out.
InTableShort(columns, n) == 0 < ColumnAt(n) /\ ColumnAt(n) < Len(columns) - 1

InTable(columns, n) == 0 < ColumnAt(n) /\ ColumnAt(n) < Len(columns)

Column(c) == [column |-> c, error |-> None]
Failure(error) == [column |-> None, error |-> error]

Resolve(columns, wish) ==
    CASE wish.form = "odd" -> Failure("ValueError")
      [] wish.form = "index" ->
            IF InTable(columns, wish.index)
            THEN Column(ColumnAt(wish.index)) ELSE Failure("ProtocolError")
      [] wish.form = "code" ->
            IF ColumnsFor(columns, wish.code) = {} THEN Failure("ProtocolError")
            ELSE IF ColumnFor(columns, wish.code) = 0 THEN Failure("KeyError")
            ELSE Column(ColumnFor(columns, wish.code))

-----------------------------------------------------------------------------
(* fetch(), from_bytes() and select() *)

CatalogInit ==
    /\ ui \in Files
    /\ regulator \in Files
    /\ language = None
    /\ failed = None

\* Both files have the same columns, an id first and English among them.
Buildable ==
    /\ ui.columns = regulator.columns
    /\ ui.columns # << >> /\ Cell(ui.columns, 0) = ID_COLUMN
    /\ ColumnsFor(ui.columns, FALLBACK) # {}

\* Mutant: index 0 counts as no wish.
ChosenTruthy(wish, register) ==
    IF wish # None /\ wish # Index(0) THEN wish
    ELSE IF register # None THEN Index(register) ELSE Code(FALLBACK)

\* What is selected first: the caller's wish, else what the gateway shows
\* (USER1_LANG), else English.
Chosen(wish, register) ==
    IF wish # None THEN wish
    ELSE IF register # None THEN Index(register) ELSE Code(FALLBACK)

\* fetch() when the files, and for want of a wish the register, have come.
Fetch(wish, register) ==
    LET found == Resolve(ui.columns, Chosen(wish, register)) IN
    /\ language = None
    /\ language' = IF Buildable THEN found.column ELSE None
    /\ failed' = IF Buildable THEN found.error ELSE "ProtocolError"
    /\ UNCHANGED <<ui, regulator>>

Select(wish) ==
    LET found == Resolve(ui.columns, wish) IN
    /\ language # None
    /\ language' = IF found.error = None THEN found.column ELSE language
    /\ failed' = found.error
    /\ UNCHANGED <<ui, regulator>>

CatalogNext ==
    \/ \E wish \in Wishes \cup {None}, register \in Registers : Fetch(wish, register)
    \/ \E wish \in Wishes : Select(wish)

CatalogSpec == CatalogInit /\ [][CatalogNext]_catalog

-----------------------------------------------------------------------------
(* What the catalog promises *)

\* The catalog of a gateway is there in one of its languages, and every language
\* that languages() lists can be selected by the index listed for it and by its
\* code, to the same effect.  (A code that stands twice means its first column.)
ListedIsSelectable ==
    language # None =>
        /\ language \in DOMAIN Languages
        /\ \A c \in DOMAIN Languages :
            /\ Resolve(ui.columns, Index(Languages[c].gateway_index)) = Column(c)
            /\ \/ Resolve(ui.columns, Code(Languages[c].code)) = Column(c)
               \/ \E d \in 0..c - 1 : Cell(ui.columns, d) = Languages[c].code

\* A catalog that was fetched is in the language that was asked for, or else the
\* one the gateway shows, or else in English: never in English, or in the first
\* language, because an index of 0 or a missing register was misread.  After
\* that a wish that cannot be met changes nothing.
FollowsWish ==
    [][ /\ language # None /\ failed' # None => UNCHANGED language
        /\ \A wish \in Wishes \cup {None}, register \in Registers :
            Fetch(wish, register) /\ language' # None =>
                LET code == Cell(ui.columns, language') IN
                CASE wish # None /\ wish.form = "code" -> code = wish.code
                  [] wish # None /\ wish.form = "index" -> language' = wish.index + 1
                  [] wish = None /\ register # None -> language' = register + 1
                  [] wish = None /\ register = None -> code = FALLBACK]_catalog

\* Every text is one that the file has for that key: of its last row, in the
\* selected language, and in English only where that is blank, however short,
\* long or repeated the rows of the file are.
TextIsItsOwn ==
    language # None =>
        \A file \in {ui, regulator} :
            \A k \in 1..Len(file.data) :
                LET row == file.data[k]
                    Has(c) == c < Len(row) /\ c < Width(file) /\ ~Blank(Cell(row, c))
                    english == ColumnFor(file.columns, FALLBACK)
                IN row # << >>
                   /\ (\A j \in k + 1..Len(file.data) :
                        file.data[j] # << >> => Cell(file.data[j], 0) # Cell(row, 0))
                   => Text(file, Cell(row, 0)) =
                        IF Has(language) THEN Cell(row, language)
                        ELSE IF Has(english) THEN Cell(row, english) ELSE None

=============================================================================
