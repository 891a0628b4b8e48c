----------------------------- MODULE TextProofs -----------------------------
(***************************************************************************)
(* Proofs about the texts of the library: LanguageCatalog, for tables of   *)
(* every width and length; the own texts, for slots of any number and      *)
(* content; InfoText, for values with any number of parts; and the names   *)
(* of InfoPage, for texts and values of any words.                         *)
(***************************************************************************)
EXTENDS InfoPage, InfoText, SequenceTheorems, WellFoundedInduction, TLAPS

-----------------------------------------------------------------------------
(* The language tables: what is listed can be selected, and every text is found *)

\* The smallest of some columns is one of them.
LEMMA SmallestColumn ==
    ASSUME NEW S, S \subseteq Nat, S # {}
    PROVE  Min(S) \in S /\ \A c \in S : Min(S) <= c
<1>. DEFINE smaller == {p \in Nat \X Nat : p[1] < p[2]}
<1>0. IsWellFoundedOn(smaller, Nat)
  BY NatLessThanWellFounded DEF OpToRel
<1>1. PICK least \in S : \A c \in S : ~(<<c, least>> \in smaller)
  <2>. HIDE DEF smaller
  <2>. QED
    BY <1>0, WFMin
<1>2. ASSUME NEW c \in S
      PROVE  least <= c
  <2>1. c \in Nat /\ least \in Nat
    BY <1>1
  <2>2. ~(c < least)
    <3>1. c < least => <<c, least>> \in smaller
      BY <2>1
    <3>. QED
      BY <1>1, <3>1
  <2>. QED
    BY <2>1, <2>2
<1>. QED
  BY <1>1, <1>2 DEF Min

\* A catalog that is there was built from two files with the same columns, one
\* of them English, and is in one of the languages.
CatalogInv ==
    /\ ui \in Files /\ regulator \in Files
    /\ language # None => Buildable /\ language \in 1..Width(ui) - 1

\* What _resolve() finds is a column behind the id (i18n.py:199-207).
LEMMA ResolveFindsALanguage ==
    ASSUME NEW columns, Len(columns) \in Nat, NEW wish,
           wish.index \in Int, wish \in {Index(wish.index), Code(wish.code), OddDigits},
           NEW c, c = Resolve(columns, wish).column, c # None
    PROVE  /\ c \in 1..Len(columns) - 1
           /\ wish.form = "index" => c = wish.index + 1
           /\ wish.form = "code" => Cell(columns, c) = wish.code
           /\ wish.form # "odd"
<1>1. CASE wish = OddDigits
  BY <1>1 DEF OddDigits, Resolve, Failure
<1>2. CASE wish = Index(wish.index)
  <2>1. wish.form = "index"
    BY <1>2 DEF Index
  <2>2. Resolve(columns, wish) =
            IF InTable(columns, wish.index)
            THEN Column(ColumnAt(wish.index)) ELSE Failure("ProtocolError")
    BY <2>1 DEF Resolve
  <2>3. InTable(columns, wish.index) /\ c = wish.index + 1
    BY <2>2 DEF Column, Failure, ColumnAt
  <2>. QED
    BY <2>1, <2>3 DEF InTable, ColumnAt
<1>3. CASE wish = Code(wish.code)
  <2>. DEFINE named == ColumnsFor(columns, wish.code)
  <2>1. wish.form = "code"
    BY <1>3 DEF Code
  <2>2. Resolve(columns, wish) =
            IF named = {} THEN Failure("ProtocolError")
            ELSE IF ColumnFor(columns, wish.code) = 0 THEN Failure("KeyError")
            ELSE Column(ColumnFor(columns, wish.code))
    BY <2>1 DEF Resolve
  <2>3. named # {} /\ c = Min(named) /\ c # 0
    BY <2>2 DEF Column, Failure, ColumnFor
  <2>4. named \subseteq Nat
    BY DEF ColumnsFor
  <2>5. c \in named
    BY <2>3, <2>4, SmallestColumn
  <2>6. c \in 0..Len(columns) - 1 /\ Cell(columns, c) = wish.code
    BY <2>5 DEF ColumnsFor
  <2>. HIDE DEF named
  <2>7. c \in 1..Len(columns) - 1
    BY <2>3, <2>6
  <2>. QED
    BY <2>1, <2>6, <2>7
<1>. QED
  BY <1>1, <1>2, <1>3

\* What is asked for first is a wish as well (i18n.py:123-129).
LEMMA ChosenIsAWish ==
    ASSUME NEW wish \in Wishes \cup {None}, NEW register \in Registers,
           NEW w, w = Chosen(wish, register)
    PROVE  w.index \in Int /\ w \in {Index(w.index), Code(w.code), OddDigits}
<1>1. CASE wish # None
  BY <1>1, CatalogAssumption DEF Chosen
<1>2. CASE wish = None /\ register # None
  <2>1. register \in Int
    BY <1>2, CatalogAssumption
  <2>. QED
    BY <1>2, <2>1 DEF Chosen, Index
<1>3. CASE wish = None /\ register = None
  BY <1>3 DEF Chosen, Code
<1>. QED
  BY <1>1, <1>2, <1>3

\* What a file is.
LEMMA TablesHaveWidth ==
    ASSUME CatalogInv
    PROVE  \A file \in {ui, regulator} :
                /\ Width(file) \in Nat /\ Len(file.data) \in Nat
                /\ \A k \in 1..Len(file.data) : Len(file.data[k]) \in Nat
BY CatalogAssumption DEF CatalogInv, Width

LEMMA CatalogInvariance == CatalogInv /\ [CatalogNext]_catalog => CatalogInv'
<1>. SUFFICES ASSUME CatalogInv, [CatalogNext]_catalog
              PROVE  CatalogInv'
  OBVIOUS
<1>1. Len(ui.columns) \in Nat
  BY TablesHaveWidth DEF Width
<1>2. ASSUME NEW wish \in Wishes \cup {None}, NEW register \in Registers,
             Fetch(wish, register)
      PROVE  CatalogInv'
  <2>1. PICK w : w = Chosen(wish, register)
    OBVIOUS
  <2>2. language' # None =>
            Buildable /\ language' = Resolve(ui.columns, w).column
    BY <1>2, <2>1 DEF Fetch
  <2>3. w.index \in Int /\ w \in {Index(w.index), Code(w.code), OddDigits}
    BY <2>1, ChosenIsAWish
  <2>4. PICK columns, c : columns = ui.columns /\ c = Resolve(columns, w).column
    OBVIOUS
  <2>5. c # None => c \in 1..Len(columns) - 1
    BY <1>1, <2>3, <2>4, ResolveFindsALanguage
  <2>6. language' # None => language' \in 1..Len(ui.columns) - 1
    BY <2>2, <2>4, <2>5
  <2>. QED
    BY <1>2, <2>2, <2>6 DEF Fetch, CatalogInv, Buildable, Width, ColumnsFor, Cell
<1>3. ASSUME NEW wish \in Wishes, Select(wish)
      PROVE  CatalogInv'
  <2>1. wish.index \in Int /\ wish \in {Index(wish.index), Code(wish.code), OddDigits}
    BY CatalogAssumption
  <2>2. language # None /\ UNCHANGED <<ui, regulator>>
        /\ language' \in {language, Resolve(ui.columns, wish).column}
    BY <1>3 DEF Select
  <2>3. language' # None => language' \in 1..Len(ui.columns) - 1
    BY <1>1, <2>1, <2>2, ResolveFindsALanguage DEF CatalogInv, Width
  <2>. QED
    BY <2>2, <2>3 DEF CatalogInv, Buildable, Width, ColumnsFor, Cell
<1>4. CASE UNCHANGED catalog
  BY <1>4 DEF catalog, CatalogInv, Buildable, Width, ColumnsFor, Cell
<1>. QED
  BY <1>2, <1>3, <1>4 DEF CatalogNext

LEMMA CatalogInvHolds == CatalogSpec => []CatalogInv
<1>1. CatalogInit => CatalogInv
  BY DEF CatalogInit, CatalogInv
<1>. QED
  BY <1>1, CatalogInvariance, PTL DEF CatalogSpec

\* Whatever columns the gateway's files have, a catalog is in one of its
\* languages, and every language it lists can be selected, by the index listed
\* for it and by its code, to the same effect (i18n.py:141, 158, 199).
THEOREM ListedLanguagesWork == CatalogSpec => []ListedIsSelectable
<1>1. ASSUME CatalogInv, language # None
      PROVE  ListedIsSelectable
  <2>1. Width(ui) \in Nat /\ Width(ui) = Len(ui.columns) /\ language \in 1..Width(ui) - 1
    BY <1>1, TablesHaveWidth DEF CatalogInv, Width
  <2>2. language \in DOMAIN Languages /\ DOMAIN Languages = 1..Width(ui) - 1
    BY <2>1 DEF Languages
  <2>3. ASSUME NEW c \in 1..Width(ui) - 1
        PROVE  /\ Resolve(ui.columns, Index(Languages[c].gateway_index)) = Column(c)
               /\ \/ Resolve(ui.columns, Code(Languages[c].code)) = Column(c)
                  \/ \E d \in 0..c - 1 : Cell(ui.columns, d) = Languages[c].code
    <3>1. Languages[c].gateway_index = c - 1 /\ Languages[c].code = Cell(ui.columns, c)
      BY DEF Languages
    <3>2. PICK code : code = Cell(ui.columns, c)
      OBVIOUS
    <3>. DEFINE named == ColumnsFor(ui.columns, code)
    <3>3. Resolve(ui.columns, Index(c - 1)) = Column(c)
      <4>1. Index(c - 1).form = "index" /\ Index(c - 1).index = c - 1
        BY DEF Index
      <4>2. InTable(ui.columns, c - 1) /\ ColumnAt(c - 1) = c
        BY <2>1 DEF InTable, ColumnAt
      <4>. QED
        BY <4>1, <4>2 DEF Resolve
    <3>4. c \in named /\ named \subseteq Nat
      BY <2>1, <3>2 DEF ColumnsFor
    <3>5. Min(named) \in named /\ Min(named) <= c
      BY <3>4, SmallestColumn
    <3>6. CASE Min(named) = c
      <4>1. Code(code).form = "code" /\ Code(code).code = code
        BY DEF Code
      <4>2. named # {} /\ ColumnFor(ui.columns, code) = c /\ c # 0
        BY <3>4, <3>6 DEF ColumnFor
      <4>3. Resolve(ui.columns, Code(code)) = Column(c)
        BY <4>1, <4>2 DEF Resolve
      <4>. QED
        BY <3>1, <3>2, <3>3, <4>3
    <3>7. CASE Min(named) # c
      <4>1. Min(named) \in 0..c - 1 /\ Cell(ui.columns, Min(named)) = code
        BY <2>1, <3>4, <3>5, <3>7 DEF ColumnsFor
      <4>. QED
        BY <3>1, <3>2, <3>3, <4>1
    <3>. QED
      BY <3>6, <3>7
  <2>. QED
    BY <2>2, <2>3 DEF ListedIsSelectable
<1>2. CatalogInv => ListedIsSelectable
  BY <1>1 DEF ListedIsSelectable
<1>. QED
  BY <1>2, CatalogInvHolds, PTL

\* The language of a catalog is the one that was asked for, or that of the
\* gateway, or English, whatever the wish and the register; a wish that cannot
\* be met changes nothing (i18n.py:123-129, 158-169, 199-207).
THEOREM LanguageFollowsWish == CatalogSpec => FollowsWish
<1>. DEFINE Step ==
        /\ language # None /\ failed' # None => UNCHANGED language
        /\ \A wish \in Wishes \cup {None}, register \in Registers :
            Fetch(wish, register) /\ language' # None =>
                LET code == Cell(ui.columns, language') IN
                CASE wish # None /\ wish.form = "code" -> code = wish.code
                  [] wish # None /\ wish.form = "index" -> language' = wish.index + 1
                  [] wish = None /\ register # None -> language' = register + 1
                  [] wish = None /\ register = None -> code = FALLBACK
<1>1. ASSUME CatalogInv, [CatalogNext]_catalog
      PROVE  language # None /\ failed' # None => UNCHANGED language
  BY <1>1 DEF CatalogNext, Fetch, Select, catalog
<1>2. ASSUME CatalogInv, NEW wish \in Wishes \cup {None}, NEW register \in Registers,
             Fetch(wish, register), language' # None
      PROVE  LET code == Cell(ui.columns, language') IN
                CASE wish # None /\ wish.form = "code" -> code = wish.code
                  [] wish # None /\ wish.form = "index" -> language' = wish.index + 1
                  [] wish = None /\ register # None -> language' = register + 1
                  [] wish = None /\ register = None -> code = FALLBACK
  <2>1. PICK w : w = Chosen(wish, register)
    OBVIOUS
  <2>2. language' = Resolve(ui.columns, w).column /\ Len(ui.columns) \in Nat
    BY <1>2, <2>1, TablesHaveWidth DEF Fetch, Width
  <2>3. /\ w.form = "index" => language' = w.index + 1
        /\ w.form = "code" => Cell(ui.columns, language') = w.code
        /\ w.form # "odd"
    BY <1>2, <2>1, <2>2, ChosenIsAWish, ResolveFindsALanguage
  <2>4. CASE wish # None
    <3>1. w = wish /\ w \in {Index(w.index), Code(w.code), OddDigits}
      BY <1>2, <2>1, <2>4, CatalogAssumption DEF Chosen
    <3>2. w.form = "index" \/ w.form = "code"
      BY <2>3, <3>1 DEF Index, Code, OddDigits
    <3>. QED
      BY <2>3, <2>4, <3>1, <3>2
  <2>5. CASE wish = None /\ register # None
    BY <2>1, <2>3, <2>5 DEF Chosen, Index
  <2>6. CASE wish = None /\ register = None
    BY <2>1, <2>3, <2>6 DEF Chosen, Code
  <2>. QED
    BY <2>4, <2>5, <2>6
<1>3. CatalogInv /\ [CatalogNext]_catalog => [Step]_catalog
  BY <1>1, <1>2
<1>. QED
  BY <1>3, CatalogInvHolds, PTL DEF CatalogSpec, FollowsWish

\* The last row of a key is the one that is looked at (i18n.py:226-239).
LEMMA LastRowCounts ==
    ASSUME NEW file, Len(file.data) \in Nat, NEW k \in 1..Len(file.data),
           file.data[k] # << >>, NEW key, key = Cell(file.data[k], 0),
           \A j \in k + 1..Len(file.data) :
                file.data[j] # << >> => Cell(file.data[j], 0) # key
    PROVE  RowsFor(file, key) # {} /\ RowOf(file, key) = Padded(file.data[k], Width(file))
<1>1. k \in RowsFor(file, key)
  BY DEF RowsFor
<1>2. ASSUME NEW j \in RowsFor(file, key)
      PROVE  k >= j
  BY <1>2 DEF RowsFor
<1>3. \A j \in RowsFor(file, key) : j \in Nat
  BY DEF RowsFor
<1>4. Max(RowsFor(file, key)) = k
  <2>1. Max(RowsFor(file, key)) \in RowsFor(file, key)
        /\ Max(RowsFor(file, key)) >= k
    BY <1>1, <1>2 DEF Max
  <2>2. k >= Max(RowsFor(file, key)) /\ Max(RowsFor(file, key)) \in Nat
    BY <1>2, <1>3, <2>1
  <2>. QED
    BY <2>1, <2>2
<1>. QED
  BY <1>1, <1>4 DEF RowOf

\* However short, long or repeated the rows of the files are, a text is that of
\* the last row of its key, in English only where the language leaves it blank
\* (i18n.py:190-197, 226-239).
THEOREM TextsAreFound == CatalogSpec => []TextIsItsOwn
<1>1. ASSUME CatalogInv, language # None, NEW file \in {ui, regulator},
             NEW k \in 1..Len(file.data), NEW line, line = file.data[k], line # << >>,
             \A j \in k + 1..Len(file.data) :
                file.data[j] # << >> => Cell(file.data[j], 0) # Cell(line, 0),
             NEW english, english = ColumnFor(file.columns, FALLBACK)
      PROVE  Text(file, Cell(line, 0)) =
                IF /\ language < Len(line) /\ language < Width(file)
                   /\ ~Blank(Cell(line, language))
                THEN Cell(line, language)
                ELSE IF /\ english < Len(line) /\ english < Width(file)
                        /\ ~Blank(Cell(line, english))
                     THEN Cell(line, english) ELSE None
  <2>1. Width(file) \in Nat /\ Len(file.data) \in Nat /\ Len(line) \in Nat
    BY <1>1, TablesHaveWidth
  <2>2. file.columns = ui.columns /\ ColumnsFor(ui.columns, FALLBACK) # {}
    BY <1>1 DEF CatalogInv, Buildable
  <2>3. language \in 1..Width(file) - 1
    BY <1>1, <2>2 DEF CatalogInv, Width
  <2>4. english \in 0..Width(file) - 1
    <3>1. ColumnsFor(ui.columns, FALLBACK) \subseteq Nat
      BY DEF ColumnsFor
    <3>2. english \in ColumnsFor(ui.columns, FALLBACK)
      BY <1>1, <2>2, <3>1, SmallestColumn DEF ColumnFor
    <3>. QED
      BY <2>2, <3>2 DEF ColumnsFor, Width
  <2>5. PICK key : key = Cell(line, 0)
    OBVIOUS
  <2>6. PICK cells : cells = Padded(line, Width(file))
    OBVIOUS
  <2>7. RowsFor(file, key) # {} /\ RowOf(file, key) = cells
    BY <1>1, <2>1, <2>5, <2>6, LastRowCounts
  <2>8. ASSUME NEW c \in 0..Width(file) - 1
        PROVE  Cell(cells, c) = IF c < Len(line) THEN Cell(line, c) ELSE None
    BY <2>1, <2>6 DEF Padded, Cell
  <2>9. Blank(None)
    BY DEF Blank
  <2>10. Text(file, key) =
            IF ~Blank(Cell(cells, language)) THEN Cell(cells, language)
            ELSE IF ~Blank(Cell(cells, english)) THEN Cell(cells, english) ELSE None
    BY <1>1, <2>7 DEF Text
  <2>11. language < Width(file) /\ english < Width(file)
    BY <2>1, <2>3, <2>4
  <2>12. /\ Cell(cells, language) = IF language < Len(line) THEN Cell(line, language) ELSE None
         /\ Cell(cells, english) = IF english < Len(line) THEN Cell(line, english) ELSE None
    BY <2>1, <2>3, <2>4, <2>8
  <2>. QED
    BY <2>5, <2>9, <2>10, <2>11, <2>12
<1>2. CatalogInv => TextIsItsOwn
  BY <1>1 DEF TextIsItsOwn
<1>. QED
  BY <1>2, CatalogInvHolds, PTL

-----------------------------------------------------------------------------
(* The own texts: every slot is found under its number *)

\* Provers do not know that a literal is a string: those that matter are listed.
Words == STRING \cup {NUL} \cup {"(", ")", "/", "-", "1", "2", "Info"}
SlotWords == STRING \ {NUL}

LEMMA WordsOfSlots == SlotWords \subseteq Words /\ NUL \in Words /\ NUL \notin SlotWords
BY DEF Words, SlotWords

\* One sequence behind another.
LEMMA Joined ==
    ASSUME NEW S, NEW s \in Seq(S), NEW t \in Seq(S)
    PROVE  /\ s \o t \in Seq(S) /\ Len(s) \in Nat /\ Len(t) \in Nat
           /\ Len(s \o t) = Len(s) + Len(t)
           /\ \A j \in 1..Len(s) : (s \o t)[j] = s[j]
           /\ \A i \in 1..Len(t) : (s \o t)[Len(s) + i] = t[i]
<1>1. Len(s) \in Nat /\ Len(t) \in Nat
  BY LenProperties
<1>2. /\ s \o t \in Seq(S) /\ Len(s \o t) = Len(s) + Len(t)
      /\ \A i \in 1..Len(s) + Len(t) : (s \o t)[i] = IF i <= Len(s) THEN s[i] ELSE t[i - Len(s)]
  BY ConcatProperties
<1>3. ASSUME NEW i \in 1..Len(t)
      PROVE  (s \o t)[Len(s) + i] = t[i]
  <2>1. /\ Len(s) + i \in 1..Len(s) + Len(t) /\ ~(Len(s) + i <= Len(s))
        /\ Len(s) + i - Len(s) = i
    BY <1>1
  <2>. QED
    BY <1>2, <2>1
<1>4. \A j \in 1..Len(s) : (s \o t)[j] = s[j]
  BY <1>1, <1>2
<1>. QED
  BY <1>1, <1>2, <1>3, <1>4

\* A sequence without its last element.
LEMMA Dropped ==
    ASSUME NEW S, NEW s \in Seq(S), s # << >>
    PROVE  LET t == SubSeq(s, 1, Len(s) - 1) IN
           /\ t \in Seq(S) /\ Len(t) = Len(s) - 1 /\ Len(s) \in Nat \ {0}
           /\ \A i \in 1..Len(s) - 1 : t[i] = s[i]
<1>1. PICK n : n = Len(s) - 1
  OBVIOUS
<1>2. n \in Nat /\ n \in Int /\ 1 \in Int /\ Len(s) \in Nat \ {0}
  BY <1>1, EmptySeq
<1>3. \A i \in 1..n : s[i] \in S
  BY <1>1, <1>2
<1>4. /\ SubSeq(s, 1, n) \in Seq(S)
      /\ Len(SubSeq(s, 1, n)) = IF 1 <= n THEN n - 1 + 1 ELSE 0
      /\ \A i \in 1..n - 1 + 1 : SubSeq(s, 1, n)[i] = s[1 + i - 1]
  BY <1>2, <1>3, SubSeqProperties
<1>5. Len(SubSeq(s, 1, n)) = n
  <2>1. CASE 1 <= n
    BY <1>2, <1>4, <2>1
  <2>2. CASE n = 0
    BY <1>4, <2>2
  <2>. QED
    BY <1>2, <2>1, <2>2
<1>6. \A i \in 1..n : i \in 1..n - 1 + 1 /\ 1 + i - 1 = i
  BY <1>2
<1>. QED
  BY <1>1, <1>2, <1>4, <1>5, <1>6

\* The words of the string, as if another NUL came behind it.
WordAt(j) == IF j <= Len(body) THEN body[j] ELSE NUL

\* The slots end at the places p of the string, each with its NUL.
SlotEnds(p) ==
    /\ p \in [0..Len(slots) -> Nat]
    /\ p[0] = 0
    /\ \A k \in 1..Len(slots) :
        /\ p[k] = p[k - 1] + Len(slots[k]) + 1
        /\ WordAt(p[k]) = NUL
        /\ \A i \in 1..Len(slots[k]) : WordAt(p[k - 1] + i) = slots[k][i]
    /\ \A k, l \in 0..Len(slots) : k < l => p[k] < p[l]

\* split() stands inside the slot of its last piece, or behind the last slot,
\* and the pieces before are slots.
SplitUpTo(p) ==
    LET m == Len(own_text) IN
    /\ m \in 1..Len(slots) + 1
    /\ \A k \in 1..m - 1 : own_text[k] = slots[k]
    /\ split = p[m - 1] + Len(own_text[m])
    /\ m = Len(slots) + 1 => own_text[m] = << >>
    /\ m <= Len(slots) =>
        /\ Len(own_text[m]) <= Len(slots[m])
        /\ \A i \in 1..Len(own_text[m]) : own_text[m][i] = slots[m][i]

\* What is not found, behind the others, is empty.
FoundSlots ==
    /\ Len(own_text) <= Len(slots)
    /\ \A k \in 1..Len(own_text) : own_text[k] = slots[k]
    /\ \A k \in Len(own_text) + 1..Len(slots) : slots[k] = << >>

OwnTyped ==
    /\ stage \in {"panel", "splitting", "decoded"}
    /\ slots \in Seq(Seq(SlotWords))
    /\ body \in Seq(Words)
    /\ split \in 0..Len(body)
    /\ own_text \in Seq(Seq(Words))

\* The string has all slots, and what split() or the client made of it.
OwnInv ==
    /\ OwnTyped
    /\ \E p : /\ SlotEnds(p)
              /\ Len(body) \in {p[Len(slots)], p[Len(slots)] - 1}
              /\ stage = "panel" => Len(body) = p[Len(slots)] /\ split = 0
              /\ stage = "splitting" => SplitUpTo(p)
    /\ stage = "decoded" => FoundSlots

\* One more slot, with its NUL.
LEMMA PutSlotStep ==
    ASSUME OwnInv, NEW text \in SlotTexts, PutSlot(text)
    PROVE  OwnInv'
<1>. DEFINE n == Len(slots)
            more == Append(text, NUL)
<1>1. PICK p : SlotEnds(p) /\ Len(body) = p[n] /\ split = 0
  BY DEF OwnInv, PutSlot
<1>2. /\ n \in Nat /\ Len(body) \in Nat /\ text \in Seq(SlotWords) /\ Len(text) \in Nat
      /\ slots \in Seq(Seq(SlotWords)) /\ body \in Seq(Words)
  <2>1. text \in Seq(SlotWords)
    BY OwnTextAssumption DEF SlotWords
  <2>. QED
    BY <2>1 DEF OwnInv, OwnTyped
<1>3. /\ slots' = Append(slots, text) /\ body' = body \o more
      /\ stage = "panel" /\ stage' = "panel" /\ split' = split /\ own_text' = own_text
  BY DEF PutSlot
<1>4. more \in Seq(Words) /\ Len(more) = Len(text) + 1 /\ more[Len(text) + 1] = NUL
      /\ \A i \in 1..Len(text) : more[i] = text[i]
  <2>1. text \in Seq(Words) /\ NUL \in Words
    BY <1>2, WordsOfSlots, SeqMonotonic
  <2>. QED
    BY <1>2, <2>1
<1>. HIDE DEF more
<1>5. /\ body' \in Seq(Words) /\ Len(body') = Len(body) + Len(text) + 1
      /\ \A j \in 1..Len(body) : body'[j] = body[j]
      /\ \A i \in 1..Len(text) : body'[Len(body) + i] = text[i]
      /\ body'[Len(body) + Len(text) + 1] = NUL
  <2>1. /\ body' \in Seq(Words) /\ Len(body') = Len(body) + Len(more)
        /\ \A j \in 1..Len(body) : body'[j] = body[j]
        /\ \A i \in 1..Len(more) : body'[Len(body) + i] = more[i]
    <3>1. PICK s, t : s = body /\ t = more
      OBVIOUS
    <3>2. s \in Seq(Words) /\ t \in Seq(Words)
      BY <1>2, <1>4, <3>1
    <3>3. /\ s \o t \in Seq(Words) /\ Len(s \o t) = Len(s) + Len(t)
          /\ \A j \in 1..Len(s) : (s \o t)[j] = s[j]
          /\ \A i \in 1..Len(t) : (s \o t)[Len(s) + i] = t[i]
      BY <3>2, Joined
    <3>. QED
      BY <1>3, <3>1, <3>3
  <2>3. \A i \in 1..Len(text) + 1 : body'[Len(body) + i] = more[i]
    BY <1>4, <2>1
  <2>4. Len(text) + 1 \in 1..Len(text) + 1 /\ \A i \in 1..Len(text) : i \in 1..Len(text) + 1
    BY <1>2
  <2>5. body'[Len(body) + (Len(text) + 1)] = NUL
    BY <1>4, <2>3, <2>4
  <2>. QED
    BY <1>2, <1>4, <2>1, <2>3, <2>4, <2>5
<1>6. /\ Len(slots') = n + 1 /\ slots'[n + 1] = text
      /\ \A k \in 1..n : slots'[k] = slots[k]
      /\ slots' \in Seq(Seq(SlotWords))
  BY <1>2, <1>3
<1>. HIDE DEF n
<1>7. OwnTyped'
  BY <1>2, <1>3, <1>5, <1>6 DEF OwnInv, OwnTyped
<1>8. PICK q : q = [k \in 0..n + 1 |-> IF k <= n THEN p[k] ELSE Len(body')]
  OBVIOUS
<1>9. /\ q \in [0..n + 1 -> Nat] /\ q[n + 1] = Len(body')
      /\ \A k \in 0..n : q[k] = p[k] /\ p[k] \in Nat /\ p[k] <= Len(body)
  <2>1. /\ p \in [0..n -> Nat] /\ n \in 0..n
        /\ \A k \in 0..n : k < n => p[k] < p[n]
    BY <1>1, <1>2 DEF SlotEnds, n
  <2>2. \A k \in 0..n : p[k] \in Nat /\ p[k] <= p[n]
    BY <1>2, <2>1
  <2>3. \A k \in 0..n : q[k] = p[k]
    BY <1>2, <1>8
  <2>4. q[n + 1] = Len(body') /\ Len(body') \in Nat
    BY <1>2, <1>5, <1>8
  <2>. QED
    BY <1>1, <1>2, <1>8, <2>2, <2>3, <2>4
<1>10. ASSUME NEW k \in 1..n + 1
       PROVE  /\ q[k] = q[k - 1] + Len(slots'[k]) + 1
              /\ WordAt(q[k])' = NUL
              /\ \A i \in 1..Len(slots'[k]) : WordAt(q[k - 1] + i)' = slots'[k][i]
  <2>1. CASE k = n + 1
    <3>1. q[k - 1] = Len(body) /\ q[k] = Len(body) + Len(text) + 1 /\ slots'[k] = text
      BY <1>1, <1>2, <1>5, <1>6, <1>9, <2>1 DEF n
    <3>2. PICK b : b = Len(body)
      OBVIOUS
    <3>3. \A i \in 1..Len(text) : b + i <= Len(body')
      BY <1>2, <1>5, <3>2
    <3>. QED
      BY <1>2, <1>5, <3>1, <3>2, <3>3 DEF WordAt
  <2>2. CASE k # n + 1
    <3>1. k \in 1..n /\ k \in 0..n /\ k - 1 \in 0..n
      BY <1>2, <2>2
    <3>2. /\ p[k] = p[k - 1] + Len(slots[k]) + 1 /\ WordAt(p[k]) = NUL
          /\ \A i \in 1..Len(slots[k]) : WordAt(p[k - 1] + i) = slots[k][i]
      BY <1>1, <3>1 DEF SlotEnds, n
    <3>3. q[k] = p[k] /\ q[k - 1] = p[k - 1] /\ slots'[k] = slots[k] /\ p[k] <= Len(body)
          /\ p[k - 1] \in Nat /\ Len(slots[k]) \in Nat /\ p[k] \in Nat
      <4>1. slots[k] \in Seq(SlotWords)
        BY <1>2, <3>1 DEF n
      <4>. QED
        BY <1>6, <1>9, <3>1, <4>1
    <3>4. p[k] \in 1..Len(body) /\ \A i \in 1..Len(slots[k]) : p[k - 1] + i \in 1..Len(body)
      BY <1>2, <3>2, <3>3
    <3>5. \A j \in 1..Len(body) : j <= Len(body')
      BY <1>2, <1>5
    <3>6. body'[p[k]] = NUL
      BY <1>5, <3>2, <3>4 DEF WordAt
    <3>7. PICK b, e : b = p[k - 1] /\ e = p[k]
      OBVIOUS
    <3>8. ASSUME NEW i \in 1..Len(slots[k])
          PROVE  WordAt(b + i)' = slots[k][i]
      <4>1. b + i \in 1..Len(body) /\ b + i <= Len(body')
        BY <3>4, <3>5, <3>7
      <4>2. WordAt(b + i) = slots[k][i]
        BY <3>2, <3>7
      <4>. QED
        BY <1>5, <4>1, <4>2 DEF WordAt
    <3>9. WordAt(e)' = NUL
      <4>1. e \in 1..Len(body) /\ e <= Len(body') /\ body'[e] = NUL
        BY <3>4, <3>5, <3>6, <3>7
      <4>. QED
        BY <4>1 DEF WordAt
    <3>10. e = b + Len(slots'[k]) + 1 /\ slots'[k] = slots[k]
      BY <3>2, <3>3, <3>7
    <3>11. q[k] = e /\ q[k - 1] = b
      BY <3>3, <3>7
    <3>. QED
      BY <3>8, <3>9, <3>10, <3>11 DEF WordAt
  <2>. QED
    BY <2>1, <2>2
<1>11. ASSUME NEW k \in 0..n + 1, NEW l \in 0..n + 1, k < l
       PROVE  q[k] < q[l]
  <2>1. k \in 0..n
    BY <1>2, <1>11
  <2>2. CASE l = n + 1
    <3>1. q[l] = Len(body) + Len(text) + 1 /\ q[k] \in Nat /\ q[k] <= Len(body)
      BY <1>5, <1>9, <2>1, <2>2
    <3>. QED
      BY <1>2, <3>1
  <2>3. CASE l # n + 1
    <3>1. l \in 0..n
      BY <1>2, <2>3
    <3>. QED
      BY <1>1, <1>9, <1>11, <2>1, <3>1 DEF SlotEnds, n
  <2>. QED
    BY <2>2, <2>3
<1>12. SlotEnds(q)'
  <2>1. q[0] = 0
    BY <1>1, <1>2, <1>9 DEF SlotEnds
  <2>. QED
    BY <1>6, <1>9, <1>10, <1>11, <2>1 DEF SlotEnds, WordAt
<1>. QED
  BY <1>1, <1>3, <1>6, <1>7, <1>9, <1>12 DEF OwnInv

\* The last NUL is sent or not.
LEMMA SendSlotsStep ==
    ASSUME OwnInv, SendSlots
    PROVE  OwnInv'
<1>. DEFINE n == Len(slots)
<1>1. PICK p : SlotEnds(p) /\ Len(body) = p[n] /\ split = 0
  BY DEF OwnInv, SendSlots
<1>2. n \in Nat /\ Len(body) \in Nat /\ body \in Seq(Words) /\ n \in 0..n /\ 0 \in 0..n
  BY DEF OwnInv, OwnTyped
<1>3. /\ slots' = slots /\ split' = 0 /\ own_text' = << << >> >> /\ stage' = "splitting"
      /\ body' = body \/ body' = SubSeq(body, 1, Len(body) - 1)
  BY <1>1 DEF SendSlots
<1>4. /\ body' \in Seq(Words) /\ Len(body') \in Nat
      /\ Len(body') = Len(body) \/ (Len(body') = Len(body) - 1 /\ body # << >>)
      /\ Len(body') <= Len(body)
      /\ \A j \in 1..Len(body') : body'[j] = body[j]
  <2>1. CASE body' = body
    BY <1>2, <2>1
  <2>2. CASE body' # body
    <3>1. body # << >> /\ Len(body) >= 1
      <4>1. CASE body = << >>
        BY <1>3, <2>2, <4>1
      <4>. QED
        BY <1>2, <4>1
    <3>. QED
      BY <1>2, <1>3, <2>2, <3>1
  <2>. QED
    BY <2>1, <2>2
<1>5. body # << >> => WordAt(Len(body)) = NUL
  <2>. SUFFICES ASSUME body # << >>
                PROVE  WordAt(Len(body)) = NUL
    OBVIOUS
  <2>1. p[n] # 0
    BY <1>1, <1>2
  <2>2. n \in 1..n
    BY <1>1, <1>2, <2>1 DEF SlotEnds
  <2>. QED
    BY <1>1, <2>2 DEF SlotEnds
<1>6. ASSUME NEW j \in Nat \ {0}
      PROVE  WordAt(j)' = WordAt(j)
  <2>1. CASE j <= Len(body')
    BY <1>2, <1>4, <2>1 DEF WordAt
  <2>2. CASE ~(j <= Len(body'))
    <3>1. WordAt(j)' = NUL
      BY <2>2 DEF WordAt
    <3>2. j = Len(body) \/ ~(j <= Len(body))
      BY <1>2, <1>4, <2>2
    <3>3. body # << >> \/ ~(j <= Len(body))
      BY <1>2
    <3>. QED
      BY <1>5, <3>1, <3>2, <3>3 DEF WordAt
  <2>. QED
    BY <2>1, <2>2
<1>7. SlotEnds(p)'
  <2>1. ASSUME NEW k \in 1..n
        PROVE  /\ WordAt(p[k])' = NUL
               /\ \A i \in 1..Len(slots[k]) : WordAt(p[k - 1] + i)' = slots[k][i]
    <3>1. k \in 0..n /\ k - 1 \in 0..n /\ slots[k] \in Seq(SlotWords) /\ Len(slots[k]) \in Nat
      BY <1>2 DEF OwnInv, OwnTyped
    <3>2. p[k] = p[k - 1] + Len(slots[k]) + 1 /\ p[k] \in Nat /\ p[k - 1] \in Nat
      BY <1>1, <3>1 DEF SlotEnds
    <3>3. p[k] \in Nat \ {0} /\ \A i \in 1..Len(slots[k]) : p[k - 1] + i \in Nat \ {0}
      BY <3>1, <3>2
    <3>4. PICK e, b : e = p[k] /\ b = p[k - 1]
      OBVIOUS
    <3>5. WordAt(e)' = WordAt(e) /\ \A i \in 1..Len(slots[k]) : WordAt(b + i)' = WordAt(b + i)
      BY <1>6, <3>3, <3>4
    <3>. QED
      BY <1>1, <3>4, <3>5 DEF SlotEnds, WordAt
  <2>. QED
    BY <1>1, <1>3, <2>1 DEF SlotEnds, WordAt
<1>8. SplitUpTo(p)'
  <2>1. Len(own_text') = 1 /\ own_text'[1] = << >> /\ Len(own_text'[1]) = 0
    BY <1>3
  <2>2. p[0] = 0
    BY <1>1 DEF SlotEnds
  <2>3. ASSUME NEW m, m = 1, m <= n
        PROVE  0 <= Len(slots[m])
    BY <1>2, <2>3 DEF OwnInv, OwnTyped
  <2>. QED
    BY <1>2, <1>3, <2>1, <2>2, <2>3 DEF SplitUpTo
<1>9. OwnTyped'
  BY <1>2, <1>3, <1>4 DEF OwnInv, OwnTyped
<1>. QED
  BY <1>1, <1>2, <1>3, <1>4, <1>7, <1>8, <1>9 DEF OwnInv

\* split() goes one word on: inside a slot, or over the NUL behind it.
LEMMA SplitWordStep ==
    ASSUME OwnInv, SplitWord
    PROVE  OwnInv'
<1>. DEFINE n == Len(slots)
            m == Len(own_text)
<1>1. PICK p : /\ SlotEnds(p) /\ Len(body) \in {p[n], p[n] - 1}
               /\ SplitUpTo(p)
  BY DEF OwnInv, SplitWord
<1>2. /\ n \in Nat /\ m \in Nat /\ Len(body) \in Nat /\ split \in Nat /\ split < Len(body)
      /\ body \in Seq(Words) /\ own_text \in Seq(Seq(Words)) /\ slots \in Seq(Seq(SlotWords))
      /\ m \in 1..n + 1
  BY <1>1 DEF OwnInv, OwnTyped, SplitWord, SplitUpTo
<1>3. PICK u, w : u = own_text[m] /\ w = body[split + 1]
  OBVIOUS
<1>4. u \in Seq(Words) /\ w \in Words /\ Len(u) \in Nat /\ split + 1 \in 1..Len(body)
  <2>1. split + 1 \in 1..Len(body)
    BY <1>2
  <2>2. w \in Words
    BY <1>2, <1>3, <2>1, ElementOfSeq
  <2>3. u \in Seq(Words)
    BY <1>2, <1>3
  <2>. QED
    BY <2>1, <2>2, <2>3
<1>5. /\ split = p[m - 1] + Len(u) /\ \A k \in 1..m - 1 : own_text[k] = slots[k]
      /\ m = n + 1 => u = << >>
      /\ m <= n => Len(u) <= Len(slots[m]) /\ \A i \in 1..Len(u) : u[i] = slots[m][i]
  BY <1>1, <1>3 DEF SplitUpTo
<1>6. m \in 1..n
  <2>1. CASE m = n + 1
    <3>1. split = p[n] /\ p[n] \in Nat
      <4>1. m - 1 = n /\ n \in 0..n
        BY <1>2, <2>1
      <4>. QED
        BY <1>1, <1>5, <2>1, <4>1 DEF SlotEnds
    <3>. QED
      BY <1>1, <1>2, <3>1
  <2>. QED
    BY <1>2, <2>1
<1>7. PICK b, t : b = p[m - 1] /\ t = slots[m]
  OBVIOUS
<1>8. /\ b \in Nat /\ t \in Seq(SlotWords) /\ Len(t) \in Nat /\ p[m] = b + Len(t) + 1
      /\ WordAt(p[m]) = NUL /\ \A i \in 1..Len(t) : WordAt(b + i) = t[i]
  <2>1. m - 1 \in 0..n /\ t \in Seq(SlotWords)
    BY <1>2, <1>6, <1>7
  <2>. QED
    BY <1>1, <1>6, <1>7, <2>1 DEF SlotEnds
<1>9. w = WordAt(split + 1) /\ split + 1 = b + (Len(u) + 1) /\ Len(u) <= Len(t)
  <2>1. w = WordAt(split + 1)
    BY <1>2, <1>3 DEF WordAt
  <2>2. m <= n /\ split = b + Len(u)
    BY <1>2, <1>5, <1>6, <1>7
  <2>3. Len(u) <= Len(t)
    BY <1>5, <1>7, <2>2
  <2>. QED
    BY <1>4, <1>8, <2>1, <2>2, <2>3
<1>10. /\ stage = "splitting" /\ stage' = "splitting" /\ slots' = slots /\ body' = body
       /\ split' = split + 1
       /\ own_text' = IF w = NUL THEN Append(own_text, << >>)
                      ELSE [own_text EXCEPT ![m] = Append(u, w)]
  BY <1>3 DEF SplitWord
<1>11. SlotEnds(p)'
  BY <1>1, <1>10 DEF SlotEnds, WordAt
<1>12. CASE Len(u) < Len(t)
  <2>1. w = t[Len(u) + 1] /\ Len(u) + 1 \in 1..Len(t)
    BY <1>4, <1>8, <1>9, <1>12
  <2>2. w \in SlotWords /\ w # NUL
    <3>1. w \in SlotWords
      BY <1>8, <2>1, ElementOfSeq
    <3>. QED
      BY <3>1, WordsOfSlots
  <2>3. PICK v : v = Append(u, w)
    OBVIOUS
  <2>4. /\ v \in Seq(Words) /\ Len(v) = Len(u) + 1 /\ v[Len(u) + 1] = w
        /\ \A i \in 1..Len(u) : v[i] = u[i]
    BY <1>4, <2>3
  <2>5. /\ own_text' \in Seq(Seq(Words)) /\ Len(own_text') = m
        /\ \A k \in 1..m : own_text'[k] = IF k = m THEN v ELSE own_text[k]
    BY <1>2, <1>6, <1>10, <2>2, <2>3, <2>4, ExceptSeq
  <2>6. \A i \in 1..Len(v) : v[i] = t[i]
    BY <1>4, <1>5, <1>6, <1>7, <2>1, <2>4
  <2>7. split' = p[m - 1] + Len(v)
    BY <1>4, <1>7, <1>8, <1>9, <1>10, <2>4
  <2>. HIDE DEF n, m
  <2>8. SplitUpTo(p)'
    <3>1. own_text'[m] = v /\ \A k \in 1..m - 1 : own_text'[k] = slots[k]
      <4>1. m \in 1..m /\ \A k \in 1..m - 1 : k \in 1..m /\ k # m
        BY <1>2
      <4>. QED
        BY <1>5, <2>5, <4>1
    <3>2. m # n + 1 /\ Len(v) <= Len(slots[m]) /\ m \in 1..n + 1
      BY <1>2, <1>4, <1>6, <1>7, <1>8, <1>12, <2>4
    <3>. QED
      BY <1>7, <1>10, <2>5, <2>6, <2>7, <3>1, <3>2 DEF SplitUpTo, n
  <2>9. OwnTyped'
    BY <1>2, <1>4, <1>10, <2>5 DEF OwnTyped, OwnInv
  <2>. QED
    BY <1>1, <1>10, <1>11, <2>8, <2>9 DEF OwnInv, n
<1>13. CASE Len(u) = Len(t)
  <2>1. w = NUL /\ split' = p[m]
    BY <1>4, <1>8, <1>9, <1>10, <1>13
  <2>2. u = t
    <3>1. t \in Seq(Words)
      BY <1>8, WordsOfSlots, SeqMonotonic
    <3>. QED
      BY <1>4, <1>5, <1>6, <1>7, <1>13, <3>1, SeqEqual
  <2>3. /\ own_text' \in Seq(Seq(Words)) /\ Len(own_text') = m + 1
        /\ own_text'[m + 1] = << >> /\ \A k \in 1..m : own_text'[k] = own_text[k]
    <3>1. << >> \in Seq(Words)
      OBVIOUS
    <3>. QED
      BY <1>2, <1>10, <2>1, <3>1
  <2>4. \A k \in 1..m : own_text'[k] = slots[k]
    <3>1. \A k \in 1..m : k = m \/ k \in 1..m - 1
      BY <1>2
    <3>. QED
      BY <1>3, <1>5, <1>7, <2>2, <2>3, <3>1
  <2>. HIDE DEF n, m
  <2>5. SplitUpTo(p)'
    <3>1. m + 1 \in 1..n + 1 /\ m \in Nat /\ m + 1 - 1 = m /\ Len(<< >>) = 0 /\ p[m] \in Nat
      BY <1>2, <1>6, <1>8
    <3>2. m + 1 <= n => 0 <= Len(slots[m + 1])
      BY <1>2, <1>6 DEF n
    <3>3. PICK found : found = own_text'
      OBVIOUS
    <3>4. /\ Len(found) = m + 1 /\ found[m + 1] = << >> /\ Len(found[m + 1]) = 0
          /\ \A k \in 1..m : found[k] = slots[k]
      BY <2>3, <2>4, <3>3
    <3>5. split' = p[m] + Len(found[m + 1])
      BY <2>1, <3>1, <3>4
    <3>6. m + 1 \in 1..Len(slots) + 1 /\ (m + 1 <= Len(slots) => 0 <= Len(slots[m + 1]))
      BY <3>1, <3>2 DEF n
    <3>7. PICK j : j = m + 1 /\ j - 1 = m
      BY <3>1
    <3>8. j \in 1..Len(slots) + 1 /\ Len(found) = j /\ \A k \in 1..j - 1 : found[k] = slots[k]
      BY <3>1, <3>4, <3>6, <3>7
    <3>9. split' = p[j - 1] + Len(found[j]) /\ found[j] = << >>
      BY <3>1, <3>4, <3>5, <3>7
    <3>10. j <= Len(slots) =>
              /\ Len(found[j]) <= Len(slots[j])
              /\ \A i \in 1..Len(found[j]) : found[j][i] = slots[j][i]
      BY <3>1, <3>4, <3>6, <3>7
    <3>. QED
      BY <1>10, <3>3, <3>8, <3>9, <3>10 DEF SplitUpTo
  <2>6. OwnTyped'
    BY <1>2, <1>4, <1>10, <2>3 DEF OwnTyped, OwnInv
  <2>. QED
    BY <1>1, <1>10, <1>11, <2>5, <2>6 DEF OwnInv, n
<1>. QED
  BY <1>4, <1>8, <1>9, <1>12, <1>13

\* What is behind the last NUL is dropped; a last slot that has no NUL is kept,
\* unless it is empty.
LEMMA KeepSlotsStep ==
    ASSUME OwnInv, KeepSlots
    PROVE  OwnInv'
<1>. DEFINE n == Len(slots)
            m == Len(own_text)
<1>1. PICK p : /\ SlotEnds(p) /\ Len(body) \in {p[n], p[n] - 1}
               /\ SplitUpTo(p)
  BY DEF OwnInv, KeepSlots
<1>2. /\ n \in Nat /\ m \in Nat /\ Len(body) \in Nat /\ split = Len(body)
      /\ own_text \in Seq(Seq(Words)) /\ slots \in Seq(Seq(SlotWords))
      /\ m \in 1..n + 1
  BY <1>1 DEF OwnInv, OwnTyped, KeepSlots, SplitUpTo
<1>3. PICK u : u = own_text[m]
  OBVIOUS
<1>4. u \in Seq(Words) /\ Len(u) \in Nat
  BY <1>2, <1>3
<1>5. /\ split = p[m - 1] + Len(u) /\ \A k \in 1..m - 1 : own_text[k] = slots[k]
      /\ m = n + 1 => u = << >>
      /\ m <= n => Len(u) <= Len(slots[m]) /\ \A i \in 1..Len(u) : u[i] = slots[m][i]
  BY <1>1, <1>3 DEF SplitUpTo
<1>6. /\ stage' = "decoded" /\ UNCHANGED <<slots, body, split>>
      /\ own_text' = IF u = << >> THEN SubSeq(own_text, 1, m - 1) ELSE own_text
  BY <1>3 DEF KeepSlots, Last, Front
<1>7. m <= n => m = n /\ u = slots[m]
  <2>. SUFFICES ASSUME m <= n
                PROVE  m = n /\ u = slots[m]
    OBVIOUS
  <2>1. PICK b, t : b = p[m - 1] /\ t = slots[m]
    OBVIOUS
  <2>2. m - 1 \in 0..n /\ m \in 0..n /\ n \in 0..n /\ m \in 1..n /\ t \in Seq(SlotWords)
    BY <1>2, <2>1
  <2>3. b \in Nat /\ p[m] = b + Len(t) + 1 /\ p[n] \in Nat /\ p[m] \in Nat /\ Len(t) \in Nat
    BY <1>1, <2>1, <2>2 DEF SlotEnds
  <2>4. m < n => p[m] < p[n]
    BY <1>1, <2>2 DEF SlotEnds
  <2>5. Len(body) = b + Len(u) /\ Len(u) <= Len(t)
    BY <1>2, <1>5, <2>1
  <2>6. Len(body) >= p[n] - 1
    BY <1>1, <2>3
  <2>7. m = n /\ Len(u) = Len(t)
    BY <1>2, <1>4, <2>3, <2>4, <2>5, <2>6
  <2>8. t \in Seq(Words)
    BY <2>2, WordsOfSlots, SeqMonotonic
  <2>. QED
    BY <1>4, <1>5, <2>1, <2>7, <2>8, SeqEqual
<1>8. CASE u = << >>
  <2>1. /\ own_text' \in Seq(Seq(Words)) /\ Len(own_text') = m - 1
        /\ \A k \in 1..m - 1 : own_text'[k] = own_text[k]
    <3>1. own_text # << >> /\ own_text' = SubSeq(own_text, 1, m - 1)
      BY <1>2, <1>6, <1>8
    <3>. QED
      BY <1>2, <3>1, Dropped
  <2>2. \A k \in m..n : slots[k] = << >>
    BY <1>2, <1>7, <1>8
  <2>3. FoundSlots'
    <3>1. m - 1 + 1 = m /\ m - 1 <= n
      BY <1>2
    <3>2. \A k \in 1..m - 1 : own_text'[k] = slots[k]
      BY <1>5, <2>1
    <3>. HIDE DEF m
    <3>. QED
      BY <1>6, <2>1, <2>2, <3>1, <3>2 DEF FoundSlots
  <2>4. OwnTyped'
    BY <1>6, <2>1 DEF OwnInv, OwnTyped
  <2>. QED
    BY <1>1, <1>6, <2>3, <2>4 DEF OwnInv, SlotEnds, WordAt
<1>9. CASE u # << >>
  <2>1. m = n /\ own_text' = own_text
    BY <1>2, <1>5, <1>6, <1>7, <1>9
  <2>2. FoundSlots'
    BY <1>2, <1>3, <1>5, <1>6, <1>7, <2>1 DEF FoundSlots
  <2>3. OwnTyped'
    BY <1>6, <2>1 DEF OwnInv, OwnTyped
  <2>. QED
    BY <1>1, <1>6, <2>2, <2>3 DEF OwnInv, SlotEnds, WordAt
<1>. QED
  BY <1>8, <1>9

LEMMA OwnInvHolds == Spec => []OwnInv
<1>1. Init => OwnInv
  <2>. SUFFICES ASSUME OwnInit
                PROVE  OwnInv
    BY DEF Init
  <2>1. /\ slots = << >> /\ body = << >> /\ Len(slots) = 0 /\ Len(body) = 0 /\ split = 0
        /\ stage = "panel" /\ own_text = << >>
    BY DEF OwnInit
  <2>2. PICK p : p = [k \in {0} |-> 0]
    OBVIOUS
  <2>3. SlotEnds(p) /\ p[0] = 0
    <3>1. 0..0 = {0} /\ 1..0 = {} /\ p \in [{0} -> Nat] /\ p[0] = 0
      BY <2>2
    <3>. QED
      BY <2>1, <3>1 DEF SlotEnds
  <2>4. OwnTyped
    BY <2>1 DEF OwnTyped
  <2>. QED
    BY <2>1, <2>3, <2>4 DEF OwnInv
<1>2. OwnInv /\ [Next]_vars => OwnInv'
  <2>. SUFFICES ASSUME OwnInv, [Next]_vars
                PROVE  OwnInv'
    OBVIOUS
  <2>1. CASE OwnNext
    BY <2>1, PutSlotStep, SendSlotsStep, SplitWordStep, KeepSlotsStep DEF OwnNext
  <2>2. CASE UNCHANGED own
    BY <2>2 DEF own, OwnInv, OwnTyped, SlotEnds, WordAt, SplitUpTo, FoundSlots
  <2>. QED
    BY <2>1, <2>2 DEF Next, OwnStep, Show, CatalogStep, vars
<1>. QED
  BY <1>1, <1>2, PTL DEF Spec

\* However the slots of a controller are delimited and whichever of them are
\* empty, each own text is found under the number of its slot, and no number
\* gives the text of another (data.py:120-141, 246).
THEOREM OwnTextsResolve == Spec => []SlotsResolve
<1>1. OwnInv => SlotsResolve
  <2>. SUFFICES ASSUME OwnInv, stage = "decoded", NEW i \in 0..MaxSlots
                PROVE  ResolveTextId(OWN_TEXT_OFFSET + i) =
                            IF i < Len(slots) THEN slots[i + 1] ELSE << >>
    BY DEF SlotsResolve
  <2>1. /\ FoundSlots /\ i \in Nat /\ Len(slots) \in Nat /\ Len(own_text) \in Nat
    BY OwnTextAssumption DEF OwnInv, OwnTyped
  <2>2. PICK id : id = OWN_TEXT_OFFSET + i
    OBVIOUS
  <2>3. id # EMPTY_TEXT_ID /\ id >= OWN_TEXT_OFFSET /\ id - OWN_TEXT_OFFSET = i
    BY <2>1, <2>2 DEF EMPTY_TEXT_ID, OWN_TEXT_OFFSET
  <2>4. ResolveTextId(id) = IF i < Len(own_text) THEN own_text[i + 1] ELSE << >>
    BY <2>3 DEF ResolveTextId
  <2>5. i < Len(own_text) => own_text[i + 1] = slots[i + 1] /\ i < Len(slots)
    BY <2>1 DEF FoundSlots
  <2>6. ~(i < Len(own_text)) /\ i < Len(slots) => slots[i + 1] = << >>
    BY <2>1 DEF FoundSlots
  <2>. QED
    BY <2>2, <2>4, <2>5, <2>6
<1>. QED
  BY <1>1, OwnInvHolds, PTL

-----------------------------------------------------------------------------
(* The expansion of a value: escapes are found where they were written *)

\* The bytes, as if NULs without end came behind them: stripping changes nothing.
Byte(j) == IF j <= Len(bytes) THEN bytes[j] ELSE 0

LEMMA ByteRange == 0 \in AllBytes /\ 255 \in AllBytes /\ \A b \in AllBytes : b \in Nat /\ b <= 255
<1>1. \A n \in Nat : \A b \in 0..n : b \in Nat /\ b <= n
  OBVIOUS
<1>2. \A n \in Nat : 0 \in 0..n /\ n \in 0..n
  OBVIOUS
<1>. QED
  BY <1>1, <1>2 DEF AllBytes

\* The part is in the bytes behind `from`, up to `to`.
PartAt(part, from, to) ==
    \/ to = from + 1 /\ Byte(to) \notin {0, TEXT_INDEX} /\ part = TextPart(Byte(to))
    \/ /\ to = from + 3 /\ Byte(from + 1) = TEXT_INDEX
       /\ Byte(from + 2) \in AllBytes /\ Byte(to) \in AllBytes
       /\ part = IndexPart(Byte(from + 2), Byte(to))

\* The parts end at the places p, one behind the other, and then nothing comes.
PartEnds(p) ==
    /\ p \in [0..Len(written) -> Nat]
    /\ p[0] = 0
    /\ \A k \in 1..Len(written) : PartAt(written[k], p[k - 1], p[k])
    /\ \A k, l \in 0..Len(written) : k < l => p[k] < p[l]
    /\ \A j \in Nat : j > p[Len(written)] => Byte(j) = 0

\* The first k parts that were found are those that were written.
Agree(k) == k <= Len(expanded) /\ \A i \in 1..k : expanded[i] = written[i]

\* The scan stands at the end of a part, or inside an escape at the end of the
\* value that was cut.
InParts(p) ==
    \/ /\ Len(expanded) <= Len(written) /\ at = p[Len(expanded)]
       /\ Agree(Len(expanded))
    \/ EndsInShortIndex /\ Agree(Len(written) - 1)

Stripped == bytes = << >> \/ bytes[Len(bytes)] # 0

ValueInv ==
    /\ ValueTypeOK
    /\ \E p : /\ PartEnds(p)
              /\ phase = "writing" => Len(bytes) = p[Len(written)]
              /\ phase = "scanning" => Stripped /\ InParts(p)
    /\ phase \in {"writing", "stripping"} => at = 0 /\ expanded = << >>
    /\ ExpandsUnlessShortIndexLast

\* What a value looks like that has been stripped: it is whole, unless its last
\* two or one bytes were taken for terminators.
LEMMA StrippedLength ==
    ASSUME ValueTypeOK, NEW p, PartEnds(p), Stripped
    PROVE  LET n == Len(written) IN
           /\ Len(bytes) <= p[n]
           /\ ~EndsInShortIndex => Len(bytes) = p[n]
           /\ EndsInShortIndex => n >= 1 /\ p[n - 1] < Len(bytes)
<1>. DEFINE n == Len(written)
<1>1. /\ n \in Nat /\ Len(bytes) \in Nat /\ p[n] \in Nat /\ p[0] = 0 /\ bytes \in Seq(AllBytes)
  BY DEF ValueTypeOK, PartEnds
<1>2. Len(bytes) <= p[n]
  <2>. SUFFICES ASSUME Len(bytes) > p[n]
                PROVE  FALSE
    BY <1>1
  <2>1. Byte(Len(bytes)) = 0
    BY <1>1 DEF PartEnds
  <2>2. Len(bytes) # 0 /\ bytes # << >>
    BY <1>1
  <2>. QED
    BY <1>1, <2>1, <2>2 DEF Byte, Stripped
<1>3. ASSUME NEW j \in Nat, Byte(j) # 0
      PROVE  j <= Len(bytes)
  BY <1>1, <1>3 DEF Byte
<1>4. n # 0 => /\ n - 1 \in 0..n /\ n \in 1..n /\ p[n - 1] \in Nat
               /\ PartAt(written[n], p[n - 1], p[n])
  BY <1>1 DEF PartEnds
<1>5. EndsInShortIndex => n # 0
  BY <1>1 DEF EndsInShortIndex, ValueTypeOK
<1>6. ASSUME n # 0, EndsInShortIndex
      PROVE  p[n - 1] < Len(bytes)
  <2>1. written[n].what = "index"
    BY <1>6 DEF EndsInShortIndex
  <2>2. Byte(p[n - 1] + 1) = 255
    BY <1>4, <1>6, <2>1 DEF PartAt, TextPart, TEXT_INDEX
  <2>3. p[n - 1] + 1 <= Len(bytes)
    BY <1>3, <1>4, <1>6, <2>2
  <2>. QED
    BY <1>1, <1>4, <1>6, <2>3
<1>7. ASSUME n # 0, ~EndsInShortIndex
      PROVE  p[n] <= Len(bytes)
  <2>1. CASE p[n] = p[n - 1] + 1 /\ Byte(p[n]) # 0
    BY <1>1, <1>3, <2>1
  <2>2. CASE /\ Byte(p[n - 1] + 2) \in AllBytes /\ Byte(p[n]) \in AllBytes
             /\ written[n] = IndexPart(Byte(p[n - 1] + 2), Byte(p[n]))
    <3>1. PICK low, high : low = Byte(p[n - 1] + 2) /\ high = Byte(p[n])
      OBVIOUS
    <3>2. /\ written[n].what = "index" /\ written[n].of = low + 256 * high
          /\ low \in Nat /\ low <= 255 /\ high \in Nat
      BY <2>2, <3>1, ByteRange DEF IndexPart
    <3>3. ~(written[n].of < 256)
      <4>1. written # << >>
        BY <1>1, <1>7
      <4>. QED
        BY <1>7, <3>2, <4>1 DEF EndsInShortIndex
    <3>4. high # 0
      BY <3>2, <3>3
    <3>. QED
      BY <1>1, <1>3, <3>1, <3>4
  <2>. QED
    BY <1>4, <1>7, <2>1, <2>2 DEF PartAt
<1>. QED
  BY <1>1, <1>2, <1>5, <1>6, <1>7

\* The next part, where the scan stands at the end of one.
LEMMA NextPart ==
    ASSUME ValueTypeOK, NEW p, PartEnds(p), Stripped, at < Len(bytes),
           Len(expanded) <= Len(written), at = p[Len(expanded)]
    PROVE  LET k == Len(expanded) + 1 IN
           /\ k \in 1..Len(written)
           /\ AtIndex => /\ written[k] = IndexPart(bytes[at + 2], bytes[at + 3])
                         /\ p[k] = at + 3
           /\ ~AtIndex => \/ written[k] = TextPart(bytes[at + 1]) /\ p[k] = at + 1
                          \/ EndsInShortIndex /\ k = Len(written)
<1>. DEFINE n == Len(written)
            k == Len(expanded) + 1
<1>1. /\ n \in Nat /\ Len(bytes) \in Nat /\ k \in Nat /\ at \in Nat /\ p[n] \in Nat
      /\ Len(expanded) \in Nat
  BY DEF ValueTypeOK, PartEnds
<1>2. /\ Len(bytes) <= p[n]
      /\ ~EndsInShortIndex => Len(bytes) = p[n]
      /\ EndsInShortIndex => n >= 1 /\ p[n - 1] < Len(bytes)
  BY StrippedLength
<1>3. k \in 1..n
  <2>1. Len(expanded) # n
    BY <1>1, <1>2
  <2>. QED
    BY <1>1, <2>1
<1>4. PartAt(written[k], at, p[k]) /\ p[k] \in Nat
  <2>1. k - 1 = Len(expanded) /\ k \in 0..n
    BY <1>1, <1>3
  <2>. QED
    BY <1>3, <2>1 DEF PartEnds
<1>5. \A j \in 1..Len(bytes) : Byte(j) = bytes[j]
  BY <1>1 DEF Byte
<1>6. Byte(at + 1) = bytes[at + 1]
  BY <1>1, <1>5
<1>7. CASE /\ p[k] = at + 1 /\ Byte(p[k]) # TEXT_INDEX /\ written[k] = TextPart(Byte(p[k]))
  <2>2. ~AtIndex
    BY <1>6, <1>7 DEF AtIndex
  <2>. QED
    BY <1>3, <1>6, <1>7, <2>2
<1>8. CASE /\ p[k] = at + 3 /\ Byte(at + 1) = TEXT_INDEX
           /\ written[k] = IndexPart(Byte(at + 2), Byte(p[k]))
  <2>1. CASE at + 3 <= Len(bytes)
    <3>1. AtIndex
      BY <1>1, <1>6, <1>8, <2>1 DEF AtIndex
    <3>2. Byte(at + 2) = bytes[at + 2] /\ Byte(at + 3) = bytes[at + 3]
      BY <1>1, <1>5, <2>1
    <3>. QED
      BY <1>3, <1>8, <3>1, <3>2
  <2>2. CASE ~(at + 3 <= Len(bytes))
    <3>1. ~AtIndex
      BY <1>1, <2>2 DEF AtIndex
    <3>2. p[k] > Len(bytes)
      BY <1>1, <1>8, <2>2
    <3>3. \A i, j \in 0..n : i < j => p[i] < p[j]
      BY DEF PartEnds
    <3>4. ~(k < n /\ ~EndsInShortIndex) /\ ~(k = n /\ ~EndsInShortIndex)
      BY <1>1, <1>2, <1>3, <1>4, <3>2, <3>3
    <3>5. EndsInShortIndex
      BY <1>1, <1>3, <3>4
    <3>6. k = n
      <4>1. CASE k < n - 1
        <5>1. k \in 0..n /\ n - 1 \in 0..n
          BY <1>1, <1>3, <4>1
        <5>2. p[n - 1] \in Nat
          BY <5>1 DEF PartEnds
        <5>. QED
          BY <1>1, <1>2, <1>4, <3>2, <3>3, <3>5, <4>1, <5>1, <5>2
      <4>2. CASE k = n - 1
        BY <1>1, <1>2, <1>4, <3>2, <3>5, <4>2
      <4>. QED
        BY <1>1, <1>3, <4>1, <4>2
    <3>. QED
      BY <1>3, <3>1, <3>5, <3>6
  <2>. QED
    BY <2>1, <2>2
<1>. QED
  BY <1>4, <1>7, <1>8 DEF PartAt

\* A part stays where it is while its bytes do.
LEMMA PartStays ==
    ASSUME NEW part, NEW from \in Nat, NEW to \in Nat, PartAt(part, from, to),
           \A j \in from + 1..to : Byte(j)' = Byte(j)
    PROVE  PartAt(part, from, to)'
<1>1. CASE to = from + 1 /\ Byte(to) \notin {0, TEXT_INDEX} /\ part = TextPart(Byte(to))
  <2>1. Byte(to)' = Byte(to)
    BY <1>1
  <2>. QED
    BY <1>1, <2>1 DEF PartAt, TextPart
<1>2. CASE /\ to = from + 3 /\ Byte(from + 1) = TEXT_INDEX
           /\ Byte(from + 2) \in AllBytes /\ Byte(to) \in AllBytes
           /\ part = IndexPart(Byte(from + 2), Byte(to))
  <2>1. PICK a, b : a = from + 1 /\ b = from + 2
    OBVIOUS
  <2>2. a \in from + 1..to /\ b \in from + 1..to /\ to \in from + 1..to
    BY <1>2, <2>1
  <2>3. Byte(a)' = Byte(a) /\ Byte(b)' = Byte(b) /\ Byte(to)' = Byte(to)
    BY <2>2
  <2>. QED
    BY <1>2, <2>1, <2>3 DEF PartAt, IndexPart
<1>. QED
  BY <1>1, <1>2 DEF PartAt

\* A part is written behind the others.
LEMMA WriteStep ==
    ASSUME ValueInv, phase = "writing", phase' = phase, at' = at, expanded' = expanded,
           NEW part \in ValueParts, written' = Append(written, part),
           NEW more \in Seq(AllBytes), bytes' = bytes \o more,
           \/ Len(more) = 1 /\ more[1] \notin {0, TEXT_INDEX} /\ part = TextPart(more[1])
           \/ Len(more) = 3 /\ more[1] = TEXT_INDEX /\ part = IndexPart(more[2], more[3])
    PROVE  ValueInv'
<1>0. PICK n, b : n = Len(written) /\ b = Len(bytes)
  OBVIOUS
<1>1. PICK p : PartEnds(p) /\ b = p[n]
  BY <1>0 DEF ValueInv
<1>2. /\ n \in Nat /\ b \in Nat /\ bytes \in Seq(AllBytes) /\ written \in Seq(ValueParts)
      /\ at = 0 /\ expanded = << >> /\ Len(more) \in Nat /\ Len(more) >= 1
  BY <1>0 DEF ValueInv, ValueTypeOK
<1>3. /\ written' \in Seq(ValueParts) /\ Len(written') = n + 1 /\ written'[n + 1] = part
      /\ \A k \in 1..n : written'[k] = written[k]
  BY <1>0, <1>2
<1>4. /\ bytes' \in Seq(AllBytes) /\ Len(bytes') = b + Len(more)
      /\ \A j \in 1..b : bytes'[j] = bytes[j]
      /\ \A i \in 1..Len(more) : bytes'[b + i] = more[i]
  BY <1>0, <1>2, Joined
<1>5. PICK q : q = [k \in 0..n + 1 |-> IF k <= n THEN p[k] ELSE b + Len(more)]
  OBVIOUS
<1>6. /\ p \in [0..n -> Nat] /\ p[0] = 0 /\ n \in 0..n /\ b = p[n]
      /\ \A k, l \in 0..n : k < l => p[k] < p[l]
      /\ \A k \in 1..n : PartAt(written[k], p[k - 1], p[k])
  BY <1>0, <1>1, <1>2 DEF PartEnds
<1>7. /\ q \in [0..n + 1 -> Nat] /\ q[n + 1] = b + Len(more)
      /\ \A k \in 0..n : q[k] = p[k] /\ p[k] \in Nat /\ p[k] <= b
  <2>1. ASSUME NEW k \in 0..n
        PROVE  p[k] \in Nat /\ p[k] <= b
    <3>1. p[k] \in Nat /\ p[n] \in Nat
      BY <1>6
    <3>2. k < n => p[k] < p[n]
      BY <1>6
    <3>3. k < n \/ k = n
      BY <1>2
    <3>. QED
      BY <1>2, <1>6, <3>1, <3>2, <3>3
  <2>. QED
    BY <1>2, <1>5, <2>1
<1>8. \A j \in 1..b : Byte(j)' = bytes[j] /\ Byte(j) = bytes[j]
  BY <1>0, <1>2, <1>4 DEF Byte
<1>9. \A i \in 1..Len(more) : Byte(b + i)' = more[i]
  <2>. SUFFICES ASSUME NEW i \in 1..Len(more)
                PROVE  Byte(b + i)' = more[i]
    OBVIOUS
  <2>1. PICK j : j = b + i
    OBVIOUS
  <2>2. j <= Len(bytes') /\ bytes'[j] = more[i]
    BY <1>2, <1>4, <2>1
  <2>3. Byte(j)' = more[i]
    BY <2>2 DEF Byte
  <2>. QED
    BY <2>1, <2>3 DEF Byte
<1>10. ASSUME NEW k \in 1..n
       PROVE  PartAt(written[k], p[k - 1], p[k])'
  <2>1. PICK w, from, to : w = written[k] /\ from = p[k - 1] /\ to = p[k]
    OBVIOUS
  <2>2. k \in 0..n /\ k - 1 \in 0..n
    BY <1>2
  <2>3. from \in Nat /\ to \in Nat /\ to <= b /\ PartAt(w, from, to)
    BY <1>6, <1>7, <2>1, <2>2
  <2>4. \A j \in from + 1..to : j \in 1..b
    BY <1>2, <2>3
  <2>5. PartAt(w, from, to)'
    BY <1>8, <2>3, <2>4, PartStays
  <2>6. written'[k] = w
    BY <1>3, <2>1
  <2>. QED
    BY <2>1, <2>5, <2>6 DEF PartAt
<1>11. PartAt(part, b, b + Len(more))'
  <2>1. Byte(b + 1)' = more[1]
    <3>1. 1 \in 1..Len(more)
      BY <1>2
    <3>2. PICK i : i = 1
      OBVIOUS
    <3>3. Byte(b + i)' = more[i]
      BY <1>9, <3>1, <3>2
    <3>. QED
      BY <3>2, <3>3
  <2>2. CASE Len(more) = 1 /\ more[1] \notin {0, TEXT_INDEX} /\ part = TextPart(more[1])
    <3>1. PICK to : to = b + 1
      OBVIOUS
    <3>2. Byte(to)' = more[1]
      BY <2>1, <3>1
    <3>3. PartAt(part, b, to)'
      BY <2>2, <3>1, <3>2 DEF PartAt
    <3>. QED
      BY <2>2, <3>1, <3>3
  <2>3. CASE Len(more) = 3 /\ more[1] = TEXT_INDEX /\ part = IndexPart(more[2], more[3])
    <3>1. PICK first, second, to : first = b + 1 /\ second = b + 2 /\ to = b + 3
      OBVIOUS
    <3>2. Byte(first)' = more[1] /\ Byte(second)' = more[2] /\ Byte(to)' = more[3]
      BY <1>9, <2>3, <3>1
    <3>3. more[2] \in AllBytes /\ more[3] \in AllBytes
      <4>1. 2 \in 1..Len(more) /\ 3 \in 1..Len(more)
        BY <2>3
      <4>. QED
        BY <4>1, ElementOfSeq
    <3>4. PartAt(part, b, to)'
      BY <2>3, <3>1, <3>2, <3>3 DEF PartAt
    <3>. QED
      BY <2>3, <3>1, <3>4
  <2>. QED
    BY <2>2, <2>3
<1>12. PartEnds(q)'
  <2>1. ASSUME NEW k \in 1..n + 1
        PROVE  PartAt(written[k], q[k - 1], q[k])'
    <3>1. CASE k = n + 1
      <4>1. PICK to : to = b + Len(more)
        OBVIOUS
      <4>2. q[k - 1] = b /\ q[k] = to /\ written'[k] = part
        BY <1>2, <1>3, <1>6, <1>7, <3>1, <4>1
      <4>. QED
        BY <1>11, <4>1, <4>2
    <3>2. CASE k # n + 1
      <4>1. k \in 1..n /\ k \in 0..n /\ k - 1 \in 0..n
        BY <1>2, <3>2
      <4>2. PICK from, to : from = p[k - 1] /\ to = p[k]
        OBVIOUS
      <4>3. q[k - 1] = from /\ q[k] = to /\ PartAt(written[k], from, to)'
        BY <1>7, <1>10, <4>1, <4>2
      <4>. QED
        BY <4>3
    <3>. QED
      BY <3>1, <3>2
  <2>2. ASSUME NEW k \in 0..n + 1, NEW l \in 0..n + 1, k < l
        PROVE  q[k] < q[l]
    <3>1. k \in 0..n /\ q[k] = p[k] /\ q[k] <= b /\ p[k] \in Nat
      BY <1>2, <1>7, <2>2
    <3>2. CASE l = n + 1
      BY <1>2, <1>7, <3>1, <3>2
    <3>3. CASE l # n + 1
      <4>1. l \in 0..n
        BY <1>2, <3>3
      <4>. QED
        BY <1>6, <1>7, <2>2, <3>1, <4>1
    <3>. QED
      BY <3>2, <3>3
  <2>3. ASSUME NEW j \in Nat, j > q[n + 1]
        PROVE  Byte(j)' = 0
    BY <1>2, <1>4, <1>7, <2>3 DEF Byte
  <2>4. q[0] = 0
    BY <1>2, <1>6, <1>7
  <2>. QED
    BY <1>3, <1>7, <2>1, <2>2, <2>3, <2>4 DEF PartEnds, Byte
<1>13. ValueTypeOK'
  BY <1>2, <1>3, <1>4 DEF ValueInv, ValueTypeOK
<1>. QED
  BY <1>2, <1>3, <1>4, <1>7, <1>12, <1>13 DEF ValueInv, ExpandsUnlessShortIndexLast

LEMMA WriteTextStep ==
    ASSUME ValueInv, NEW c \in Characters, WriteText(c)
    PROVE  ValueInv'
<1>1. c \in AllBytes /\ c \in Nat /\ c \notin {0, TEXT_INDEX}
  BY InfoTextAssumption, ByteRange
<1>2. PICK more : more = <<c>>
  OBVIOUS
<1>3. more \in Seq(AllBytes) /\ Len(more) = 1 /\ more[1] = c
  BY <1>1, <1>2
<1>4. TextPart(c) \in ValueParts
  BY <1>1 DEF TextPart, ValueParts
<1>5. bytes' = bytes \o more
  <2>1. bytes \in Seq(AllBytes)
    BY DEF ValueInv, ValueTypeOK
  <2>. QED
    BY <1>1, <1>2, <2>1, AppendProperties DEF WriteText
<1>. QED
  BY <1>1, <1>3, <1>4, <1>5, WriteStep DEF WriteText

LEMMA IndexIsAPart ==
    ASSUME NEW low \in AllBytes, NEW high \in AllBytes
    PROVE  IndexPart(low, high) \in ValueParts
<1>1. low + 256 * high \in Nat
  BY ByteRange
<1>. QED
  BY <1>1 DEF IndexPart, ValueParts

LEMMA WriteIndexStep ==
    ASSUME ValueInv, NEW low \in Low, NEW high \in High, WriteIndex(low, high)
    PROVE  ValueInv'
<1>1. low \in AllBytes /\ high \in AllBytes
  BY InfoTextAssumption
<1>2. PICK more : more = <<TEXT_INDEX, low, high>>
  OBVIOUS
<1>3. /\ more \in Seq(AllBytes) /\ Len(more) = 3
      /\ more[1] = TEXT_INDEX /\ more[2] = low /\ more[3] = high
  <2>1. TEXT_INDEX \in AllBytes
    BY ByteRange DEF TEXT_INDEX
  <2>. QED
    BY <1>1, <1>2, <2>1
<1>4. IndexPart(low, high) \in ValueParts
  BY <1>1, IndexIsAPart
<1>. QED
  BY <1>2, <1>3, <1>4, WriteStep DEF WriteIndex

\* NULs that come behind the value, or go, are not seen.
LEMMA SameBytesStep ==
    ASSUME ValueInv, phase \in {"writing", "stripping"}, phase' \in {"stripping", "scanning"},
           written' = written, at' = at, expanded' = expanded,
           bytes' \in Seq(AllBytes), \A j \in Nat \ {0} : Byte(j)' = Byte(j),
           phase' = "scanning" => Stripped'
    PROVE  ValueInv'
<1>1. PICK p : PartEnds(p)
  BY DEF ValueInv
<1>2. PICK n : n = Len(written)
  OBVIOUS
<1>3. /\ n \in Nat /\ n \in 0..n /\ p \in [0..n -> Nat] /\ at = 0 /\ expanded = << >>
      /\ p[0] = 0 /\ p[n] \in Nat
  BY <1>1, <1>2 DEF ValueInv, ValueTypeOK, PartEnds
<1>4. PartEnds(p)'
  <2>1. ASSUME NEW k \in 1..n
        PROVE  PartAt(written[k], p[k - 1], p[k])'
    <3>1. PICK w, from, to : w = written[k] /\ from = p[k - 1] /\ to = p[k]
      OBVIOUS
    <3>2. k \in 0..n /\ k - 1 \in 0..n
      BY <1>3
    <3>3. from \in Nat /\ to \in Nat /\ PartAt(w, from, to)
      BY <1>1, <1>2, <1>3, <3>1, <3>2 DEF PartEnds
    <3>4. \A j \in from + 1..to : j \in Nat \ {0}
      BY <3>3
    <3>5. PartAt(w, from, to)'
      BY <3>3, <3>4, PartStays
    <3>. QED
      BY <3>1, <3>5 DEF PartAt
  <2>2. ASSUME NEW j \in Nat, j > p[n]
        PROVE  Byte(j)' = 0
    <3>1. Byte(j) = 0 /\ j \in Nat \ {0}
      BY <1>1, <1>2, <1>3, <2>2 DEF PartEnds
    <3>. QED
      BY <3>1
  <2>. QED
    BY <1>1, <1>2, <2>1, <2>2 DEF PartEnds, Byte
<1>5. ValueTypeOK'
  <2>1. 0 \in 0..Len(bytes')
    <3>1. Len(bytes') \in Nat
      OBVIOUS
    <3>. QED
      BY <3>1
  <2>. QED
    BY <1>3, <2>1 DEF ValueInv, ValueTypeOK
<1>6. InParts(p)'
  BY <1>2, <1>3 DEF InParts, Agree
<1>. QED
  BY <1>3, <1>4, <1>5, <1>6 DEF ValueInv, ExpandsUnlessShortIndexLast

LEMMA TerminateStep ==
    ASSUME ValueInv, NEW nuls \in 0..MaxNuls, Terminate(nuls)
    PROVE  ValueInv'
<1>1. PICK z, b : z = [k \in 1..nuls |-> 0] /\ b = Len(bytes)
  OBVIOUS
<1>2. z \in Seq(AllBytes) /\ Len(z) = nuls /\ nuls \in Nat /\ \A k \in 1..nuls : z[k] = 0
  BY <1>1, InfoTextAssumption, ByteRange
<1>3. bytes \in Seq(AllBytes) /\ b \in Nat
  BY <1>1 DEF ValueInv, ValueTypeOK
<1>4. /\ bytes' \in Seq(AllBytes) /\ Len(bytes') = b + nuls
      /\ \A j \in 1..b : bytes'[j] = bytes[j]
      /\ \A i \in 1..nuls : bytes'[b + i] = 0
  BY <1>1, <1>2, <1>3, Joined DEF Terminate
<1>5. ASSUME NEW j \in Nat \ {0}
      PROVE  Byte(j)' = Byte(j)
  <2>1. CASE j <= b
    BY <1>1, <1>2, <1>3, <1>4, <2>1 DEF Byte
  <2>2. CASE j > b /\ j <= b + nuls
    <3>1. j - b \in 1..nuls /\ b + (j - b) = j
      BY <1>2, <1>3, <2>2
    <3>2. bytes'[j] = 0
      BY <1>4, <3>1
    <3>. QED
      BY <1>1, <1>3, <1>4, <2>2, <3>2 DEF Byte
  <2>3. CASE j > b + nuls
    BY <1>1, <1>2, <1>3, <1>4, <2>3 DEF Byte
  <2>. QED
    BY <1>2, <1>3, <2>1, <2>2, <2>3
<1>. QED
  BY <1>4, <1>5, SameBytesStep DEF Terminate

LEMMA StripStep ==
    ASSUME ValueInv, Strip
    PROVE  ValueInv'
<1>1. bytes \in Seq(AllBytes) /\ Len(bytes) \in Nat
  BY DEF ValueInv, ValueTypeOK
<1>2. CASE bytes # << >> /\ bytes[Len(bytes)] = 0
  <2>1. bytes' = SubSeq(bytes, 1, Len(bytes) - 1) /\ phase' = phase /\ phase = "stripping"
    BY <1>2 DEF Strip
  <2>2. /\ bytes' \in Seq(AllBytes) /\ Len(bytes') = Len(bytes) - 1
        /\ \A j \in 1..Len(bytes) - 1 : bytes'[j] = bytes[j]
    BY <1>1, <1>2, <2>1, Dropped
  <2>3. ASSUME NEW j \in Nat \ {0}
        PROVE  Byte(j)' = Byte(j)
    <3>1. CASE j <= Len(bytes) - 1
      BY <1>1, <2>2, <3>1 DEF Byte
    <3>2. CASE j = Len(bytes)
      BY <1>1, <1>2, <2>2, <3>2 DEF Byte
    <3>3. CASE j > Len(bytes)
      BY <1>1, <2>2, <3>3 DEF Byte
    <3>. QED
      BY <1>1, <3>1, <3>2, <3>3
  <2>. QED
    BY <2>1, <2>2, <2>3, SameBytesStep DEF Strip
<1>3. CASE ~(bytes # << >> /\ bytes[Len(bytes)] = 0)
  <2>1. bytes' = bytes /\ phase' = "scanning" /\ phase = "stripping"
    BY <1>3 DEF Strip
  <2>2. \A j \in Nat \ {0} : Byte(j)' = Byte(j)
    BY <2>1 DEF Byte
  <2>3. Stripped'
    BY <1>3, <2>1 DEF Stripped
  <2>. QED
    BY <1>1, <2>1, <2>2, <2>3, SameBytesStep DEF Strip
<1>. QED
  BY <1>2, <1>3

\* A part is found behind the others.
LEMMA FindStep ==
    ASSUME ValueInv, phase = "scanning", UNCHANGED <<phase, written, bytes>>,
           at < Len(bytes), NEW part \in ValueParts, expanded' = Append(expanded, part),
           at' \in 0..Len(bytes),
           AtIndex => part = IndexPart(bytes[at + 2], bytes[at + 3]) /\ at' = at + 3,
           ~AtIndex => part = TextPart(bytes[at + 1]) /\ at' = at + 1
    PROVE  ValueInv'
<1>1. PICK p : PartEnds(p) /\ Stripped /\ InParts(p)
  BY DEF ValueInv
<1>2. PICK n, m, k : n = Len(written) /\ m = Len(expanded) /\ k = m + 1
  OBVIOUS
<1>3. /\ n \in Nat /\ m \in Nat /\ k \in Nat /\ ValueTypeOK
      /\ expanded \in Seq(ValueParts) /\ written \in Seq(ValueParts)
  BY <1>2 DEF ValueInv, ValueTypeOK
<1>4. /\ expanded' \in Seq(ValueParts) /\ Len(expanded') = k /\ expanded'[k] = part
      /\ \A i \in 1..m : expanded'[i] = expanded[i]
  BY <1>2, <1>3
<1>5. ValueTypeOK'
  BY <1>3, <1>4 DEF ValueTypeOK
<1>6. PartEnds(p)' /\ Stripped'
  BY <1>1 DEF PartEnds, PartAt, Byte, Stripped
<1>7. EndsInShortIndex' = EndsInShortIndex
  BY DEF EndsInShortIndex
<1>8. CASE EndsInShortIndex /\ Agree(n - 1)
  <2>1. Agree(n - 1)'
    <3>1. n - 1 <= m /\ \A i \in 1..n - 1 : expanded[i] = written[i]
      BY <1>2, <1>8 DEF Agree
    <3>2. \A i \in 1..n - 1 : i \in 1..m
      BY <1>3, <3>1
    <3>. QED
      BY <1>2, <1>3, <1>4, <3>1, <3>2 DEF Agree
  <2>2. InParts(p)'
    <3>1. Len(written') - 1 = n - 1
      BY <1>2
    <3>. QED
      BY <1>7, <1>8, <2>1, <3>1 DEF InParts, Agree
  <2>. QED
    BY <1>5, <1>6, <2>2 DEF ValueInv, ExpandsUnlessShortIndexLast
<1>9. CASE m <= n /\ at = p[m] /\ Agree(m)
  <2>1. /\ k \in 1..n
        /\ AtIndex => written[k] = part /\ p[k] = at'
        /\ ~AtIndex => \/ written[k] = part /\ p[k] = at'
                       \/ EndsInShortIndex /\ k = n
    BY <1>1, <1>2, <1>3, <1>9, NextPart
  <2>2. CASE written[k] = part /\ p[k] = at'
    <3>1. Agree(k)'
      <4>1. \A i \in 1..k : i = k \/ i \in 1..m
        BY <1>2, <1>3
      <4>. QED
        BY <1>2, <1>4, <1>9, <2>2, <4>1 DEF Agree
    <3>2. InParts(p)'
      BY <1>2, <1>4, <2>1, <2>2, <3>1 DEF InParts, Agree
    <3>. QED
      BY <1>5, <1>6, <3>2 DEF ValueInv, ExpandsUnlessShortIndexLast
  <2>3. CASE EndsInShortIndex /\ k = n
    <3>1. Agree(n - 1)'
      BY <1>2, <1>3, <1>4, <1>9, <2>3 DEF Agree
    <3>2. InParts(p)'
      BY <1>2, <1>7, <2>3, <3>1 DEF InParts, Agree
    <3>. QED
      BY <1>5, <1>6, <3>2 DEF ValueInv, ExpandsUnlessShortIndexLast
  <2>. QED
    BY <2>1, <2>2, <2>3
<1>. QED
  BY <1>1, <1>2, <1>8, <1>9 DEF InParts

LEMMA ExpandStep ==
    ASSUME ValueInv, Expand
    PROVE  ValueInv'
<1>1. bytes \in Seq(AllBytes) /\ Len(bytes) \in Nat /\ at \in Nat
  BY DEF ValueInv, ValueTypeOK
<1>2. at + 3 \in 0..Len(bytes) /\ at + 2 \in 1..Len(bytes) /\ at + 3 \in 1..Len(bytes)
  BY <1>1 DEF Expand, AtIndex
<1>3. PICK low, high : low = bytes[at + 2] /\ high = bytes[at + 3]
  OBVIOUS
<1>4. low \in AllBytes /\ high \in AllBytes
  BY <1>1, <1>2, <1>3, ElementOfSeq
<1>6. IndexPart(low, high) \in ValueParts
  BY <1>4, IndexIsAPart
<1>. QED
  BY <1>2, <1>3, <1>6, FindStep DEF Expand

LEMMA CopyStep ==
    ASSUME ValueInv, Copy
    PROVE  ValueInv'
<1>1. bytes \in Seq(AllBytes) /\ Len(bytes) \in Nat /\ at \in Nat
  BY DEF ValueInv, ValueTypeOK
<1>2. at + 1 \in 0..Len(bytes) /\ at + 1 \in 1..Len(bytes)
  BY <1>1 DEF Copy
<1>3. PICK c : c = bytes[at + 1]
  OBVIOUS
<1>4. c \in Nat
  BY <1>1, <1>2, <1>3, ElementOfSeq, ByteRange
<1>5. TextPart(c) \in ValueParts
  BY <1>4 DEF TextPart, ValueParts
<1>. QED
  BY <1>2, <1>3, <1>5, FindStep DEF Copy

\* Where the scan ends all parts have been found, or all but a short index.
LEMMA ReturnStep ==
    ASSUME ValueInv, Return
    PROVE  ValueInv'
<1>1. PICK p : PartEnds(p) /\ Stripped /\ InParts(p)
  BY DEF ValueInv, Return
<1>2. PICK n, m : n = Len(written) /\ m = Len(expanded)
  OBVIOUS
<1>3. /\ n \in Nat /\ m \in Nat /\ ValueTypeOK /\ at \in Nat /\ Len(bytes) \in Nat
      /\ expanded \in Seq(ValueParts) /\ written \in Seq(ValueParts) /\ at >= Len(bytes)
  BY <1>2 DEF ValueInv, ValueTypeOK, Return
<1>4. /\ Len(bytes) <= p[n]
      /\ ~EndsInShortIndex => Len(bytes) = p[n]
      /\ EndsInShortIndex => n >= 1 /\ p[n - 1] < Len(bytes)
  BY <1>1, <1>2, <1>3, StrippedLength
<1>5. p \in [0..n -> Nat] /\ \A k, l \in 0..n : k < l => p[k] < p[l]
  BY <1>1, <1>2 DEF PartEnds
<1>0. SUFFICES IF EndsInShortIndex THEN Agree(n - 1) ELSE expanded = written
  <2>1. phase = "scanning" /\ phase' = "returned" /\ UNCHANGED <<written, bytes, at, expanded>>
    BY DEF Return
  <2>2. ValueTypeOK'
    BY <1>3, <2>1 DEF ValueTypeOK
  <2>3. PartEnds(p)'
    BY <1>1, <2>1 DEF PartEnds, PartAt, Byte
  <2>4. EndsInShortIndex' = EndsInShortIndex
    BY <2>1 DEF EndsInShortIndex
  <2>5. ExpandsUnlessShortIndexLast'
    <3>1. Agree(n - 1) => \A k \in 1..n - 1 : k <= m /\ expanded[k] = written[k]
      BY <1>2, <1>3 DEF Agree
    <3>. QED
      BY <1>2, <2>1, <2>4, <3>1 DEF ExpandsUnlessShortIndexLast
  <2>. QED
    BY <2>1, <2>2, <2>3, <2>5 DEF ValueInv
<1>6. CASE m <= n /\ at = p[m] /\ Agree(m)
  <2>1. m \in 0..n /\ n \in 0..n /\ p[m] \in Nat /\ p[n] \in Nat
    BY <1>3, <1>5, <1>6
  <2>2. ASSUME ~EndsInShortIndex
        PROVE  expanded = written
    <3>1. m = n
      BY <1>3, <1>4, <1>5, <1>6, <2>1, <2>2
    <3>. QED
      BY <1>2, <1>3, <1>6, <3>1, SeqEqual DEF Agree
  <2>3. ASSUME EndsInShortIndex
        PROVE  Agree(n - 1)
    <3>1. m >= n - 1
      <4>1. n - 1 \in 0..n /\ p[n - 1] \in Nat
        <5>1. n - 1 \in 0..n
          BY <1>3, <1>4, <2>3
        <5>. QED
          BY <1>5, <5>1
      <4>2. m < n - 1 => p[m] < p[n - 1]
        BY <1>5, <2>1, <4>1
      <4>. QED
        BY <1>3, <1>4, <1>6, <2>1, <2>3, <4>1, <4>2
    <3>2. \A i \in 1..n - 1 : i \in 1..m
      BY <1>3, <3>1
    <3>. QED
      BY <1>2, <1>6, <3>1, <3>2 DEF Agree
  <2>. QED
    BY <2>2, <2>3
<1>7. CASE EndsInShortIndex /\ Agree(n - 1)
  BY <1>7
<1>. QED
  BY <1>1, <1>2, <1>6, <1>7 DEF InParts

\* A value comes out of its expansion part by part as it was written, whatever
\* bytes its indices have and however many NULs come behind it: but for an index
\* below 256 at its end, whose high byte goes with them (data.py:222-243).
THEOREM ValuesExpand == ValueSpec => []ExpandsUnlessShortIndexLast
<1>1. ValueInit => ValueInv
  <2>. SUFFICES ASSUME ValueInit
                PROVE  ValueInv
    OBVIOUS
  <2>1. /\ written = << >> /\ bytes = << >> /\ Len(written) = 0 /\ Len(bytes) = 0 /\ at = 0
        /\ phase = "writing" /\ expanded = << >>
    BY DEF ValueInit
  <2>2. PICK p : p = [k \in {0} |-> 0]
    OBVIOUS
  <2>3. PartEnds(p) /\ p[0] = 0
    <3>1. 0..0 = {0} /\ 1..0 = {} /\ p \in [{0} -> Nat] /\ p[0] = 0
      BY <2>2
    <3>2. \A j \in Nat : j > 0 => Byte(j) = 0
      BY <2>1 DEF Byte
    <3>. QED
      BY <2>1, <3>1, <3>2 DEF PartEnds
  <2>4. ValueTypeOK
    BY <2>1 DEF ValueTypeOK
  <2>. QED
    BY <2>1, <2>3, <2>4 DEF ValueInv, ExpandsUnlessShortIndexLast
<1>2. ValueInv /\ [ValueNext]_expansion => ValueInv'
  <2>1. ASSUME ValueInv, UNCHANGED expansion
        PROVE  ValueInv'
    <3>1. UNCHANGED <<phase, written, bytes, at, expanded>>
      BY <2>1 DEF expansion
    <3>2. PICK p : /\ PartEnds(p)
                   /\ phase = "writing" => Len(bytes) = p[Len(written)]
                   /\ phase = "scanning" => Stripped /\ InParts(p)
      BY <2>1 DEF ValueInv
    <3>3. PartEnds(p)' /\ Stripped' = Stripped
      BY <3>1, <3>2 DEF PartEnds, PartAt, Byte, Stripped
    <3>4. EndsInShortIndex' = EndsInShortIndex
      BY <3>1 DEF EndsInShortIndex
    <3>5. InParts(p) => InParts(p)'
      BY <3>1, <3>4 DEF InParts, Agree
    <3>6. ValueTypeOK' /\ ExpandsUnlessShortIndexLast'
      BY <2>1, <3>1, <3>4 DEF ValueInv, ValueTypeOK, ExpandsUnlessShortIndexLast
    <3>. QED
      BY <2>1, <3>1, <3>2, <3>3, <3>5, <3>6 DEF ValueInv
  <2>. QED
    BY <2>1, WriteTextStep, WriteIndexStep, TerminateStep, StripStep, ExpandStep, CopyStep,
       ReturnStep DEF ValueNext
<1>3. ValueInv => ExpandsUnlessShortIndexLast
  BY DEF ValueInv
<1>. QED
  BY <1>1, <1>2, <1>3, PTL DEF ValueSpec

-----------------------------------------------------------------------------
(* The names of a row: the parts are told apart *)

\* The words of a text.
Said(text) == {text[i] : i \in 1..Len(text)}

Wordings(texts) ==
    texts.caption \in Seq(Words) /\ texts.text_a \in Seq(Words) /\ texts.text_b \in Seq(Words)

\* Both sides of a separator say something, and nothing but what the text says.
LEMMA Halves ==
    ASSUME NEW text \in Seq(Words), NEW separator, Has(text, separator)
    PROVE  /\ Before(text, separator) \in Seq(Words) /\ After(text, separator) \in Seq(Words)
           /\ Before(text, separator) # << >> /\ After(text, separator) # << >>
           /\ Said(Before(text, separator)) \subseteq Said(text)
           /\ Said(After(text, separator)) \subseteq Said(text)
           /\ separator \in Words
<1>. DEFINE places == {i \in 2..Len(text) - 1 : text[i] = separator}
<1>1. PICK n, p : n = Len(text) /\ p = Place(text, separator)
  OBVIOUS
<1>2. n \in Nat
  BY <1>1
<1>3. p \in 2..n - 1 /\ text[p] = separator
  <2>1. places # {} /\ p = Min(places)
    BY <1>1 DEF Has, Place
  <2>2. places \subseteq Nat
    BY <1>1, <1>2
  <2>3. Min(places) \in places
    BY <2>1, <2>2, SmallestColumn
  <2>. QED
    BY <1>1, <2>1, <2>3
<1>4. PICK left, right : left = Before(text, separator) /\ right = After(text, separator)
  OBVIOUS
<1>5. /\ left \in Seq(Words) /\ Len(left) = p - 1
      /\ \A j \in 1..p - 1 : left[j] = text[j]
  <2>1. left = SubSeq(text, 1, p - 1)
    BY <1>1, <1>4 DEF Before
  <2>2. \A j \in 1..p - 1 : j \in 1..n
    BY <1>2, <1>3
  <2>3. \A j \in 1..p - 1 : text[j] \in Words
    BY <1>1, <2>2, ElementOfSeq
  <2>4. 1 \in Int /\ p - 1 \in Int /\ 1 <= p - 1 /\ p - 1 - 1 + 1 = p - 1
    BY <1>2, <1>3
  <2>5. /\ left \in Seq(Words)
        /\ Len(left) = IF 1 <= p - 1 THEN p - 1 - 1 + 1 ELSE 0
        /\ \A j \in 1..p - 1 - 1 + 1 : left[j] = text[1 + j - 1]
    BY <2>1, <2>3, <2>4, SubSeqProperties
  <2>6. \A j \in 1..p - 1 : 1 + j - 1 = j
    OBVIOUS
  <2>. QED
    BY <2>4, <2>5, <2>6
<1>6. /\ right \in Seq(Words) /\ Len(right) = n - p
      /\ \A j \in 1..n - p : right[j] = text[p + j]
  <2>1. right = SubSeq(text, p + 1, n)
    BY <1>1, <1>4 DEF After
  <2>2. \A j \in p + 1..n : j \in 1..n
    BY <1>2, <1>3
  <2>3. \A j \in p + 1..n : text[j] \in Words
    BY <1>1, <2>2, ElementOfSeq
  <2>4. p + 1 \in Int /\ n \in Int /\ p + 1 <= n /\ n - (p + 1) + 1 = n - p
    BY <1>2, <1>3
  <2>5. /\ right \in Seq(Words)
        /\ Len(right) = IF p + 1 <= n THEN n - (p + 1) + 1 ELSE 0
        /\ \A j \in 1..n - (p + 1) + 1 : right[j] = text[p + 1 + j - 1]
    BY <2>1, <2>3, <2>4, SubSeqProperties
  <2>6. \A j \in 1..n - p : p + 1 + j - 1 = p + j
    BY <1>2, <1>3
  <2>. QED
    BY <2>4, <2>5, <2>6
<1>7. left # << >> /\ right # << >>
  BY <1>2, <1>3, <1>5, <1>6
<1>8. Said(left) \subseteq Said(text)
  <2>1. \A j \in 1..p - 1 : j \in 1..n
    BY <1>2, <1>3
  <2>. QED
    BY <1>1, <1>5, <2>1 DEF Said
<1>9. Said(right) \subseteq Said(text)
  <2>1. \A j \in 1..n - p : p + j \in 1..n
    BY <1>2, <1>3
  <2>. QED
    BY <1>1, <1>6, <2>1 DEF Said
<1>10. separator \in Words
  <2>1. p \in 1..n
    BY <1>2, <1>3
  <2>. QED
    BY <1>1, <1>3, <2>1, ElementOfSeq
<1>. QED
  BY <1>4, <1>5, <1>6, <1>7, <1>8, <1>9, <1>10

\* Two texts together say what each of them says.
LEMMA SaidTogether ==
    ASSUME NEW S, NEW s \in Seq(S), NEW t \in Seq(S)
    PROVE  Said(s \o t) = Said(s) \cup Said(t)
<1>1. PICK m, n : m = Len(s) /\ n = Len(t)
  OBVIOUS
<1>2. m \in Nat /\ n \in Nat
  BY <1>1, LenProperties
<1>3. /\ Len(s \o t) = m + n
      /\ \A j \in 1..m : (s \o t)[j] = s[j]
      /\ \A i \in 1..n : (s \o t)[m + i] = t[i]
  BY <1>1, Joined
<1>4. \A j \in 1..m : j \in 1..m + n
  BY <1>2
<1>5. \A i \in 1..n : m + i \in 1..m + n
  BY <1>2
<1>6. ASSUME NEW j \in 1..m + n
      PROVE  j \in 1..m \/ \E i \in 1..n : j = m + i
  <2>1. CASE j <= m
    BY <1>2, <2>1
  <2>2. CASE j > m
    <3>1. j - m \in 1..n /\ j = m + (j - m)
      BY <1>2, <2>2
    <3>. QED
      BY <3>1
  <2>. QED
    BY <1>2, <2>1, <2>2
<1>7. Said(s \o t) \subseteq Said(s) \cup Said(t)
  BY <1>1, <1>3, <1>6 DEF Said
<1>8. Said(s) \subseteq Said(s \o t)
  BY <1>1, <1>3, <1>4 DEF Said
<1>9. Said(t) \subseteq Said(s \o t)
  BY <1>1, <1>3, <1>5 DEF Said
<1>. QED
  BY <1>7, <1>8, <1>9

\* A numbered name is longer than what it numbers, and says so in parentheses.
LEMMA NumberedNames ==
    ASSUME NEW S, NEW base \in Seq(S), {"(", ")", "1", "2"} \subseteq S,
           NEW k \in {1, 2}
    PROVE  LET name == Numbered(base)[k] IN
           /\ name \in Seq(S) /\ Len(base) \in Nat /\ Len(name) = Len(base) + 3
           /\ \A j \in 1..Len(base) : name[j] = base[j]
           /\ name[Len(base) + 1] = "("
           /\ name[Len(base) + 2] = IF k = 1 THEN "1" ELSE "2"
           /\ "(" \in Said(name)
<1>1. PICK digit : digit = IF k = 1 THEN "1" ELSE "2"
  OBVIOUS
<1>2. PICK tail, name : tail = <<"(", digit, ")">> /\ name = Numbered(base)[k]
  OBVIOUS
<1>3. name = base \o tail
  <2>1. CASE k = 1
    <3>1. digit = "1"
      BY <1>1, <2>1
    <3>2. Numbered(base)[1] = base \o <<"(", "1", ")">>
      BY DEF Numbered
    <3>. QED
      BY <1>2, <2>1, <3>1, <3>2
  <2>2. CASE k = 2
    <3>1. digit = "2"
      BY <1>1, <2>2
    <3>2. Numbered(base)[2] = base \o <<"(", "2", ")">>
      BY DEF Numbered
    <3>. QED
      BY <1>2, <2>2, <3>1, <3>2
  <2>. QED
    BY <2>1, <2>2
<1>4. tail \in Seq(S) /\ Len(tail) = 3 /\ tail[1] = "(" /\ tail[2] = digit
  BY <1>1, <1>2
<1>5. /\ name \in Seq(S) /\ Len(base) \in Nat /\ Len(name) = Len(base) + 3
      /\ \A j \in 1..Len(base) : name[j] = base[j]
      /\ name[Len(base) + 1] = "("
      /\ name[Len(base) + 2] = digit
  <2>1. /\ base \o tail \in Seq(S) /\ Len(base) \in Nat
        /\ Len(base \o tail) = Len(base) + Len(tail)
        /\ \A j \in 1..Len(base) : (base \o tail)[j] = base[j]
        /\ \A i \in 1..Len(tail) : (base \o tail)[Len(base) + i] = tail[i]
    BY <1>4, Joined
  <2>2. 1 \in 1..Len(tail) /\ 2 \in 1..Len(tail)
    BY <1>4
  <2>3. (base \o tail)[Len(base) + 1] = tail[1] /\ (base \o tail)[Len(base) + 2] = tail[2]
    BY <2>1, <2>2
  <2>4. Len(base \o tail) = Len(base) + 3
    BY <1>4, <2>1
  <2>. QED
    BY <1>3, <1>4, <2>1, <2>3, <2>4
<1>6. "(" \in Said(name)
  <2>1. Len(base) + 1 \in 1..Len(name)
    BY <1>5
  <2>. QED
    BY <1>5, <2>1 DEF Said
<1>. QED
  BY <1>1, <1>2, <1>5, <1>6

\* The first text that is there, or "Info".
LEMMA FirstText ==
    ASSUME NEW texts \in Seq(Seq(Words))
    PROVE  /\ FirstOf(texts) \in Seq(Words) /\ FirstOf(texts) # << >>
           /\ FirstOf(texts) = <<"Info">> \/ \E i \in 1..Len(texts) : FirstOf(texts) = texts[i]
<1>. DEFINE there == {i \in DOMAIN texts : texts[i] # << >>}
<1>1. "Info" \in Words
  BY DEF Words
<1>2. <<"Info">> \in Seq(Words) /\ <<"Info">> # << >>
  BY <1>1
<1>3. CASE there = {}
  <2>1. FirstOf(texts) = <<"Info">>
    BY <1>3 DEF FirstOf
  <2>. QED
    BY <1>2, <2>1
<1>4. CASE there # {}
  <2>1. FirstOf(texts) = texts[Min(there)]
    BY <1>4 DEF FirstOf
  <2>2. there \subseteq Nat /\ DOMAIN texts = 1..Len(texts)
    OBVIOUS
  <2>3. Min(there) \in there
    BY <1>4, <2>2, SmallestColumn
  <2>4. PICK i : i = Min(there)
    OBVIOUS
  <2>5. i \in 1..Len(texts) /\ texts[i] # << >> /\ FirstOf(texts) = texts[i]
    BY <2>1, <2>2, <2>3, <2>4
  <2>6. texts[i] \in Seq(Words)
    BY <2>5, ElementOfSeq
  <2>. QED
    BY <2>5, <2>6
<1>. QED
  BY <1>3, <1>4

\* A half that is qualified by the other one is longer, and says so in parentheses.
LEMMA QualifiedNames ==
    ASSUME NEW S, "(" \in S, ")" \in S, NEW left \in Seq(S), NEW right \in Seq(S)
    PROVE  LET name == left \o <<"(">> \o right \o <<")">> IN
           /\ name \in Seq(S) /\ Len(left) \in Nat /\ Len(right) \in Nat
           /\ Len(name) = Len(left) + Len(right) + 2
           /\ \A j \in 1..Len(left) : name[j] = left[j]
           /\ name[Len(left) + 1] = "("
           /\ \A i \in 1..Len(right) : name[Len(left) + 1 + i] = right[i]
<1>1. PICK open, close : open = <<"(">> /\ close = <<")">>
  OBVIOUS
<1>2. /\ open \in Seq(S) /\ close \in Seq(S) /\ Len(open) = 1 /\ Len(close) = 1
      /\ open[1] = "("
  BY <1>1
<1>3. PICK s : s = left \o open
  OBVIOUS
<1>4. PICK t : t = s \o right
  OBVIOUS
<1>5. PICK name : name = t \o close
  OBVIOUS
<1>6. PICK m, n : m = Len(left) /\ n = Len(right)
  OBVIOUS
<1>7. m \in Nat /\ n \in Nat
  BY <1>6, LenProperties
<1>8. /\ s \in Seq(S) /\ Len(s) = m + Len(open) /\ \A j \in 1..m : s[j] = left[j]
      /\ \A i \in 1..Len(open) : s[m + i] = open[i]
  <2>1. /\ left \o open \in Seq(S) /\ Len(left \o open) = Len(left) + Len(open)
        /\ \A j \in 1..Len(left) : (left \o open)[j] = left[j]
        /\ \A i \in 1..Len(open) : (left \o open)[Len(left) + i] = open[i]
    <3>1. open \in Seq(S)
      BY <1>2
    <3>. QED
      BY <3>1, Joined
  <2>. QED
    BY <1>3, <1>6, <2>1
<1>9. Len(s) = m + 1 /\ s[m + 1] = "("
  <2>1. 1 \in 1..Len(open)
    BY <1>2
  <2>. QED
    BY <1>2, <1>8, <2>1
<1>10. /\ t \in Seq(S) /\ Len(t) = Len(s) + n /\ \A j \in 1..Len(s) : t[j] = s[j]
       /\ \A i \in 1..n : t[Len(s) + i] = right[i]
  <2>1. /\ s \o right \in Seq(S) /\ Len(s \o right) = Len(s) + Len(right)
        /\ \A j \in 1..Len(s) : (s \o right)[j] = s[j]
        /\ \A i \in 1..Len(right) : (s \o right)[Len(s) + i] = right[i]
    <3>1. s \in Seq(S)
      BY <1>8
    <3>. QED
      BY <3>1, Joined
  <2>. QED
    BY <1>4, <1>6, <2>1
<1>11. /\ name \in Seq(S) /\ Len(name) = Len(t) + Len(close)
       /\ \A j \in 1..Len(t) : name[j] = t[j]
  <2>1. close \in Seq(S) /\ t \in Seq(S)
    BY <1>2, <1>10
  <2>2. /\ t \o close \in Seq(S) /\ Len(t \o close) = Len(t) + Len(close)
        /\ \A j \in 1..Len(t) : (t \o close)[j] = t[j]
    BY <2>1, Joined
  <2>. QED
    BY <1>5, <2>2
<1>12. Len(t) = m + 1 + n /\ Len(name) = m + n + 2
  BY <1>2, <1>7, <1>9, <1>10, <1>11
<1>13. \A j \in 1..m : name[j] = left[j]
  <2>1. \A j \in 1..m : j \in 1..m + 1 /\ j \in 1..m + 1 + n
    BY <1>7
  <2>. QED
    BY <1>8, <1>9, <1>10, <1>11, <1>12, <2>1
<1>14. name[m + 1] = "("
  <2>1. m + 1 \in 1..m + 1 /\ m + 1 \in 1..m + 1 + n
    BY <1>7
  <2>. QED
    BY <1>9, <1>10, <1>11, <1>12, <2>1
<1>15. \A i \in 1..n : name[m + 1 + i] = right[i]
  <2>1. \A i \in 1..n : m + 1 + i \in 1..m + 1 + n
    BY <1>7
  <2>. QED
    BY <1>9, <1>10, <1>11, <1>12, <2>1
<1>16. name = left \o <<"(">> \o right \o <<")">>
  BY <1>1, <1>3, <1>4, <1>5
<1>. QED
  BY <1>6, <1>7, <1>11, <1>12, <1>13, <1>14, <1>15, <1>16

\* What the panel calls the halves of a row differs, unless it says the same twice.
LEMMA PairsDiffer ==
    ASSUME NEW texts, Wordings(texts), ~SameTexts(texts)
    PROVE  \E one, two \in Seq(Words) :
                /\ PairNames(texts) = <<one, two>>
                /\ one # << >> /\ two # << >> /\ one # two
<1>. DEFINE caption == texts.caption
            left == Before(caption, "/")
            right == After(caption, "/")
<1>1. /\ caption \in Seq(Words) /\ texts.text_a \in Seq(Words) /\ texts.text_b \in Seq(Words)
      /\ {"(", ")", "1", "2"} \subseteq Words
  BY DEF Wordings, Words
<1>2. CASE Dashed(caption)
  <2>1. PICK tail : tail = After(caption, "-")
    OBVIOUS
  <2>2. Has(caption, "-") /\ Has(tail, "/")
    BY <1>2, <2>1 DEF Dashed
  <2>3. Before(caption, "-") \in Seq(Words) /\ tail \in Seq(Words) /\ "-" \in Words
    BY <1>1, <2>1, <2>2, Halves
  <2>4. PICK head : head = Append(Before(caption, "-"), "-")
    OBVIOUS
  <2>5. head \in Seq(Words)
    BY <2>3, <2>4, AppendProperties
  <2>6. PICK s, t : s = Before(tail, "/") /\ t = After(tail, "/")
    OBVIOUS
  <2>7. s \in Seq(Words) /\ t \in Seq(Words) /\ s # << >> /\ t # << >>
    BY <2>2, <2>3, <2>6, Halves
  <2>8. s # t
    BY <2>1, <2>2, <2>6 DEF SameTexts, Twin
  <2>9. head \o s # head \o t
    <3>1. \A S : \A x, y, z \in Seq(S) : x \o y = x \o z => y = z
      BY ConcatSimplifications
    <3>. QED
      BY <2>5, <2>7, <2>8, <3>1
  <2>10. head \o s \in Seq(Words) /\ head \o t \in Seq(Words)
    BY <2>5, <2>7, ConcatProperties
  <2>11. head \o s # << >> /\ head \o t # << >>
    <3>1. \A S : \A x, y \in Seq(S) : x \o y = << >> => x = << >> /\ y = << >>
      BY ConcatSimplifications
    <3>. QED
      BY <2>5, <2>7, <3>1
  <2>12. PairNames(texts) = <<head \o s, head \o t>>
    BY <1>2, <2>1, <2>4, <2>6 DEF PairNames, DashedNames
  <2>. QED
    BY <2>9, <2>10, <2>11, <2>12
<1>3. CASE ~Dashed(caption) /\ Halved(caption)
  <2>1. Has(caption, "/")
    BY <1>3 DEF Halved
  <2>2. PICK s, t : s = left /\ t = right
    OBVIOUS
  <2>3. s \in Seq(Words) /\ t \in Seq(Words) /\ s # << >> /\ t # << >>
    BY <1>1, <2>1, <2>2, Halves
  <2>4. s # t
    BY <2>1, <2>2 DEF SameTexts, Twin
  <2>5. PairNames(texts) = <<s, QualifyShortHalf(s, t)>>
    BY <1>3, <2>2 DEF PairNames
  <2>6. CASE Abbreviated(s, t)
    <3>1. PICK name : name = s \o <<"(">> \o t \o <<")">>
      OBVIOUS
    <3>2. name \in Seq(Words) /\ Len(s) \in Nat /\ Len(t) \in Nat /\ Len(name) = Len(s) + Len(t) + 2
      BY <1>1, <2>3, <3>1, QualifiedNames
    <3>3. name # << >> /\ name # s
      BY <3>2
    <3>4. PairNames(texts) = <<s, name>>
      BY <2>5, <2>6, <3>1 DEF QualifyShortHalf
    <3>. QED
      BY <2>3, <3>2, <3>3, <3>4
  <2>7. CASE ~Abbreviated(s, t)
    <3>1. PairNames(texts) = <<s, t>>
      BY <2>5, <2>7 DEF QualifyShortHalf
    <3>. QED
      BY <2>3, <2>4, <3>1
  <2>. QED
    BY <2>6, <2>7
<1>4. CASE ~Dashed(caption) /\ ~Halved(caption) /\ texts.text_a # << >> /\ texts.text_b # << >>
  <2>1. PairNames(texts) = <<texts.text_a, texts.text_b>>
    BY <1>4 DEF PairNames
  <2>2. texts.text_a # texts.text_b
    BY <1>4 DEF SameTexts
  <2>. QED
    BY <1>1, <1>4, <2>1, <2>2
<1>5. CASE ~Dashed(caption) /\ ~Halved(caption) /\ ~(texts.text_a # << >> /\ texts.text_b # << >>)
  <2>1. PICK base : base = FirstOf(<<texts.caption, texts.text_a, texts.text_b>>)
    OBVIOUS
  <2>2. PairNames(texts) = Numbered(base)
    BY <1>5, <2>1 DEF PairNames
  <2>3. base \in Seq(Words)
    <3>1. <<texts.caption, texts.text_a, texts.text_b>> \in Seq(Seq(Words))
      BY <1>1
    <3>. QED
      BY <2>1, <3>1, FirstText
  <2>4. PICK one, two : one = Numbered(base)[1] /\ two = Numbered(base)[2]
    OBVIOUS
  <2>5. Numbered(base) = <<one, two>>
    BY <2>4 DEF Numbered
  <2>6. /\ one \in Seq(Words) /\ Len(base) \in Nat /\ Len(one) = Len(base) + 3
        /\ one[Len(base) + 2] = "1"
    BY <1>1, <2>3, <2>4, NumberedNames
  <2>7. two \in Seq(Words) /\ Len(two) = Len(base) + 3 /\ two[Len(base) + 2] = "2"
    BY <1>1, <2>3, <2>4, NumberedNames
  <2>8. one # two
    BY <2>6, <2>7
  <2>9. one # << >> /\ two # << >>
    BY <2>6, <2>7
  <2>. QED
    BY <2>2, <2>5, <2>6, <2>7, <2>8, <2>9
<1>. QED
  BY <1>2, <1>3, <1>4, <1>5

\* A text that is neither a mode nor numbered by the panel.
Plain(text) == text \in Seq(Words) /\ "(" \notin Said(text) /\ ~IsMode(text)

LEMMA NumberedModes ==
    ASSUME NEW mode, NEW l \in {1, 2}
    PROVE  LET name == Numbered(<<mode>>)[l] IN
           /\ Len(name) = 4 /\ name[1] = mode /\ name[2] = "(" /\ name[3] \in {"1", "2"}
           /\ "(" \in Said(name)
<1>1. PICK S : S = {"(", ")", "1", "2", mode}
  OBVIOUS
<1>2. PICK base, name : base = <<mode>> /\ name = Numbered(base)[l]
  OBVIOUS
<1>3. base \in Seq(S) /\ Len(base) = 1 /\ base[1] = mode /\ {"(", ")", "1", "2"} \subseteq S
  BY <1>1, <1>2
<1>4. /\ Len(name) = Len(base) + 3
      /\ \A j \in 1..Len(base) : name[j] = base[j]
      /\ name[Len(base) + 1] = "("
      /\ name[Len(base) + 2] = IF l = 1 THEN "1" ELSE "2"
      /\ "(" \in Said(name)
  BY <1>2, <1>3, NumberedNames
<1>5. 1 \in 1..Len(base)
  BY <1>3
<1>. QED
  BY <1>2, <1>3, <1>4, <1>5

\* No name is that of a numbered mode: the texts of the row are no modes, and the
\* names that are made of them number or qualify something else.
LEMMA PairsAreNoNumberedModes ==
    ASSUME NEW texts, Plain(texts.caption), Plain(texts.text_a), Plain(texts.text_b),
           NEW mode \in ModeLabels, NEW k \in {1, 2}, NEW l \in {1, 2}
    PROVE  PairNames(texts)[k] # Numbered(<<mode>>)[l]
<1>. DEFINE caption == texts.caption
            left == Before(caption, "/")
            right == After(caption, "/")
<1>1. /\ caption \in Seq(Words) /\ texts.text_a \in Seq(Words) /\ texts.text_b \in Seq(Words)
      /\ {"(", ")", "1", "2"} \subseteq Words
      /\ "(" \notin Said(caption)
  BY DEF Plain, Words
<1>2. PICK taboo : taboo = Numbered(<<mode>>)[l]
  OBVIOUS
<1>3. /\ Len(taboo) = 4 /\ taboo[1] = mode /\ taboo[2] = "(" /\ taboo[3] \in {"1", "2"}
      /\ "(" \in Said(taboo)
  BY <1>2, NumberedModes
<1>4. CASE Dashed(caption)
  <2>1. PICK tail : tail = After(caption, "-")
    OBVIOUS
  <2>2. Has(caption, "-") /\ Has(tail, "/")
    BY <1>4, <2>1 DEF Dashed
  <2>3. PICK begin : begin = Before(caption, "-")
    OBVIOUS
  <2>4. /\ begin \in Seq(Words) /\ tail \in Seq(Words) /\ "-" \in Words
        /\ Said(begin) \subseteq Said(caption) /\ Said(tail) \subseteq Said(caption)
    BY <1>1, <2>1, <2>2, <2>3, Halves
  <2>5. PICK head : head = Append(begin, "-")
    OBVIOUS
  <2>6. head = begin \o <<"-">> /\ head \in Seq(Words)
    BY <2>4, <2>5, AppendIsConcat, AppendProperties
  <2>7. "(" \notin Said(head)
    <3>1. <<"-">> \in Seq(Words) /\ Len(<<"-">>) = 1 /\ <<"-">>[1] = "-"
      BY <2>4
    <3>2. Said(<<"-">>) = {"-"}
      BY <3>1 DEF Said
    <3>3. Said(begin \o <<"-">>) = Said(begin) \cup Said(<<"-">>)
      BY <2>4, <3>1, SaidTogether
    <3>. QED
      BY <1>1, <2>4, <2>6, <3>2, <3>3
  <2>8. PICK s, t : s = Before(tail, "/") /\ t = After(tail, "/")
    OBVIOUS
  <2>9. /\ s \in Seq(Words) /\ t \in Seq(Words)
        /\ Said(s) \subseteq Said(tail) /\ Said(t) \subseteq Said(tail)
    BY <2>2, <2>4, <2>8, Halves
  <2>10. Said(head \o s) = Said(head) \cup Said(s) /\ Said(head \o t) = Said(head) \cup Said(t)
    BY <2>6, <2>9, SaidTogether
  <2>11. PICK one, two : one = head \o s /\ two = head \o t
    OBVIOUS
  <2>12. one # taboo /\ two # taboo
    BY <1>1, <1>3, <2>4, <2>7, <2>9, <2>10, <2>11
  <2>13. PairNames(texts) = <<one, two>>
    BY <1>4, <2>1, <2>3, <2>5, <2>8, <2>11 DEF PairNames, DashedNames
  <2>. QED
    BY <1>2, <2>12, <2>13
<1>5. CASE ~Dashed(caption) /\ Halved(caption)
  <2>1. Has(caption, "/")
    BY <1>5 DEF Halved
  <2>2. PICK s, t : s = left /\ t = right
    OBVIOUS
  <2>3. /\ s \in Seq(Words) /\ t \in Seq(Words) /\ s # << >> /\ t # << >>
        /\ Said(s) \subseteq Said(caption) /\ Said(t) \subseteq Said(caption)
    BY <1>1, <2>1, <2>2, Halves
  <2>4. PairNames(texts) = <<s, QualifyShortHalf(s, t)>>
    BY <1>5, <2>2 DEF PairNames
  <2>5. s # taboo /\ t # taboo
    BY <1>1, <1>3, <2>3
  <2>6. ASSUME Abbreviated(s, t), s \o <<"(">> \o t \o <<")">> = taboo
        PROVE  FALSE
    <3>1. /\ Len(s) \in Nat /\ Len(t) \in Nat
          /\ Len(taboo) = Len(s) + Len(t) + 2
          /\ \A i \in 1..Len(t) : taboo[Len(s) + 1 + i] = t[i]
          /\ \A j \in 1..Len(s) : taboo[j] = s[j]
      <4>1. PICK name : name = s \o <<"(">> \o t \o <<")">>
        OBVIOUS
      <4>2. "(" \in Words /\ ")" \in Words /\ s \in Seq(Words) /\ t \in Seq(Words)
        BY <1>1, <2>3
      <4>3. /\ Len(s) \in Nat /\ Len(t) \in Nat
            /\ Len(name) = Len(s) + Len(t) + 2
            /\ \A i \in 1..Len(t) : name[Len(s) + 1 + i] = t[i]
            /\ \A j \in 1..Len(s) : name[j] = s[j]
        BY <4>1, <4>2, QualifiedNames
      <4>. QED
        BY <2>6, <4>1, <4>3
    <3>2. Len(s) # 0 /\ Len(t) # 0
      BY <2>3, EmptySeq
    <3>3. Len(s) = 1 /\ Len(t) = 1
      <4>1. PICK m, n : m = Len(s) /\ n = Len(t)
        OBVIOUS
      <4>2. m \in Nat /\ n \in Nat /\ m # 0 /\ n # 0 /\ 4 = m + n + 2
        BY <1>3, <3>1, <3>2, <4>1
      <4>3. m = 1 /\ n = 1
        BY <4>2
      <4>. QED
        BY <4>1, <4>3
    <3>4. t[1] \in {"1", "2"}
      <4>1. 1 \in 1..Len(t) /\ Len(s) + 1 + 1 = 3
        BY <3>3
      <4>. QED
        BY <1>3, <3>1, <4>1
    <3>5. Last(t) \notin Abbreviations
      BY <3>3, <3>4, InfoNamesAssumption DEF Last
    <3>6. <<t, s>> \in Stems
      BY <2>6, <3>5 DEF Abbreviated
    <3>7. s[1] = mode
      <4>1. 1 \in 1..Len(s)
        BY <3>3
      <4>. QED
        BY <1>3, <3>1, <4>1
    <3>8. PICK digit : digit = t[1]
      OBVIOUS
    <3>9. s = <<mode>> /\ t = <<digit>>
      BY <2>3, <3>3, <3>7, <3>8, SeqEqual
    <3>. QED
      BY <3>4, <3>6, <3>8, <3>9, InfoNamesAssumption
  <2>7. QualifyShortHalf(s, t) # taboo
    BY <2>5, <2>6 DEF QualifyShortHalf
  <2>. QED
    BY <1>2, <2>4, <2>5, <2>7
<1>6. CASE ~Dashed(caption) /\ ~Halved(caption) /\ texts.text_a # << >> /\ texts.text_b # << >>
  <2>1. PairNames(texts) = <<texts.text_a, texts.text_b>>
    BY <1>6 DEF PairNames
  <2>. QED
    BY <1>2, <1>3, <2>1 DEF Plain
<1>7. CASE ~Dashed(caption) /\ ~Halved(caption) /\ ~(texts.text_a # << >> /\ texts.text_b # << >>)
  <2>1. PICK base, name : /\ base = FirstOf(<<texts.caption, texts.text_a, texts.text_b>>)
                          /\ name = Numbered(base)[k]
    OBVIOUS
  <2>2. PairNames(texts)[k] = name
    BY <1>7, <2>1 DEF PairNames
  <2>3. <<texts.caption, texts.text_a, texts.text_b>> \in Seq(Seq(Words))
    BY <1>1
  <2>4. /\ base \in Seq(Words)
        /\ base = <<"Info">> \/ \E i \in 1..3 : base = <<caption, texts.text_a, texts.text_b>>[i]
    BY <2>1, <2>3, FirstText
  <2>5. /\ Len(base) \in Nat /\ Len(name) = Len(base) + 3
        /\ \A j \in 1..Len(base) : name[j] = base[j]
    <3>1. base \in Seq(Words)
      BY <2>4
    <3>2. {"(", ")", "1", "2"} \subseteq Words
      BY <1>1
    <3>3. name = Numbered(base)[k]
      BY <2>1
    <3>. QED
      BY <3>1, <3>2, <3>3, NumberedNames
  <2>6. base = <<"Info">> \/ base \in {caption, texts.text_a, texts.text_b}
    BY <2>4
  <2>7. ~IsMode(base)
    <3>1. Len(<<"Info">>) = 1 /\ <<"Info">>[1] = "Info"
      OBVIOUS
    <3>2. ~IsMode(<<"Info">>)
      BY <3>1, InfoNamesAssumption DEF IsMode
    <3>. QED
      BY <2>6, <3>2 DEF Plain
  <2>8. name = taboo => Len(base) = 1 /\ base[1] = mode
    <3>1. name = taboo => Len(base) = 1
      <4>1. PICK n : n = Len(base)
        OBVIOUS
      <4>2. n \in Nat /\ (name = taboo => 4 = n + 3)
        BY <1>3, <2>5, <4>1
      <4>3. name = taboo => n = 1
        BY <4>2
      <4>. QED
        BY <4>1, <4>3
    <3>2. Len(base) = 1 => 1 \in 1..Len(base)
      OBVIOUS
    <3>. QED
      BY <1>3, <2>5, <3>1, <3>2
  <2>. QED
    BY <1>2, <2>2, <2>7, <2>8 DEF IsMode
<1>. QED
  BY <1>4, <1>5, <1>6, <1>7

\* The base of numbered names, where one of them keeps the caption, is told apart
\* from the other (info_value.py:330).
LEMMA RefinedNames ==
    ASSUME NEW texts, texts.caption \in Seq(Words), NEW parts,
           NEW one \in Seq(Words), NEW two \in Seq(Words),
           one # << >>, two # << >>, one # two
    PROVE  \E names :
                /\ RefineMixedDualNames(texts, <<one, two>>, parts) = names
                /\ names[1] \in {one, FirstOf(<<texts.caption>>)}
                /\ names[2] \in {two, FirstOf(<<texts.caption>>)}
                /\ names[1] # names[2] /\ names[1] # << >> /\ names[2] # << >>
<1>1. PICK base : base = FirstOf(<<texts.caption>>)
  OBVIOUS
<1>2. base \in Seq(Words) /\ base # << >>
  <2>1. <<texts.caption>> \in Seq(Seq(Words))
    OBVIOUS
  <2>. QED
    BY <1>1, <2>1, FirstText
<1>3. PICK names : names = RefineMixedDualNames(texts, <<one, two>>, parts)
  OBVIOUS
<1>4. \/ names = <<one, two>>
      \/ /\ <<one, two>> = Numbered(base)
         /\ \E keeps \in {1, 2} : names = [<<one, two>> EXCEPT ![keeps] = base]
  BY <1>1, <1>3 DEF RefineMixedDualNames
<1>5. CASE names = <<one, two>>
  BY <1>1, <1>3, <1>5
<1>6. ASSUME <<one, two>> = Numbered(base),
             NEW keeps \in {1, 2}, names = [<<one, two>> EXCEPT ![keeps] = base]
      PROVE  /\ names[1] \in {one, base} /\ names[2] \in {two, base}
             /\ names[1] # names[2] /\ names[1] # << >> /\ names[2] # << >>
  <2>1. {"(", ")", "1", "2"} \subseteq Words
    BY DEF Words
  <2>2. Len(base) \in Nat /\ Len(Numbered(base)[1]) = Len(base) + 3
    BY <1>2, <2>1, NumberedNames
  <2>3. Len(Numbered(base)[2]) = Len(base) + 3
    BY <1>2, <2>1, NumberedNames
  <2>4. Numbered(base)[1] = one /\ Numbered(base)[2] = two
    BY <1>6
  <2>5. one # base /\ two # base
    BY <2>2, <2>3, <2>4
  <2>. QED
    BY <1>2, <1>6, <2>5
<1>. QED
  BY <1>1, <1>3, <1>4, <1>5, <1>6

\* A value has one part or two, none with a name yet.
LEMMA Display ==
    ASSUME NEW value
    PROVE  /\ Len(ParseDisplay(value)) \in {1, 2}
           /\ \A i \in 1..Len(ParseDisplay(value)) :
                \E kind, raw, unit : ParseDisplay(value)[i] = Part(kind, raw, unit)
<1>1. ASSUME NEW raw, NEW default
      PROVE  \E kind, unit : ParsePart(raw, default) = Part(kind, raw, unit)
  BY DEF ParsePart
<1>2. PICK halves : halves = SplitDisplay(value)
  OBVIOUS
<1>3. CASE Len(halves) = 1
  <2>1. PICK part : part = ParsePart(halves[1], NoUnit)
    OBVIOUS
  <2>2. ParseDisplay(value) = <<part>>
    BY <1>2, <1>3, <2>1 DEF ParseDisplay
  <2>3. \E kind, raw, unit : part = Part(kind, raw, unit)
    BY <1>1, <2>1
  <2>. QED
    BY <2>2, <2>3
<1>4. CASE Len(halves) # 1
  <2>1. PICK right : right = ParsePart(halves[2], NoUnit)
    OBVIOUS
  <2>2. PICK left : left = ParsePart(halves[1], right.unit)
    OBVIOUS
  <2>3. ParseDisplay(value) = <<left, right>>
    BY <1>2, <1>4, <2>1, <2>2 DEF ParseDisplay
  <2>4. \E kind, raw, unit : left = Part(kind, raw, unit)
    BY <1>1, <2>2
  <2>5. \E kind, raw, unit : right = Part(kind, raw, unit)
    BY <1>1, <2>1
  <2>. QED
    BY <2>3, <2>4, <2>5
<1>. QED
  BY <1>3, <1>4

LEMMA NamedPart ==
    ASSUME NEW kind, NEW raw, NEW unit, NEW part, part = Part(kind, raw, unit), NEW name
    PROVE  Named(part, name).name = name /\ Named(part, name).raw = part.raw
BY DEF Part, Named

\* A name that is no mode's with a number is no indexed mode.
LEMMA NoIndexedMode ==
    ASSUME NEW part,
           \A mode \in ModeLabels : \A l \in {1, 2} : part.name # Numbered(<<mode>>)[l]
    PROVE  ~IndexedMode(part)
BY InfoNamesAssumption DEF IndexedMode

\* Two parts are labelled differently where their names are not the device's.
LEMMA LabelsTellApart ==
    ASSUME NEW one, NEW two, NEW device, NEW parts, parts = <<one, two>>,
           one.name # two.name, Label(device, one) # Label(device, two)
    PROVE  ~Nameless(parts) /\ ~DuplicateLabels(device, parts)
<1>1. Len(parts) = 2 /\ parts[1] = one /\ parts[2] = two
  OBVIOUS
<1>2. ~Nameless(parts)
  BY <1>1 DEF Nameless
<1>. QED
  BY <1>1, <1>2 DEF DuplicateLabels

\* A caption that is there is what the row is called.
LEMMA CaptionFirst ==
    ASSUME NEW caption, caption # << >>
    PROVE  FirstOf(<<caption>>) = caption
<1>. DEFINE there == {i \in DOMAIN <<caption>> : <<caption>>[i] # << >>}
<1>1. there = {1}
  OBVIOUS
<1>2. Min(there) \in there
  <2>1. there # {} /\ there \subseteq Nat
    BY <1>1
  <2>. QED
    BY <2>1, SmallestColumn
<1>3. Min(there) = 1
  BY <1>1, <1>2
<1>4. FirstOf(<<caption>>) = <<caption>>[Min(there)]
  BY <1>1 DEF FirstOf
<1>. QED
  BY <1>3, <1>4

\* The row of a mode: the label is the name of one part, and the other has none.
LEMMA ModeRowsTellApart ==
    ASSUME NEW texts, NEW values, values = ParseDisplay(texts.value),
           ModeRow(texts, values), NEW parts, parts = ModeParts(texts, values)
    PROVE  /\ parts[1].name # parts[2].name
           /\ ~Nameless(parts) /\ ~DuplicateLabels(DEVICE, parts)
           /\ Len(parts) = 2
           /\ \A i \in {1, 2} : ~IndexedMode(parts[i])
           /\ \A i \in {1, 2} : parts[i].name # << >> => parts[i].name \in Callings(texts)
<1>. DEFINE labels == ModeLabelled(texts)
<1>1. PICK label : label = RegimeRowLabel(texts)
  OBVIOUS
<1>2. IsMode(label)
  <2>1. labels # {} /\ labels \subseteq Nat
    BY DEF ModeRow, ModeLabelled
  <2>2. Min(labels) \in labels
    BY <2>1, SmallestColumn
  <2>. QED
    BY <1>1, <2>2 DEF RegimeRowLabel, ModeLabelled
<1>3. /\ Len(values) \in {1, 2}
      /\ \A i \in 1..Len(values) : \E kind, raw, unit : values[i] = Part(kind, raw, unit)
  BY Display
<1>4. PICK one, two : one = Named(Last(values), << >>) /\ two = Named(values[1], label)
  OBVIOUS
<1>5. parts = <<one, two>>
  BY <1>1, <1>4 DEF ModeParts
<1>6. one.name = << >>
  <2>1. Last(values) = values[Len(values)] /\ Len(values) \in 1..Len(values)
    BY <1>3 DEF Last
  <2>2. PICK kind, raw, unit : Last(values) = Part(kind, raw, unit)
    BY <1>3, <2>1
  <2>. QED
    BY <1>4, <2>2, NamedPart
<1>7. two.name = label
  <2>1. 1 \in 1..Len(values)
    BY <1>3
  <2>2. PICK kind, raw, unit : values[1] = Part(kind, raw, unit)
    BY <1>3, <2>1
  <2>. QED
    BY <1>4, <2>2, NamedPart
<1>8. Len(label) = 1 /\ label # << >>
  BY <1>2 DEF IsMode
<1>9. \A mode \in ModeLabels : \A l \in {1, 2} : Len(Numbered(<<mode>>)[l]) = 4
  BY NumberedModes
<1>10. Len(<< >>) = 0
  OBVIOUS
<1>11. ~IndexedMode(one) /\ ~IndexedMode(two)
  <2>1. Len(one.name) # 4 /\ Len(two.name) # 4
    BY <1>6, <1>7, <1>8, <1>10
  <2>. QED
    BY <1>9, <2>1, NoIndexedMode
<1>12. Label(DEVICE, one) # Label(DEVICE, two)
  BY <1>2, <1>6, <1>7, <1>8, InfoPageAssumption DEF Label
<1>13. one.name # two.name
  BY <1>6, <1>7, <1>8
<1>14. ~Nameless(parts) /\ ~DuplicateLabels(DEVICE, parts)
  BY <1>5, <1>12, <1>13, LabelsTellApart
<1>15. label \in Callings(texts)
  <2>1. label \in {texts.text_a, texts.text_b, texts.caption}
    <3>1. labels # {} /\ labels \subseteq {1, 2, 3} /\ labels \subseteq Nat
      BY DEF ModeRow, ModeLabelled
    <3>2. Min(labels) \in {1, 2, 3}
      BY <3>1, SmallestColumn
    <3>. QED
      BY <1>1, <3>2 DEF RegimeRowLabel, Labels
  <2>2. label = texts.caption => FirstOf(<<texts.caption>>) = label
    BY <1>8, CaptionFirst
  <2>. QED
    BY <2>1, <2>2 DEF Callings
<1>16. Len(parts) = 2 /\ parts[1] = one /\ parts[2] = two
  BY <1>5
<1>. QED
  BY <1>6, <1>7, <1>11, <1>13, <1>14, <1>15, <1>16

\* The first of plain texts is no mode that is numbered.
LEMMA PlainNames ==
    ASSUME NEW name \in Seq(Words), "(" \notin Said(name),
           NEW mode \in ModeLabels, NEW l \in {1, 2}
    PROVE  name # Numbered(<<mode>>)[l]
BY NumberedModes

LEMMA InfoIsPlain == <<"Info">> \in Seq(Words) /\ "(" \notin Said(<<"Info">>)
<1>1. "Info" \in Words
  BY DEF Words
<1>2. Len(<<"Info">>) = 1 /\ <<"Info">>[1] = "Info"
  OBVIOUS
<1>. QED
  BY <1>1, <1>2 DEF Said

\* A row with one part: its name is a text of the panel, or two of them.
LEMMA SinglesAreNoIndexedModes ==
    ASSUME NEW texts, Plain(texts.caption), Plain(texts.text_a), Plain(texts.text_b),
           NEW part, part.name = SingleName(texts)
    PROVE  ~IndexedMode(part)
<1>1. PICK name : name = SingleName(texts)
  OBVIOUS
<1>2. part.name = name
  BY <1>1
<1>3. name \in Seq(Words) /\ "(" \notin Said(name)
  <2>1. CASE texts.caption = << >> /\ texts.text_a # << >> /\ texts.text_b # << >>
    <3>1. PICK slash, a, b : slash = <<"/">> /\ a = texts.text_a /\ b = texts.text_b
      OBVIOUS
    <3>2. name = a \o slash \o b
      BY <1>1, <2>1, <3>1 DEF SingleName
    <3>3. /\ slash \in Seq(Words) /\ Len(slash) = 1 /\ slash[1] = "/"
      <4>1. "/" \in Words
        BY DEF Words
      <4>. QED
        BY <3>1, <4>1
    <3>4. a \in Seq(Words) /\ b \in Seq(Words) /\ "(" \notin Said(a) /\ "(" \notin Said(b)
      BY <3>1 DEF Plain
    <3>5. Said(slash) = {"/"}
      BY <3>3 DEF Said
    <3>6. PICK begin : begin = a \o slash
      OBVIOUS
    <3>7. Said(begin) = Said(a) \cup Said(slash) /\ begin \in Seq(Words)
      BY <3>3, <3>4, <3>6, SaidTogether, ConcatProperties
    <3>8. Said(begin \o b) = Said(begin) \cup Said(b) /\ begin \o b \in Seq(Words)
      BY <3>4, <3>7, SaidTogether, ConcatProperties
    <3>. QED
      BY <3>2, <3>4, <3>5, <3>6, <3>7, <3>8
  <2>2. CASE ~(texts.caption = << >> /\ texts.text_a # << >> /\ texts.text_b # << >>)
    <3>1. PICK three : three = <<texts.caption, texts.text_a, texts.text_b>>
      OBVIOUS
    <3>2. name = FirstOf(three)
      BY <1>1, <2>2, <3>1 DEF SingleName
    <3>3. three \in Seq(Seq(Words)) /\ \A i \in 1..Len(three) : Plain(three[i])
      BY <3>1 DEF Plain
    <3>4. name = <<"Info">> \/ \E i \in 1..Len(three) : name = three[i]
      BY <3>2, <3>3, FirstText
    <3>. QED
      BY <3>3, <3>4, InfoIsPlain DEF Plain
  <2>. QED
    BY <2>1, <2>2
<1>. QED
  BY <1>2, <1>3, PlainNames, NoIndexedMode

\* A row of two parts: the names differ, are what its texts call them or number
\* what they call them, and are no mode's with a number if no text is a mode.
LEMMA PairsTellApart ==
    ASSUME NEW texts, Wordings(texts), ~SameTexts(texts), NEW values,
           Len(values) = 2,
           \A i \in 1..Len(values) : \E kind, raw, unit : values[i] = Part(kind, raw, unit),
           NEW names, names = RefineMixedDualNames(texts, PairNames(texts), values),
           NEW one, one = Named(values[1], names[1]),
           NEW two, two = Named(values[2], names[2])
    PROVE  /\ one.name # two.name
           /\ Label(DEVICE, one) # Label(DEVICE, two)
           /\ one.name \in Callings(texts) /\ two.name \in Callings(texts)
           /\ Plain(texts.caption) /\ Plain(texts.text_a) /\ Plain(texts.text_b)
              => ~IndexedMode(one) /\ ~IndexedMode(two)
<1>1. PICK left \in Seq(Words), right \in Seq(Words) :
            /\ PairNames(texts) = <<left, right>>
            /\ left # << >> /\ right # << >> /\ left # right
  BY PairsDiffer
<1>2. PICK base : base = FirstOf(<<texts.caption>>)
  OBVIOUS
<1>3. /\ names[1] \in {left, base} /\ names[2] \in {right, base}
      /\ names[1] # names[2] /\ names[1] # << >> /\ names[2] # << >>
  <2>1. texts.caption \in Seq(Words)
    BY DEF Wordings
  <2>. QED
    BY <1>1, <1>2, <2>1, RefinedNames
<1>4. one.name = names[1] /\ one.raw = values[1].raw
  <2>1. 1 \in 1..Len(values)
    OBVIOUS
  <2>2. PICK kind, raw, unit : values[1] = Part(kind, raw, unit)
    BY <2>1
  <2>. QED
    BY <2>2, NamedPart
<1>5. two.name = names[2] /\ two.raw = values[2].raw
  <2>1. 2 \in 1..Len(values)
    OBVIOUS
  <2>2. PICK kind, raw, unit : values[2] = Part(kind, raw, unit)
    BY <2>1
  <2>. QED
    BY <2>2, NamedPart
<1>6. ASSUME Plain(texts.caption), Plain(texts.text_a), Plain(texts.text_b)
      PROVE  ~IndexedMode(one) /\ ~IndexedMode(two)
  <2>1. base \in Seq(Words) /\ "(" \notin Said(base)
    <3>1. PICK single : single = <<texts.caption>>
      OBVIOUS
    <3>2. single \in Seq(Seq(Words)) /\ \A i \in 1..Len(single) : Plain(single[i])
      BY <1>6, <3>1 DEF Plain
    <3>3. base = <<"Info">> \/ \E i \in 1..Len(single) : base = single[i]
      BY <1>2, <3>1, <3>2, FirstText
    <3>. QED
      BY <3>2, <3>3, InfoIsPlain DEF Plain
  <2>2. ASSUME NEW mode \in ModeLabels, NEW l \in {1, 2}
        PROVE  names[1] # Numbered(<<mode>>)[l] /\ names[2] # Numbered(<<mode>>)[l]
    <3>1. base # Numbered(<<mode>>)[l]
      BY <2>1, PlainNames
    <3>2. PairNames(texts)[1] # Numbered(<<mode>>)[l]
      BY <1>6, PairsAreNoNumberedModes
    <3>3. PairNames(texts)[2] # Numbered(<<mode>>)[l]
      BY <1>6, PairsAreNoNumberedModes
    <3>. QED
      BY <1>1, <1>3, <3>1, <3>2, <3>3
  <2>. QED
    BY <1>4, <1>5, <2>2, NoIndexedMode
<1>7. {left, right, base} \subseteq Callings(texts)
  BY <1>1, <1>2 DEF Callings
<1>8. Label(DEVICE, one) # Label(DEVICE, two)
  BY <1>3, <1>4, <1>5 DEF Label
<1>. QED
  BY <1>3, <1>4, <1>5, <1>6, <1>7, <1>8

\* Every row whose texts are texts.
LEMMA RowsTellApart ==
    ASSUME NEW texts, Wordings(texts), ~SameTexts(texts),
           NEW parts, parts = ParseRow(texts)
    PROVE  /\ Len(parts) = 2 => parts[1].name # parts[2].name
           /\ ~Nameless(parts) /\ ~DuplicateLabels(DEVICE, parts)
           /\ \A i \in 1..Len(parts) :
                /\ IndexedMode(parts[i]) => PanelNumbers(texts) \/ ModeOfNumbers(texts)
                /\ NameIsState(parts[i]) => parts[i].raw \in Callings(texts)
<1>1. PICK values : values = ParseDisplay(texts.value)
  OBVIOUS
<1>2. /\ Len(values) \in {1, 2}
      /\ \A i \in 1..Len(values) : \E kind, raw, unit : values[i] = Part(kind, raw, unit)
  BY <1>1, Display
<1>3. CASE ModeRow(texts, values)
  <2>1. parts = ModeParts(texts, values)
    BY <1>1, <1>3 DEF ParseRow
  <2>2. /\ parts[1].name # parts[2].name
        /\ ~Nameless(parts) /\ ~DuplicateLabels(DEVICE, parts)
        /\ Len(parts) = 2
        /\ \A i \in {1, 2} : ~IndexedMode(parts[i])
        /\ \A i \in {1, 2} : parts[i].name # << >> => parts[i].name \in Callings(texts)
    BY <1>1, <1>3, <2>1, ModeRowsTellApart
  <2>. QED
    BY <2>2 DEF NameIsState
<1>4. ASSUME ~ModeRow(texts, values), ~PanelNumbers(texts), ~ModeOfNumbers(texts)
      PROVE  Plain(texts.caption) /\ Plain(texts.text_a) /\ Plain(texts.text_b)
  <2>1. ModeLabelled(texts) = {}
    BY <1>1, <1>4 DEF ModeOfNumbers
  <2>2. ~IsMode(texts.text_a) /\ ~IsMode(texts.text_b) /\ ~IsMode(texts.caption)
    BY <2>1 DEF ModeLabelled, Labels
  <2>. QED
    BY <1>4, <2>2 DEF PanelNumbers, Plain, Said, Wordings
<1>5. CASE ~ModeRow(texts, values) /\ Len(values) = 1
  <2>1. PICK part : part = Named(values[1], SingleName(texts))
    OBVIOUS
  <2>2. parts = <<part>>
    BY <1>1, <1>5, <2>1 DEF ParseRow
  <2>3. part.name = SingleName(texts)
    <3>1. 1 \in 1..Len(values)
      BY <1>5
    <3>2. PICK kind, raw, unit : values[1] = Part(kind, raw, unit)
      BY <1>2, <3>1
    <3>. QED
      BY <2>1, <3>2, NamedPart
  <2>4. IndexedMode(part) => PanelNumbers(texts) \/ ModeOfNumbers(texts)
    BY <1>4, <1>5, <2>3, SinglesAreNoIndexedModes
  <2>5. NameIsState(part) => part.raw \in Callings(texts)
    BY <2>3 DEF NameIsState, Callings
  <2>6. Len(parts) = 1 /\ parts[1] = part
    BY <2>2
  <2>7. ~Nameless(parts) /\ ~DuplicateLabels(DEVICE, parts)
    BY <2>6 DEF Nameless, DuplicateLabels
  <2>. QED
    BY <2>4, <2>5, <2>6, <2>7
<1>6. CASE ~ModeRow(texts, values) /\ Len(values) = 2
  <2>1. PICK names : names = RefineMixedDualNames(texts, PairNames(texts), values)
    OBVIOUS
  <2>2. PICK one, two : one = Named(values[1], names[1]) /\ two = Named(values[2], names[2])
    OBVIOUS
  <2>3. parts = <<one, two>>
    BY <1>1, <1>6, <2>1, <2>2 DEF ParseRow
  <2>4. /\ one.name # two.name
        /\ Label(DEVICE, one) # Label(DEVICE, two)
        /\ one.name \in Callings(texts) /\ two.name \in Callings(texts)
        /\ Plain(texts.caption) /\ Plain(texts.text_a) /\ Plain(texts.text_b)
           => ~IndexedMode(one) /\ ~IndexedMode(two)
    BY <1>2, <1>6, <2>1, <2>2, PairsTellApart
  <2>5. ~Nameless(parts) /\ ~DuplicateLabels(DEVICE, parts)
    BY <2>3, <2>4, LabelsTellApart
  <2>6. IndexedMode(one) \/ IndexedMode(two) => PanelNumbers(texts) \/ ModeOfNumbers(texts)
    BY <1>4, <1>6, <2>4
  <2>7. /\ NameIsState(one) => one.raw \in Callings(texts)
        /\ NameIsState(two) => two.raw \in Callings(texts)
    BY <2>4 DEF NameIsState
  <2>8. Len(parts) = 2 /\ parts[1] = one /\ parts[2] = two
    BY <2>3
  <2>. QED
    BY <2>4, <2>5, <2>6, <2>7, <2>8
<1>. QED
  BY <1>2, <1>3, <1>5, <1>6

\* The place of the last row of a key is one of its places.
LEMMA LargestPlace ==
    ASSUME NEW n \in Nat, NEW S, S \subseteq 1..n, S # {}
    PROVE  Max(S) \in S
<1>. DEFINE mirrored == {n - k : k \in S}
<1>1. mirrored \subseteq Nat /\ mirrored # {}
  <2>1. \A k \in 1..n : n - k \in Nat
    OBVIOUS
  <2>2. \A k \in S : n - k \in Nat
    BY <2>1
  <2>3. PICK k \in S : TRUE
    OBVIOUS
  <2>4. n - k \in mirrored
    BY <2>3
  <2>. QED
    BY <2>2, <2>4
<1>2. Min(mirrored) \in mirrored /\ \A c \in mirrored : Min(mirrored) <= c
  BY <1>1, SmallestColumn
<1>3. PICK m \in S : Min(mirrored) = n - m
  BY <1>2
<1>4. ASSUME NEW k \in S
      PROVE  m >= k
  <2>1. n - k \in mirrored
    OBVIOUS
  <2>2. n - m <= n - k
    BY <1>2, <1>3, <2>1
  <2>3. m \in Nat /\ k \in Nat
    OBVIOUS
  <2>. QED
    BY <2>2, <2>3
<1>. QED
  BY <1>3, <1>4 DEF Max

\* Every id of a row is resolved to a text, with the catalog in any language.
LEMMA IdsHaveTexts ==
    ASSUME CatalogInv, OwnInv, language # None, NEW id \in Nat
    PROVE  ResolveTextId(id) \in Seq(Words)
<1>1. << >> \in Seq(Words)
  OBVIOUS
<1>2. CASE id >= OWN_TEXT_OFFSET
  <2>1. own_text \in Seq(Seq(Words))
    BY DEF OwnInv, OwnTyped
  <2>2. PICK slot : slot = id - OWN_TEXT_OFFSET
    OBVIOUS
  <2>3. slot \in Nat
    BY <1>2, <2>2 DEF OWN_TEXT_OFFSET
  <2>4. Len(own_text) \in Nat
    BY <2>1, LenProperties
  <2>5. slot < Len(own_text) => own_text[slot + 1] \in Seq(Words)
    <3>1. slot < Len(own_text) => slot + 1 \in 1..Len(own_text)
      BY <2>3, <2>4
    <3>. QED
      BY <2>1, <3>1, ElementOfSeq
  <2>6. \/ ResolveTextId(id) = << >>
        \/ slot < Len(own_text) /\ ResolveTextId(id) = own_text[slot + 1]
    BY <1>2, <2>2 DEF ResolveTextId
  <2>. QED
    BY <1>1, <2>5, <2>6
<1>3. CASE ~(id >= OWN_TEXT_OFFSET)
  <2>. DEFINE places == RowsFor(regulator, id)
  <2>1. \/ ResolveTextId(id) = << >>
        \/ Text(regulator, id) # None /\ ResolveTextId(id) = Text(regulator, id)
    BY <1>3 DEF ResolveTextId
  <2>2. ASSUME Text(regulator, id) # None
        PROVE  Text(regulator, id) \in Seq(Words)
    <3>1. /\ Len(regulator.data) \in Nat /\ Width(regulator) \in Nat
          /\ \A k \in 1..Len(regulator.data) : Len(regulator.data[k]) \in Nat
      BY TablesHaveWidth
    <3>2. places # {} /\ places \subseteq 1..Len(regulator.data)
      BY <2>2 DEF Text, RowsFor
    <3>3. PICK k : k = Max(places)
      OBVIOUS
    <3>4. k \in 1..Len(regulator.data)
      BY <3>1, <3>2, <3>3, LargestPlace
    <3>5. PICK cells : cells = RowOf(regulator, id)
      OBVIOUS
    <3>6. cells = Padded(regulator.data[k], Width(regulator))
      BY <3>3, <3>5 DEF RowOf
    <3>7. regulator.columns = ui.columns /\ Cell(ui.columns, 0) = ID_COLUMN
          /\ ColumnsFor(ui.columns, FALLBACK) # {} /\ language \in 1..Width(ui) - 1
      BY DEF CatalogInv, Buildable
    <3>8. PICK english : english = ColumnFor(regulator.columns, FALLBACK)
      OBVIOUS
    <3>9. english \in 1..Width(regulator) - 1 /\ language \in 1..Width(regulator) - 1
      <4>1. ColumnsFor(ui.columns, FALLBACK) \subseteq Nat
        BY DEF ColumnsFor
      <4>2. english \in ColumnsFor(ui.columns, FALLBACK)
        BY <3>7, <3>8, <4>1, SmallestColumn DEF ColumnFor
      <4>3. english \in 0..Width(regulator) - 1 /\ Cell(ui.columns, english) = FALLBACK
        BY <3>7, <4>2 DEF ColumnsFor, Width
      <4>4. english # 0
        BY <3>7, <4>3, InfoPageAssumption
      <4>. QED
        BY <3>1, <3>7, <4>3, <4>4 DEF Width
    <3>10. ASSUME NEW c \in 1..Width(regulator) - 1, ~Blank(Cell(cells, c))
           PROVE  Cell(cells, c) \in Seq(Words)
      <4>1. c + 1 \in 1..Width(regulator) /\ c + 1 >= 2
        BY <3>1
      <4>2. Cell(cells, c) =
                IF c + 1 <= Len(regulator.data[k]) THEN regulator.data[k][c + 1] ELSE None
        BY <3>6, <4>1 DEF Padded, Cell
      <4>3. Cell(cells, c) # None
        BY <3>10 DEF Blank
      <4>4. c + 1 \in 2..Len(regulator.data[k]) /\ Cell(cells, c) = regulator.data[k][c + 1]
        BY <3>1, <3>4, <4>1, <4>2, <4>3
      <4>5. Cell(cells, c) \in {None} \cup Seq(STRING)
        <5>1. regulator \in Files
          BY DEF CatalogInv
        <5>. QED
          BY <3>4, <4>4, <5>1, InfoPageAssumption
      <4>6. STRING \subseteq Words
        BY DEF Words
      <4>7. Cell(cells, c) \in Seq(STRING)
        BY <4>3, <4>5
      <4>. QED
        BY <4>6, <4>7, SeqMonotonic
    <3>11. Text(regulator, id) =
                IF ~Blank(Cell(cells, language)) THEN Cell(cells, language)
                ELSE IF ~Blank(Cell(cells, english)) THEN Cell(cells, english) ELSE None
      BY <3>2, <3>5, <3>8 DEF Text
    <3>. QED
      BY <2>2, <3>9, <3>10, <3>11
  <2>. QED
    BY <1>1, <2>1, <2>2
<1>. QED
  BY <1>2, <1>3

\* A row is shown in the language that is selected.
RowInv ==
    /\ CatalogInv
    /\ row # None => row \in Rows /\ language # None

LEMMA RowInvHolds == Spec => []RowInv
<1>1. Init => RowInv
  BY DEF Init, CatalogInit, CatalogInv, RowInv
<1>2. RowInv /\ [Next]_vars => RowInv'
  <2>. SUFFICES ASSUME RowInv, [Next]_vars
                PROVE  RowInv'
    OBVIOUS
  <2>1. CatalogInv
    BY DEF RowInv
  <2>2. [CatalogNext]_catalog
    BY DEF Next, OwnStep, Show, CatalogStep, vars
  <2>3. CatalogInv'
    BY <2>1, <2>2, CatalogInvariance
  <2>4. CASE CatalogStep
    BY <2>3, <2>4 DEF CatalogStep, RowInv
  <2>5. CASE Show
    BY <2>3, <2>5 DEF Show, catalog, RowInv
  <2>6. CASE UNCHANGED <<catalog, row>>
    BY <2>3, <2>6 DEF catalog, RowInv
  <2>. QED
    BY <2>4, <2>5, <2>6 DEF Next, OwnStep, vars
<1>. QED
  BY <1>1, <1>2, PTL DEF Spec

\* Whatever texts, own texts and values come together in a row, in whatever
\* language: its two parts have different names, unless the panel itself calls
\* them the same, and a smell that the repository looks for is in the panel's own
\* texts (info_value.py:346, info_naming_corpus.py:199).
THEOREM NamesAreTellable == Spec => []NamesTellApart
<1>1. RowInv /\ OwnInv => NamesTellApart
  <2>. SUFFICES ASSUME RowInv, OwnInv, row # None, ~SameTexts(Texts)
                PROVE  /\ Len(Parts) = 2 => Parts[1].name # Parts[2].name
                       /\ ~Nameless(Parts) /\ ~DuplicateLabels(DEVICE, Parts)
                       /\ \A i \in 1..Len(Parts) :
                            /\ IndexedMode(Parts[i]) => PanelNumbers(Texts) \/ ModeOfNumbers(Texts)
                            /\ NameIsState(Parts[i]) => Parts[i].raw \in Callings(Texts)
    BY DEF NamesTellApart
  <2>1. CatalogInv /\ language # None /\ row \in Rows
    BY DEF RowInv
  <2>2. row.caption \in Nat /\ row.text_a \in Nat /\ row.text_b \in Nat
    BY <2>1, InfoPageAssumption
  <2>3. PICK texts, parts : texts = Texts /\ parts = Parts
    OBVIOUS
  <2>4. /\ texts.caption = ResolveTextId(row.caption)
        /\ texts.text_a = ResolveTextId(row.text_a)
        /\ texts.text_b = ResolveTextId(row.text_b)
    BY <2>3 DEF Texts
  <2>5. Wordings(texts)
    BY <2>1, <2>2, <2>4, IdsHaveTexts DEF Wordings
  <2>6. ~SameTexts(texts) /\ parts = ParseRow(texts)
    BY <2>3 DEF Parts
  <2>. QED
    BY <2>3, <2>5, <2>6, RowsTellApart
<1>. QED
  BY <1>1, RowInvHolds, OwnInvHolds, PTL

=============================================================================
