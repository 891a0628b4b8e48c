----------------------------- MODULE MCInfoPage -----------------------------
(* InfoPage with small tables: short, long, repeated and blank rows, columns
   that differ, lack English or an id, or come twice; and the values of the
   rows in the repository's corpus of panel rows.  Beside it InfoText, whose
   bytes do not depend on any of that: it runs on one catalog only. *)
EXTENDS InfoPage, InfoText, TLC

CONSTANTS ID, ENG, POL, DEU

File(columns, rows) == [columns |-> columns, data |-> rows]

Regular ==
    File(<<ID, ENG, POL>>,
         << <<1, <<"Pump">>, <<"Pompa">> >>,
            <<2, <<"Flow", "-", "now", "/", "set">>, << >> >>,
            <<3, <<"Mode">>, <<"Tryb">> >>,
            <<4, <<"old">> >>,
            <<4, <<"Room", "/", "set.">>, None, <<"lost">> >>,
            << >>,
            <<5, << >>, <<"Room", "humidity", "/", "Room">> >>,
            <<6, <<"Room", "humidity", "/", "Room", "humidity">> >>,
            <<7, <<"Tryb", "(", "1", ")">> >> >>)

SomeFiles ==
    {Regular,
     File(<<ID, POL, ENG, POL>>, << <<1, << >>, <<"Pump">>, <<"Pompa">> >> >>),
     File(<<ID, DEU, POL>>, << <<1, <<"Pumpe">>, <<"Pompa">> >> >>),
     File(<<ENG, POL>>, << >>),
     File(<< >>, << >>)}

SomeWishes == {Index(n) : n \in -1..3} \cup {Code(c) : c \in {ID, ENG, POL, DEU}} \cup {OddDigits}

DeviceLabel == <<"Device">>

SomeSlotTexts == {<< >>, <<"Modus">>}

SomeValues ==
    {<<"Comfort">>, <<"Auto", "(", "Comfort", ")">>, <<"OFF", "/", "6", "min">>,
     <<"6", "min", "/", "OPEN">>, <<"ON", "/", "STOP">>, <<"20", "C", "/", "Summer">>, <<"Summer", "/", "20">>,
     <<"---", "C", "/", "20", "C">>, <<"20", "/", "6", "C">>, <<"20", "C", "(", "6", "%", ")">>,
     <<"S/N", "20">>, << >>, <<"OFF", "/", "Summer">>, <<"Summer", "/", "ON">>,
     <<"Pump", "/", "20">>, <<"Modus">>, <<"Flow", "(", "Room", ")", "(", "-", ")">>}

SomeStems == {<< <<"Room">>, <<"Room", "humidity">> >>}

SomeRows ==
    [caption : (1..7) \cup {9, EMPTY_TEXT_ID} \cup (OWN_TEXT_OFFSET..OWN_TEXT_OFFSET + 2),
     text_a : {1, 3, 4, EMPTY_TEXT_ID, OWN_TEXT_OFFSET},
     text_b : {1, 3, EMPTY_TEXT_ID}, value : SomeValues]

CatalogAtRest == ui = Regular /\ regulator = Regular /\ language = None /\ failed = None

MCInit == Init /\ ValueInit

\* decode_own_text() awaits nothing: no other step comes between its own.  A row
\* reads no more than the selected column, so one is shown where the latest
\* select() succeeded, and not once more for every way to fail.
MCNext ==
    \/ /\ written = << >> /\ phase = "writing"
       /\ UNCHANGED expansion
       /\ \/ stage \in {"panel", "splitting"} /\ OwnStep
          \/ stage = "decoded" /\ ((failed = None /\ Show) \/ CatalogStep)
    \/ /\ CatalogAtRest /\ stage = "panel" /\ slots = << >>
       /\ ValueNext
       /\ UNCHANGED vars

MCSpec == MCInit /\ [][MCNext]_<<vars, expansion>>

=============================================================================
