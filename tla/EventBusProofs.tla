--------------------------- MODULE EventBusProofs ---------------------------
(***************************************************************************)
(* Proofs about EventBus, for every set of consumers and updates: types,   *)
(* numbering, and that a subscriber loses, repeats and reorders nothing.   *)
(***************************************************************************)
EXTENDS EventBus, SequenceTheorems, TLAPS

\* What is left of a suffix when its first element is taken.
LEMMA SuffixTail ==
    ASSUME NEW S, NEW q \in Seq(S), NEW k \in Nat, k < Len(q)
    PROVE  Tail(SubSeq(q, k + 1, Len(q))) = SubSeq(q, k + 2, Len(q))
<1>. DEFINE rest == SubSeq(q, k + 1, Len(q))
            after == SubSeq(q, k + 2, Len(q))
<1>1. rest \in Seq(S) /\ Len(rest) = Len(q) - k
      /\ \A i \in 1..Len(rest) : rest[i] = q[k + i]
  BY SubSeqProperties
<1>2. after \in Seq(S) /\ Len(after) = Len(q) - k - 1
      /\ \A i \in 1..Len(after) : after[i] = q[k + 1 + i]
  BY SubSeqProperties
<1>. HIDE DEF rest, after
<1>3. Tail(rest) \in Seq(S) /\ Len(Tail(rest)) = Len(rest) - 1
      /\ \A i \in 1..Len(Tail(rest)) : Tail(rest)[i] = rest[i + 1]
  BY <1>1, HeadTailProperties
<1>4. \A i \in 1..Len(after) : Tail(rest)[i] = after[i]
  BY <1>1, <1>2, <1>3
<1>5. Tail(rest) = after
  BY <1>1, <1>2, <1>3, <1>4, SeqEqual
<1>. QED
  BY <1>5 DEF rest, after

\* A suffix grows with its sequence.
LEMMA SuffixConcat ==
    ASSUME NEW S, NEW q \in Seq(S), NEW r \in Seq(S), NEW k \in Nat, k <= Len(q)
    PROVE  SubSeq(q, k + 1, Len(q)) \o r = SubSeq(q \o r, k + 1, Len(q \o r))
<1>. DEFINE old == SubSeq(q, k + 1, Len(q))
            new == SubSeq(q \o r, k + 1, Len(q \o r))
<1>1. q \o r \in Seq(S) /\ Len(q \o r) = Len(q) + Len(r)
      /\ \A i \in 1..Len(q) + Len(r) :
            (q \o r)[i] = IF i <= Len(q) THEN q[i] ELSE r[i - Len(q)]
  BY ConcatProperties
<1>2. old \in Seq(S) /\ Len(old) = Len(q) - k
      /\ \A i \in 1..Len(old) : old[i] = q[k + i]
  BY SubSeqProperties
<1>3. new \in Seq(S) /\ Len(new) = Len(q) + Len(r) - k
      /\ \A i \in 1..Len(new) : new[i] = (q \o r)[k + i]
  BY <1>1, SubSeqProperties
<1>. HIDE DEF old, new
<1>4. old \o r \in Seq(S) /\ Len(old \o r) = Len(old) + Len(r)
      /\ \A i \in 1..Len(old) + Len(r) :
            (old \o r)[i] = IF i <= Len(old) THEN old[i] ELSE r[i - Len(old)]
  BY <1>2, ConcatProperties
<1>5. Len(new) = Len(old \o r)
  BY <1>2, <1>3, <1>4
<1>6. \A i \in 1..Len(new) : new[i] = (old \o r)[i]
  BY <1>1, <1>2, <1>3, <1>4
<1>7. old \o r = new
  BY <1>3, <1>4, <1>5, <1>6, SeqEqual
<1>. QED
  BY <1>7 DEF old, new

-----------------------------------------------------------------------------

\* A generator that was not asked for an event yet has received none.
Fresh ==
    \A c \in Consumers :
        stage[c] \in {"none", "created"} => taken[c] = 0 /\ queue[c] = << >>

Inv == TypeOK /\ Registered /\ Fresh /\ Numbering /\ Delivery

\* Numbering a batch keeps its length and gives each event the next number of
\* the bus (feed.py:86-88).
LEMMA NumberedProperties ==
    ASSUME TypeOK, NEW us \in Seq(Updates)
    PROVE  /\ Numbered(us) \in Seq(Events)
           /\ Len(Numbered(us)) = Len(us)
           /\ \A i \in 1..Len(us) : Numbered(us)[i].seq = seq + i - 1
<1>1. \A i \in 1..Len(us) : [seq |-> seq + i - 1, update |-> us[i]] \in Events
  BY DEF TypeOK, Events
<1>. QED
  BY <1>1 DEF Numbered

\* Publishing a batch appends the same events to the log and to the queue of
\* every registered subscriber (feed.py:80-91).
LEMMA PublishStep ==
    ASSUME Inv, NEW us \in Seq(Updates), PublishAll(us)
    PROVE  Inv'
<1>. DEFINE new == Numbered(us)
<1>1. new \in Seq(Events) /\ Len(new) = Len(us) /\ Len(us) \in Nat
      /\ \A i \in 1..Len(us) : new[i].seq = seq + i - 1
  BY NumberedProperties DEF Inv
<1>2. /\ log' = log \o new
      /\ seq' = seq + Len(us)
      /\ queue' = [c \in Consumers |-> IF c \in subs THEN queue[c] \o new ELSE queue[c]]
      /\ UNCHANGED <<subs, stage, joined, taken>>
  BY DEF PublishAll
<1>. HIDE DEF new
<1>3. /\ log' \in Seq(Events)
      /\ Len(log') = Len(log) + Len(us)
      /\ \A i \in 1..Len(log) + Len(us) :
            log'[i] = IF i <= Len(log) THEN log[i] ELSE new[i - Len(log)]
  <2>1. log \in Seq(Events) /\ new \in Seq(Events)
    BY <1>1 DEF Inv, TypeOK
  <2>2. /\ log \o new \in Seq(Events)
        /\ Len(log \o new) = Len(log) + Len(new)
        /\ \A i \in 1..Len(log) + Len(new) :
              (log \o new)[i] = IF i <= Len(log) THEN log[i] ELSE new[i - Len(log)]
    BY <2>1, ConcatProperties
  <2>. QED
    BY <1>1, <1>2, <2>2
<1>4. TypeOK'
  <2>1. \A c \in Consumers : queue[c] \o new \in Seq(Events)
    BY <1>1, ConcatProperties DEF Inv, TypeOK
  <2>. QED
    BY <1>1, <1>2, <1>3, <2>1 DEF Inv, TypeOK
<1>5. Registered'
  BY <1>2 DEF Inv, Registered
<1>6. Numbering'
  <2>1. seq = Len(log) /\ seq \in Nat
    BY DEF Inv, TypeOK, Numbering
  <2>2. \A i \in 1..Len(log') : log'[i].seq = i - 1
    <3>. SUFFICES ASSUME NEW i \in 1..Len(log') PROVE log'[i].seq = i - 1
      OBVIOUS
    <3>1. CASE i <= Len(log)
      BY <1>3, <2>1, <3>1 DEF Inv, Numbering
    <3>2. CASE i > Len(log)
      <4>1. i - Len(log) \in 1..Len(us) /\ log'[i] = new[i - Len(log)]
        BY <1>1, <1>3, <2>1, <3>2
      <4>. QED
        BY <1>1, <2>1, <4>1
    <3>. QED
      BY <2>1, <3>1, <3>2
  <2>3. seq' = Len(log')
    BY <1>2, <1>3, <2>1
  <2>4. log' = << >> <=> Len(log') = 0
    BY <1>3, EmptySeq
  <2>5. CASE log' = << >>
    BY <2>2, <2>3, <2>4, <2>5 DEF Numbering, LastSeq
  <2>6. CASE log' # << >>
    <3>1. Len(log') \in Nat \ {0}
      BY <1>1, <1>3, <2>1, <2>4, <2>6
    <3>2. log'[Len(log')].seq = Len(log') - 1
      BY <2>2, <3>1
    <3>. QED
      BY <2>2, <2>3, <2>6, <3>1, <3>2 DEF Numbering, LastSeq
  <2>. QED
    BY <2>5, <2>6
<1>7. Delivery'
  <2>. SUFFICES ASSUME NEW c \in subs
                PROVE  /\ joined[c] + taken[c] <= Len(log')
                       /\ queue'[c] = SubSeq(log', joined[c] + taken[c] + 1, Len(log'))
    BY <1>2 DEF Delivery
  <2>1. /\ joined[c] + taken[c] \in Nat
        /\ joined[c] + taken[c] <= Len(log)
        /\ queue[c] = SubSeq(log, joined[c] + taken[c] + 1, Len(log))
    BY DEF Inv, TypeOK, Delivery
  <2>2. queue[c] \o new = SubSeq(log', joined[c] + taken[c] + 1, Len(log'))
    BY <1>1, <1>2, <2>1, SuffixConcat DEF Inv, TypeOK
  <2>3. queue'[c] = queue[c] \o new /\ Len(log) \in Nat
    BY <1>2 DEF Inv, TypeOK
  <2>4. joined[c] + taken[c] <= Len(log')
    BY <1>1, <1>3, <2>1, <2>3
  <2>. QED
    BY <2>2, <2>3, <2>4
<1>8. Fresh'
  BY <1>2 DEF Inv, Fresh, Registered
<1>. QED
  BY <1>8, <1>4, <1>5, <1>6, <1>7 DEF Inv

\* A subscriber that takes the head of its queue still has the rest of the
\* log in it (feed.py:104).
LEMMA TakeStep ==
    ASSUME Inv, NEW c \in Consumers, Take(c)
    PROVE  Inv'
<1>1. c \in subs
  BY DEF Inv, Registered, Take
<1>2. TypeOK'
  BY DEF Inv, TypeOK, Take
<1>3. Registered' /\ Fresh' /\ Numbering'
  BY DEF Inv, TypeOK, Take, Registered, Fresh, Numbering, LastSeq
<1>4. Delivery'
  <2>. DEFINE k == joined[c] + taken[c]
  <2>1. k \in Nat /\ k <= Len(log) /\ queue[c] = SubSeq(log, k + 1, Len(log))
    BY <1>1 DEF Inv, TypeOK, Delivery
  <2>2. k < Len(log)
    <3>1. Len(queue[c]) = IF k + 1 <= Len(log) THEN Len(log) - k ELSE 0
      BY <2>1, SubSeqProperties DEF Inv, TypeOK
    <3>2. Len(queue[c]) # 0
      BY EmptySeq DEF Inv, TypeOK, Take
    <3>. QED
      BY <2>1, <3>1, <3>2 DEF Inv, TypeOK
  <2>3. Tail(queue[c]) = SubSeq(log, k + 2, Len(log))
    BY <2>1, <2>2, SuffixTail DEF Inv, TypeOK
  <2>4. queue'[c] = SubSeq(log', joined'[c] + taken'[c] + 1, Len(log'))
        /\ joined'[c] + taken'[c] <= Len(log')
    <3>1. log' = log /\ queue'[c] = Tail(queue[c])
      BY DEF Take, Inv, TypeOK
    <3>2. joined'[c] = joined[c] /\ taken'[c] = taken[c] + 1
      BY DEF Take, Inv, TypeOK
    <3>3. joined'[c] + taken'[c] = k + 1
      BY <3>2 DEF Inv, TypeOK
    <3>4. k + 2 = (k + 1) + 1 /\ k + 1 <= Len(log)
      BY <2>1, <2>2 DEF Inv, TypeOK
    <3>. HIDE DEF k
    <3>. QED
      BY <2>3, <3>1, <3>3, <3>4
  <2>5. \A d \in subs \ {c} : /\ joined'[d] + taken'[d] = joined[d] + taken[d]
                              /\ queue'[d] = queue[d]
    BY DEF Take, Inv, TypeOK
  <2>. QED
    BY <2>4, <2>5 DEF Take, Inv, Delivery
<1>. QED
  BY <1>2, <1>3, <1>4 DEF Inv

\* A subscriber that registers starts from an empty queue at the end of the
\* log (feed.py:99-101).
LEMMA RegisterStep ==
    ASSUME Inv, NEW c \in Consumers, Register(c)
    PROVE  Inv'
<1>1. TypeOK' /\ Registered' /\ Fresh' /\ Numbering'
  BY DEF Inv, Register, TypeOK, Registered, Fresh, Numbering, LastSeq
<1>2. Delivery'
  <2>1. SubSeq(log, Len(log) + 1, Len(log)) = << >>
    BY SubSeqEmpty DEF Inv, TypeOK
  <2>2. /\ queue'[c] = << >> /\ taken'[c] = 0 /\ joined'[c] = Len(log) /\ log' = log
        /\ Len(log) \in Nat
    BY DEF Inv, Register, TypeOK, Fresh
  <2>3. joined'[c] + taken'[c] + 1 = Len(log) + 1 /\ joined'[c] + taken'[c] <= Len(log)
    BY <2>2
  <2>4. queue'[c] = SubSeq(log', joined'[c] + taken'[c] + 1, Len(log'))
    BY <2>1, <2>2, <2>3
  <2>5. \A d \in subs \ {c} : joined'[d] = joined[d] /\ taken'[d] = taken[d] /\ queue'[d] = queue[d]
    BY DEF Inv, Register, TypeOK
  <2>. QED
    BY <2>2, <2>3, <2>4, <2>5 DEF Register, Inv, Delivery
<1>. QED
  BY <1>1, <1>2 DEF Inv

\* A new bus has published nothing and has no subscriber (feed.py:70-74).
LEMMA InvInit == Init => Inv
<1>. SUFFICES ASSUME Init PROVE Inv
  OBVIOUS
<1>1. << >> \in Seq(Events) /\ Len(<< >>) = 0
  BY EmptySeq
<1>. QED
  BY <1>1 DEF Init, Inv, TypeOK, Registered, Fresh, Numbering, LastSeq, Delivery

\* Every operation of the bus keeps the inductive invariant.
LEMMA InvStep == Inv /\ [Next]_vars => Inv'
<1>. SUFFICES ASSUME Inv, [Next]_vars PROVE Inv'
  OBVIOUS
<1>1. ASSUME NEW c \in Consumers, Subscribe(c) PROVE Inv'
  <2>1. Len(log) \in Nat
    BY DEF Inv, TypeOK
  <2>. QED
    BY <1>1, <2>1 DEF Subscribe, Inv, TypeOK, Registered, Fresh, Numbering, LastSeq, Delivery
<1>2. ASSUME NEW c \in Consumers, Leave(c) PROVE Inv'
  BY <1>2 DEF Leave, Inv, TypeOK, Registered, Fresh, Numbering, LastSeq, Delivery
<1>3. ASSUME NEW u \in Updates, Publish(u) PROVE Inv'
  <2>1. <<u>> \in Seq(Updates)
    OBVIOUS
  <2>. QED
    BY <1>3, <2>1, PublishStep DEF Publish
<1>4. CASE UNCHANGED vars
  BY <1>4 DEF vars, Inv, TypeOK, Registered, Fresh, Numbering, LastSeq, Delivery
<1>. QED
  BY <1>1, <1>2, <1>3, <1>4, RegisterStep, TakeStep DEF Next, Consuming

\* The inductive invariant holds in every reachable state.
LEMMA Invariance == Spec => []Inv
BY InvInit, InvStep, PTL DEF Spec

\* The bus keeps its types for every set of consumers and updates.
THEOREM BusTypeCorrect == Spec => []TypeOK
<1>1. Inv => TypeOK
  BY DEF Inv
<1>. QED
  BY <1>1, Invariance, PTL

\* Whatever subscribes, leaves and is published, the events are numbered
\* without gaps and last_seq() names the newest.
THEOREM BusNumbers == Spec => []Numbering
<1>1. Inv => Numbering
  BY DEF Inv
<1>. QED
  BY <1>1, Invariance, PTL

\* A registered subscriber loses, repeats and reorders no event: what it was
\* handed and what its queue holds is the log from its registration on.
THEOREM BusDelivers == Spec => []Delivery
<1>1. Inv => Delivery
  BY DEF Inv
<1>. QED
  BY <1>1, Invariance, PTL

=============================================================================
