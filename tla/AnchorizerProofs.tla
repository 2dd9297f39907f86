--------------------------- MODULE AnchorizerProofs ----------------------------
(***************************************************************************)
(* The ids of a document's headings are distinct, and each is the one a    *)
(* search from the start would find, for every set of texts and every      *)
(* number of headings.                                                     *)
(*                                                                         *)
(* That a suffix the cache skips is taken is inductive with ids being what *)
(* was given.  That the suffix found is never above the number of headings *)
(* is a matter of counting: the anchors of one text are distinct.          *)
(***************************************************************************)
EXTENDS Anchorizer, FiniteSetTheorems, TLAPS

Noted == ids = Headings!Taken

\* A heading that is being given an anchor is one the document has room for
Room == call # Idle => Len(given) < MaxHeadings

\* The inductive invariant
Inv == TypeOK /\ CacheSound /\ Noted /\ Distinct /\ Room

\* Adding a suffix makes an anchor
LEMMA AnchorIsAnchor ==
  ASSUME NEW t \in Seq(Nat), NEW n \in Nat
  PROVE  Anchor(t, n) \in Seq(Nat)
BY DEF Anchor, Headings!Anchor

\* The anchors of one text are distinct
LEMMA AnchorsDiffer ==
  ASSUME NEW t \in Seq(Nat), NEW m \in Nat, NEW n \in Nat, Anchor(t, m) = Anchor(t, n)
  PROVE  m = n
<1>1. CASE m = 0 /\ n = 0
  BY <1>1
<1>2. CASE m = 0 /\ n # 0
  <2>1. Len(Anchor(t, n)) = Len(t) + 1
    BY <1>2 DEF Anchor, Headings!Anchor
  <2>2. QED
    BY <1>2, <2>1 DEF Anchor, Headings!Anchor
<1>3. CASE m # 0 /\ n = 0
  <2>1. Len(Anchor(t, m)) = Len(t) + 1
    BY <1>3 DEF Anchor, Headings!Anchor
  <2>2. QED
    BY <1>3, <2>1 DEF Anchor, Headings!Anchor
<1>4. CASE m # 0 /\ n # 0
  <2>1. Append(t, m)[Len(t) + 1] = m /\ Append(t, n)[Len(t) + 1] = n
    OBVIOUS
  <2>2. QED
    BY <1>4, <2>1 DEF Anchor, Headings!Anchor
<1>5. QED
  BY <1>1, <1>2, <1>3, <1>4

\* No more suffixes of a text are taken than there are headings
LEMMA SuffixesTaken ==
  ASSUME NEW t \in Seq(Nat), NEW n \in Nat, given \in Seq([title : Titles, anchor : Seq(Nat)]),
         \A m \in 0..(n - 1) : Anchor(t, m) \in Headings!Taken
  PROVE  n <= Len(given)
<1> DEFINE S == 0..(n - 1)
           T == 1..Len(given)
           f == [m \in S |-> CHOOSE i \in T : given[i].anchor = Anchor(t, m)]
<1>1. \A m \in S : f[m] \in T /\ given[f[m]].anchor = Anchor(t, m)
  <2>1. \A m \in S : \E i \in T : given[i].anchor = Anchor(t, m)
    <3>1. DOMAIN given = T
      OBVIOUS
    <3>2. QED
      BY <3>1 DEF Headings!Taken
  <2>2. QED
    BY <2>1
<1>2. f \in Injection(S, T)
  <2>1. f \in [S -> T]
    BY <1>1
  <2>2. \A a, b \in S : f[a] = f[b] => a = b
    <3> SUFFICES ASSUME NEW a \in S, NEW b \in S, f[a] = f[b] PROVE a = b
      OBVIOUS
    <3>1. Anchor(t, a) = Anchor(t, b)
      BY <1>1
    <3>2. QED
      BY <3>1, AnchorsDiffer
  <2>3. QED
    BY <2>1, <2>2 DEF Injection, IsInjective
<1>3. IsFiniteSet(T) /\ Cardinality(T) = Len(given) /\ Cardinality(S) = n
  <2>1. Len(given) \in Nat
    OBVIOUS
  <2>2. IsFiniteSet(T) /\ Cardinality(T) = Len(given)
    <3>1. PICK k \in Nat : k = Len(given)
      BY <2>1
    <3>2. IsFiniteSet(1..k) /\ Cardinality(1..k) = IF 1 > k THEN 0 ELSE k - 1 + 1
      BY FS_Interval
    <3>3. QED
      BY <3>1, <3>2
  <2>3. Cardinality(S) = n
    <3>1. Cardinality(S) = IF 0 > n - 1 THEN 0 ELSE n - 1 - 0 + 1
      BY FS_Interval
    <3>2. QED
      BY <3>1
  <2>4. QED
    BY <2>2, <2>3
<1>4. QED
  BY <1>2, <1>3, FS_Injection

\* The initial state satisfies the invariant
LEMMA InitInv == Init => Inv
<1> SUFFICES ASSUME Init PROVE Inv
  OBVIOUS
<1> USE DEF Init
<1>1. TypeOK
  BY DEF TypeOK
<1>2. CacheSound
  BY DEF CacheSound
<1>3. Noted /\ Distinct /\ Room
  BY DEF Noted, Distinct, Room, Headings!Taken, Headings!Distinct
<1>4. QED
  BY <1>1, <1>2, <1>3 DEF Inv

\* What was given before stays given, and the new anchor is there
LEMMA TakenGrows ==
  ASSUME given \in Seq([title : Titles, anchor : Seq(Nat)]),
         NEW g \in [title : Titles, anchor : Seq(Nat)], given' = Append(given, g)
  PROVE  Headings!Taken' = Headings!Taken \cup {g.anchor}
<1>1. DOMAIN given' = DOMAIN given \cup {Len(given) + 1}
  OBVIOUS
<1>2. \A i \in DOMAIN given : given'[i] = given[i]
  OBVIOUS
<1>3. given'[Len(given) + 1] = g
  OBVIOUS
<1>4. QED
  BY <1>1, <1>2, <1>3 DEF Headings!Taken

\* Choose keeps the invariant
LEMMA ChooseInv == ASSUME Inv, Choose PROVE Inv'
<1> DEFINE t == call.title
           n == call.uniq
           a == Anchor(t, n)
           g == [title |-> t, anchor |-> a]
<1>1. t \in Titles /\ t \in Seq(Nat) /\ n \in Nat /\ call # Idle
  BY TitlesAreAnchors DEF Inv, TypeOK, Choose, Calls
<1>2. a \in Seq(Nat) /\ g \in [title : Titles, anchor : Seq(Nat)]
  BY <1>1, AnchorIsAnchor
<1>3. given \in Seq([title : Titles, anchor : Seq(Nat)])
  BY DEF Inv, TypeOK
<1>4. given' = Append(given, g) /\ ids' = ids \cup {a} /\ call' = Idle /\ a \notin ids
  BY DEF Choose
<1>5. next_suffix' = [next_suffix EXCEPT ![t] = n + 1] /\ next_suffix \in [Titles -> Nat]
  BY DEF Choose, Inv, TypeOK
<1>6. TypeOK'
  <2>1. ids' \subseteq Seq(Nat)
    BY <1>2, <1>4 DEF Inv, TypeOK
  <2>2. next_suffix' \in [Titles -> Nat]
    BY <1>1, <1>5
  <2>3. given' \in Seq([title : Titles, anchor : Seq(Nat)])
    BY <1>2, <1>3, <1>4
  <2>4. QED
    BY <2>1, <2>2, <2>3, <1>4 DEF TypeOK
<1>7. CacheSound'
  <2>1. ASSUME NEW u \in Titles, NEW m \in 0..(next_suffix'[u] - 1)
        PROVE  Anchor(u, m) \in ids'
    <3>1. CASE u = t /\ m = n
      BY <3>1, <1>4
    <3>2. CASE u = t /\ m # n
      <4>1. m \in 0..(n - 1)
        BY <3>2, <1>1, <1>5
      <4>2. QED
        BY <3>2, <4>1, <1>1, <1>4 DEF Inv, CacheSound
    <3>3. CASE u # t
      <4>1. m \in 0..(next_suffix[u] - 1)
        BY <3>3, <1>5
      <4>2. QED
        BY <4>1, <1>4 DEF Inv, CacheSound
    <3>4. QED
      BY <3>1, <3>2, <3>3
  <2>2. QED
    BY <2>1, <1>4 DEF CacheSound, Anchor, Headings!Anchor
<1>8. Noted'
  BY <1>2, <1>3, <1>4, TakenGrows DEF Inv, Noted
<1>9. Distinct'
  <2>1. DOMAIN given' = DOMAIN given \cup {Len(given) + 1}
    BY <1>2, <1>3, <1>4
  <2>2. \A i \in DOMAIN given : given'[i] = given[i] /\ given[i].anchor # a
    BY <1>2, <1>3, <1>4 DEF Inv, Noted, Headings!Taken
  <2>3. given'[Len(given) + 1].anchor = a
    BY <1>2, <1>3, <1>4
  <2>4. QED
    BY <2>1, <2>2, <2>3 DEF Inv, Distinct, Headings!Distinct
<1>10. Room'
  BY <1>4 DEF Room
<1>11. QED
  BY <1>6, <1>7, <1>8, <1>9, <1>10 DEF Inv

\* Every step keeps the invariant
LEMMA NextInv == ASSUME Inv, [Next]_vars PROVE Inv'
<1>1. ASSUME NEW t \in Titles, Start(t) PROVE Inv'
  <2> DEFINE c == [title |-> t, uniq |-> next_suffix[t]]
  <2>1. call' = c /\ c \in Calls /\ UNCHANGED <<ids, next_suffix, given>>
    BY <1>1 DEF Start, Inv, TypeOK, Calls
  <2>2. TypeOK'
    BY <2>1 DEF Inv, TypeOK
  <2>3. CacheSound'
    BY <2>1 DEF Inv, CacheSound, Anchor, Headings!Anchor
  <2>4. Noted' /\ Distinct' /\ Room'
    BY <1>1, <2>1 DEF Start, Inv, Noted, Distinct, Room, Headings!Taken, Headings!Distinct
  <2>5. QED
    BY <2>2, <2>3, <2>4 DEF Inv
<1>2. ASSUME Advance PROVE Inv'
  <2>1. call \in Calls /\ call # Idle
    BY <1>2 DEF Inv, TypeOK, Advance
  <2>2. call'.title = call.title /\ call'.uniq = call.uniq + 1 /\ call' \in Calls
    BY <1>2, <2>1 DEF Advance, Calls
  <2>3. UNCHANGED <<ids, next_suffix, given>> /\ Anchor(call.title, call.uniq) \in ids
    BY <1>2 DEF Advance
  <2>4. TypeOK'
    BY <2>2, <2>3 DEF Inv, TypeOK
  <2>5. CacheSound'
    <3>1. ASSUME NEW m \in 0..(call'.uniq - 1) PROVE Anchor(call.title, m) \in ids
      <4>1. call.uniq \in Nat
        BY <2>1 DEF Calls
      <4>2. m = call.uniq \/ m \in 0..(call.uniq - 1)
        BY <2>2, <4>1
      <4>3. QED
        BY <4>2, <2>1, <2>3 DEF Inv, CacheSound
    <3>2. QED
      BY <3>1, <2>2, <2>3 DEF Inv, CacheSound, Anchor, Headings!Anchor
  <2>6. Noted' /\ Distinct' /\ Room'
    BY <2>1, <2>3 DEF Inv, Noted, Distinct, Room, Headings!Taken, Headings!Distinct
  <2>7. QED
    BY <2>4, <2>5, <2>6 DEF Inv
<1>3. ASSUME Choose PROVE Inv'
  BY <1>3, ChooseInv
<1>4. ASSUME UNCHANGED vars PROVE Inv'
  <2>1. TypeOK'
    BY <1>4 DEF vars, Inv, TypeOK
  <2>2. CacheSound'
    BY <1>4 DEF vars, Inv, CacheSound, Anchor, Headings!Anchor
  <2>3. Noted' /\ Distinct' /\ Room'
    BY <1>4 DEF vars, Inv, Noted, Distinct, Room, Headings!Taken, Headings!Distinct
  <2>4. QED
    BY <2>1, <2>2, <2>3 DEF Inv
<1>5. QED
  BY <1>1, <1>2, <1>3, <1>4 DEF Next, Done

\* The suffix cache of every text skips only anchors that are taken: next_suffix is sound at every
\* moment of anchorize
THEOREM CacheIsSound == Spec => []CacheSound
<1>1. Inv => CacheSound
  BY DEF Inv
<1>2. QED
  BY <1>1, InitInv, NextInv, PTL DEF Spec

\* anchorize never returns the same id for two headings of a document
THEOREM IdsDistinct == Spec => []Distinct
<1>1. Inv => Distinct
  BY DEF Inv
<1>2. QED
  BY <1>1, InitInv, NextInv, PTL DEF Spec

\* A step of the cached search is a step of the abstract search from the start, or none
LEMMA StepImplements ==
  ASSUME Inv, [Next]_vars
  PROVE  [Headings!Next]_given
<1>1. ASSUME Choose PROVE Headings!Next
  <2> DEFINE t == call.title
             n == call.uniq
  <2>1. t \in Titles /\ t \in Seq(Nat) /\ n \in Nat /\ call # Idle
    BY <1>1, TitlesAreAnchors DEF Inv, TypeOK, Choose, Calls
  <2>2. \A m \in 0..(n - 1) : Anchor(t, m) \in Headings!Taken
    BY <2>1 DEF Inv, CacheSound, Noted
  <2>3. n \in 0..Len(given)
    <3>1. given \in Seq([title : Titles, anchor : Seq(Nat)])
      BY DEF Inv, TypeOK
    <3>2. Len(given) \in Nat
      BY <3>1
    <3>3. n <= Len(given)
      BY <2>1, <2>2, <3>1, SuffixesTaken
    <3>4. QED
      BY <2>1, <3>2, <3>3
  <2>4. Headings!Give(t, n)
    <3>1. Len(given) < MaxHeadings
      BY <1>1, <2>1 DEF Choose, Inv, Room
    <3>2. Headings!Anchor(t, n) \notin Headings!Taken
      BY <1>1 DEF Choose, Inv, Noted, Anchor
    <3>3. given' = Append(given, [title |-> t, anchor |-> Headings!Anchor(t, n)])
      BY <1>1 DEF Choose, Anchor
    <3>4. QED
      BY <2>2, <3>1, <3>2, <3>3 DEF Headings!Give, Anchor
  <2>5. QED
    BY <2>1, <2>3, <2>4 DEF Headings!Next
<1>2. ASSUME ~Choose PROVE given' = given
  BY <1>2 DEF Next, Start, Advance, Done, vars
<1>3. QED
  BY <1>1, <1>2

\* The cached search of anchorize implements the search from the start
THEOREM Implements == Spec => ImplementsHeadings
<1>1. Init => Headings!Init
  BY DEF Init, Headings!Init
<1>2. QED
  BY <1>1, InitInv, NextInv, StepImplements, PTL DEF Spec, ImplementsHeadings, Headings!Spec
================================================================================
