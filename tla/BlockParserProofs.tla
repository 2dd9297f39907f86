--------------------------- MODULE BlockParserProofs ---------------------------
(***************************************************************************)
(* The block phase stays on an open path of a valid tree, and none of its  *)
(* assertions fails, for every set of lines and every length of the input. *)
(* Without the markers of the extensions that close what is above them,    *)
(* nothing stays open and the first definition of a label is the one kept. *)
(***************************************************************************)
EXTENDS BlockParser, SequenceTheorems, WellFoundedInduction, TLAPS

(***************************************************************************)
(* Numbers and sequences                                                   *)
(***************************************************************************)
\* A set of numbers has a first one
LEMMA FirstExists ==
  ASSUME NEW S \in SUBSET Nat, S # {}
  PROVE  \E d \in S : \A e \in S : d <= e
<1>1. PICK d \in S : \A e \in S : <<e, d>> \notin OpToRel(<, Nat)
  BY NatLessThanWellFounded, WFMin
<1>2. \A e \in S : ~(e < d)
  BY <1>1 DEF OpToRel
<1>3. QED
  BY <1>2

\* A set of numbers up to another has a last one
LEMMA LastExists ==
  ASSUME NEW S \in SUBSET Nat, S # {}, NEW c \in Nat, \A d \in S : d <= c
  PROVE  \E d \in S : \A e \in S : e <= d
<1> DEFINE D == {c - d : d \in S}
<1>1. D \in SUBSET Nat /\ D # {}
  <2>1. \A d \in S : c - d \in Nat
    OBVIOUS
  <2>2. QED
    BY <2>1
<1>2. PICK m \in D : \A k \in D : m <= k
  BY <1>1, FirstExists
<1>3. PICK d \in S : m = c - d
  OBVIOUS
<1>4. ASSUME NEW e \in S PROVE e <= d
  <2>1. c - e \in D /\ m <= c - e
    BY <1>2
  <2>2. e \in Nat /\ d \in Nat /\ e <= c /\ d <= c
    OBVIOUS
  <2>3. QED
    BY <1>3, <2>1, <2>2
<1>5. QED
  BY <1>4

\* What holds of 0 and of every successor holds of every number
LEMMA EveryNumber ==
  ASSUME NEW S \in SUBSET Nat, 0 \in S, \A k \in S : k + 1 \in S
  PROVE  S = Nat
<1> SUFFICES ASSUME Nat \ S # {} PROVE FALSE
  OBVIOUS
<1>1. PICK d \in Nat \ S : \A e \in Nat \ S : d <= e
  BY FirstExists
<1>2. d # 0 /\ d - 1 \in Nat /\ ~(d <= d - 1)
  BY <1>1
<1>3. d - 1 \in S
  BY <1>1, <1>2
<1>4. d - 1 + 1 = d
  BY <1>2
<1>5. QED
  BY <1>1, <1>3, <1>4

\* h is what step F makes of A by being repeated
Repeats(h, A, F) == h[0] = A /\ \A k \in Nat \ {0} : h[k] = F[h[k - 1]]

\* A step that is repeated from A on has a function of how often
LEMMA RepeatExists ==
  ASSUME NEW X, NEW A \in X, NEW F \in [X -> X]
  PROVE  \E h \in [Nat -> X] : Repeats(h, A, F)
<1> DEFINE Upto(k, g) == g[0] = A /\ \A i \in 1..k : g[i] = F[g[i - 1]]
           S == {k \in Nat : \E g \in [Nat -> X] : Upto(k, g)}
<1>1. 0 \in S
  <2>1. [i \in Nat |-> A] \in [Nat -> X] /\ Upto(0, [i \in Nat |-> A])
    OBVIOUS
  <2>2. QED
    BY <2>1
<1>2. ASSUME NEW k \in S PROVE k + 1 \in S
  <2>1. k \in Nat
    OBVIOUS
  <2>2. PICK g \in [Nat -> X] : Upto(k, g)
    OBVIOUS
  <2> DEFINE e == [i \in Nat |-> IF i <= k THEN g[i] ELSE F[g[k]]]
  <2>3. e \in [Nat -> X]
    BY <2>1
  <2>4. e[0] = A
    BY <2>1, <2>2
  <2>5. ASSUME NEW i \in 1..(k + 1) PROVE e[i] = F[e[i - 1]]
    <3>1. i - 1 \in Nat /\ i - 1 <= k /\ e[i - 1] = g[i - 1] /\ i \in Nat
      BY <2>1
    <3>2. CASE i <= k
      BY <2>1, <2>2, <3>1, <3>2
    <3>3. CASE i = k + 1
      <4>1. e[i] = F[g[k]] /\ i - 1 = k
        BY <2>1, <3>3
      <4>2. QED
        BY <3>1, <4>1
    <3>4. QED
      BY <2>1, <3>2, <3>3
  <2> HIDE DEF e
  <2>6. QED
    BY <2>1, <2>3, <2>4, <2>5
<1>3. S = Nat
  BY <1>1, <1>2, EveryNumber
<1>4. ASSUME NEW k \in Nat, NEW j \in Nat, NEW g \in [Nat -> X], NEW e \in [Nat -> X],
             Upto(k, g), Upto(j, e), k <= j
      PROVE  \A i \in 0..k : g[i] = e[i]
  <2> DEFINE T == {i \in Nat : i <= k => g[i] = e[i]}
  <2>1. 0 \in T
    BY <1>4
  <2>2. ASSUME NEW i \in T PROVE i + 1 \in T
    <3>1. i \in Nat /\ i + 1 - 1 = i /\ i + 1 \in Nat
      OBVIOUS
    <3>2. ASSUME i + 1 <= k PROVE g[i + 1] = e[i + 1]
      <4>1. i + 1 \in 1..k /\ i + 1 \in 1..j /\ i <= k
        BY <1>4, <3>1, <3>2
      <4>2. g[i + 1] = F[g[i]] /\ e[i + 1] = F[e[i]]
        BY <1>4, <3>1, <4>1
      <4>3. QED
        BY <4>1, <4>2
    <3>3. QED
      BY <3>1, <3>2
  <2>3. T = Nat
    <3> HIDE DEF T
    <3>1. T \in SUBSET Nat
      BY DEF T
    <3>2. QED
      BY <2>1, <2>2, <3>1, EveryNumber
  <2>4. QED
    BY <2>3
<1> DEFINE G(k) == CHOOSE g \in [Nat -> X] : Upto(k, g)
           h == [k \in Nat |-> G(k)[k]]
<1>5. \A k \in Nat : G(k) \in [Nat -> X] /\ Upto(k, G(k))
  BY <1>3
<1> HIDE DEF S
<1>6. h \in [Nat -> X]
  <2> HIDE DEF G, Upto
  <2>1. QED
    BY <1>5
<1>7. h[0] = A
  <2>1. h[0] = G(0)[0] /\ Upto(0, G(0))
    BY <1>5
  <2> HIDE DEF G, h
  <2>2. QED
    BY <2>1
<1>8. ASSUME NEW k \in Nat, k # 0 PROVE h[k] = F[h[k - 1]]
  <2>1. k - 1 \in Nat /\ k - 1 <= k /\ k \in 1..k
    BY <1>8
  <2>2. h[k] = G(k)[k] /\ h[k - 1] = G(k - 1)[k - 1]
    BY <2>1
  <2>3. Upto(k, G(k)) /\ Upto(k - 1, G(k - 1)) /\ G(k) \in [Nat -> X] /\ G(k - 1) \in [Nat -> X]
    BY <1>5, <2>1
  <2> HIDE DEF G, h
  <2>4. G(k)[k] = F[G(k)[k - 1]]
    BY <2>1, <2>3
  <2>5. G(k - 1)[k - 1] = G(k)[k - 1]
    <3>1. k - 1 \in 0..(k - 1)
      BY <2>1
    <3> HIDE DEF Upto
    <3>2. QED
      BY <1>4, <2>1, <2>3, <3>1
  <2>6. QED
    BY <2>2, <2>4, <2>5
<1> HIDE DEF h
<1>9. QED
  BY <1>6, <1>7, <1>8 DEF Repeats

\* The search for a member of a sequence finds none, or a place of the sequence
LEMMA FirstPlace ==
  ASSUME NEW n \in Nat, NEW I \in SUBSET (1..n)
  PROVE  (IF I # {} THEN Min(I) ELSE 0) \in 0..n /\ (I # {} => Min(I) \in I)
<1>1. CASE I = {}
  BY <1>1
<1>2. CASE I # {}
  <2>1. I \in SUBSET Nat
    OBVIOUS
  <2>2. \E d \in I : \A e \in I : d <= e
    BY <1>2, <2>1, FirstExists
  <2>3. Min(I) \in I
    BY <2>2 DEF Min
  <2> DEFINE m == Min(I)
  <2> HIDE DEF m
  <2>4. m \in I
    BY <2>3 DEF m
  <2>5. m \in 0..n
    BY <2>4
  <2>6. QED
    BY <1>2, <2>3, <2>5 DEF m
<1>3. QED
  BY <1>1, <1>2

LEMMA LastPlace ==
  ASSUME NEW n \in Nat, NEW I \in SUBSET (1..n)
  PROVE  (IF I # {} THEN Max(I) ELSE 0) \in 0..n
<1>1. CASE I = {}
  BY <1>1
<1>2. CASE I # {}
  <2>1. I \in SUBSET Nat /\ \A d \in I : d <= n
    OBVIOUS
  <2>2. \E d \in I : \A e \in I : e <= d
    BY <1>2, <2>1, LastExists
  <2>3. \E d \in I : \A e \in I : d >= e
    BY <2>1, <2>2
  <2> DEFINE m == Max(I)
  <2>4. m \in I
    BY <2>3 DEF Max
  <2> HIDE DEF m
  <2>5. m \in 0..n
    BY <2>4
  <2>6. QED
    BY <1>2, <2>5 DEF m
<1>3. QED
  BY <1>1, <1>2

\* No member is its own place twice
Distinct(s) == \A i, j \in DOMAIN s : s[i] = s[j] => i = j

(***************************************************************************)
(* What RemoveFirst leaves of a sequence without repetitions: the others,  *)
(* in their order, so a last one that is not e stays last.                 *)
(***************************************************************************)
Without(r, s, e) ==
  /\ r \in Seq(Nat)
  /\ Distinct(r)
  /\ \A i \in DOMAIN r : \E j \in DOMAIN s :
       /\ r[i] = s[j] /\ s[j] # e
       /\ i < Len(r) \/ s[Len(s)] = e => j < Len(s)
  /\ s # <<>> /\ s[Len(s)] # e => r # <<>> /\ r[Len(r)] = s[Len(s)]

LEMMA RemoveFirstIsWithout ==
  ASSUME NEW s \in Seq(Nat), Distinct(s), NEW e
  PROVE  Without(RemoveFirst(s, e), s, e)
<1> DEFINE I == {i \in 1..Len(s) : s[i] = e}
           r == RemoveFirst(s, e)
<1>1. CASE I = {}
  <2>1. r = s
    BY <1>1 DEF RemoveFirst
  <2>2. \A i \in DOMAIN s : s[i] # e
    BY <1>1
  <2>3. \A i \in DOMAIN s : i \in 1..Len(s)
    OBVIOUS
  <2>4. s # <<>> => Len(s) \in DOMAIN s
    OBVIOUS
  <2>5. \A i \in DOMAIN s : (i < Len(s) \/ s[Len(s)] = e) => i < Len(s)
    BY <2>2, <2>3, <2>4
  <2>6. QED
    BY <2>1, <2>2, <2>5 DEF Without
<1>2. CASE I # {}
  <2> DEFINE k == Min(I)
  <2>1. k \in 1..Len(s) /\ s[k] = e
    <3>1. Len(s) \in Nat /\ I \in SUBSET (1..Len(s))
      OBVIOUS
    <3>2. k \in I
      BY <1>2, <3>1, FirstPlace
    <3>3. QED
      BY <3>2
  <2>2. r = SubSeq(s, 1, k - 1) \o SubSeq(s, k + 1, Len(s))
    <3>1. \E i \in 1..Len(s) : s[i] = e
      BY <2>1
    <3>2. SelectInSeq(s, LAMBDA v : v = e) = Min(I)
      BY <1>2 DEF SelectInSeq
    <3>3. QED
      BY <3>1, <3>2 DEF RemoveFirst, RemoveAt
  <2> HIDE DEF k, I, r
  <2> DEFINE a == SubSeq(s, 1, k - 1)
             b == SubSeq(s, k + 1, Len(s))
  <2>3. /\ a \in Seq(Nat) /\ Len(a) = k - 1
        /\ \A i \in 1..(k - 1) : a[i] = s[i]
    <3>1. 1 \in Int /\ k - 1 \in Int /\ \A i \in 1..(k - 1) : s[i] \in Nat
      BY <2>1
    <3>2. /\ a \in Seq(Nat)
          /\ Len(a) = IF 1 <= k - 1 THEN k - 1 - 1 + 1 ELSE 0
          /\ \A i \in 1..(k - 1 - 1 + 1) : a[i] = s[1 + i - 1]
      BY <3>1, SubSeqProperties
    <3> HIDE DEF a
    <3>3. Len(a) = k - 1
      BY <2>1, <3>2
    <3>4. ASSUME NEW i \in 1..(k - 1) PROVE a[i] = s[i]
      <4>1. i \in 1..(k - 1 - 1 + 1) /\ 1 + i - 1 = i
        BY <2>1
      <4>2. QED
        BY <3>2, <4>1
    <3>5. QED
      BY <3>2, <3>3, <3>4
  <2>4. /\ b \in Seq(Nat) /\ Len(b) = Len(s) - k
        /\ \A i \in 1..(Len(s) - k) : b[i] = s[k + i]
    <3>1. k + 1 \in Int /\ Len(s) \in Int /\ \A i \in (k + 1)..Len(s) : s[i] \in Nat
      BY <2>1
    <3>2. /\ b \in Seq(Nat)
          /\ Len(b) = IF k + 1 <= Len(s) THEN Len(s) - (k + 1) + 1 ELSE 0
          /\ \A i \in 1..(Len(s) - (k + 1) + 1) : b[i] = s[k + 1 + i - 1]
      BY <3>1, SubSeqProperties
    <3> HIDE DEF b
    <3>3. Len(b) = Len(s) - k
      BY <2>1, <3>2
    <3>4. ASSUME NEW i \in 1..(Len(s) - k) PROVE b[i] = s[k + i]
      <4>1. i \in 1..(Len(s) - (k + 1) + 1) /\ k + 1 + i - 1 = k + i
        BY <2>1
      <4>2. QED
        BY <3>2, <4>1
    <3>5. QED
      BY <3>2, <3>3, <3>4
  <2> HIDE DEF a, b
  <2>5. /\ r \in Seq(Nat) /\ Len(r) = Len(s) - 1
        /\ \A i \in 1..Len(r) : r[i] = IF i < k THEN s[i] ELSE s[i + 1]
    <3>1. /\ a \o b \in Seq(Nat) /\ Len(a \o b) = Len(a) + Len(b)
          /\ \A i \in 1..(Len(a) + Len(b)) : (a \o b)[i] = IF i <= Len(a) THEN a[i] ELSE b[i - Len(a)]
      BY <2>3, <2>4, ConcatProperties
    <3>2. r = a \o b
      BY <2>2 DEF a, b
    <3>3. r \in Seq(Nat) /\ Len(r) = Len(s) - 1
      <4>1. ASSUME NEW n \in Nat, NEW p \in 1..n PROVE (p - 1) + (n - p) = n - 1
        OBVIOUS
      <4>2. Len(s) \in Nat
        OBVIOUS
      <4>3. (k - 1) + (Len(s) - k) = Len(s) - 1
        BY <2>1, <4>1, <4>2
      <4>4. QED
        BY <2>3, <2>4, <3>1, <3>2, <4>3
    <3>4. ASSUME NEW i \in 1..Len(r) PROVE r[i] = IF i < k THEN s[i] ELSE s[i + 1]
      <4>1. r[i] = IF i <= k - 1 THEN a[i] ELSE b[i - (k - 1)]
        <5>1. i \in 1..(Len(a) + Len(b))
          BY <3>1, <3>2
        <5>2. QED
          BY <2>3, <3>1, <3>2, <5>1
      <4>2. CASE i < k
        BY <2>1, <2>3, <4>1, <4>2
      <4>3. CASE ~(i < k)
        <5>1. i - (k - 1) \in 1..(Len(s) - k) /\ k + (i - (k - 1)) = i + 1 /\ ~(i <= k - 1)
          BY <2>1, <3>3, <4>3
        <5>2. b[i - (k - 1)] = s[k + (i - (k - 1))]
          BY <2>4, <5>1
        <5>3. QED
          BY <4>1, <4>3, <5>1, <5>2
      <4>4. QED
        BY <4>2, <4>3
    <3>5. QED
      BY <3>3, <3>4
  <2> DEFINE P(i) == IF i < k THEN i ELSE i + 1
  <2>6. ASSUME NEW i \in DOMAIN r
        PROVE  P(i) \in DOMAIN s /\ P(i) # k /\ r[i] = s[P(i)] /\ (i < Len(r) => P(i) < Len(s))
    <3>1. i \in 1..Len(r) /\ i \in 1..(Len(s) - 1)
      BY <2>5
    <3>2. r[i] = s[P(i)]
      BY <2>5, <3>1
    <3>3. P(i) \in 1..Len(s) /\ P(i) # k /\ (i < Len(r) => P(i) < Len(s))
      <4>1. ASSUME NEW n \in Nat, NEW p \in 1..n, NEW m \in 1..(n - 1)
            PROVE  LET q == IF m < p THEN m ELSE m + 1
                   IN q \in 1..n /\ q # p /\ (m < n - 1 => q < n)
        OBVIOUS
      <4>2. Len(s) \in Nat
        OBVIOUS
      <4>3. QED
        BY <2>1, <2>5, <3>1, <4>1, <4>2
    <3>4. QED
      BY <3>2, <3>3
  <2>7. \A i \in DOMAIN r : s[P(i)] # e
    BY <2>1, <2>6 DEF Distinct
  <2>8. ASSUME NEW i \in DOMAIN r, s[Len(s)] = e PROVE P(i) < Len(s)
    <3>1. Len(s) = k
      BY <2>1, <2>8 DEF Distinct
    <3>2. P(i) \in 1..Len(s)
      BY <2>6
    <3>3. QED
      BY <2>6, <3>1, <3>2
  <2>9. Distinct(r)
    <3>1. ASSUME NEW i \in DOMAIN r, NEW j \in DOMAIN r, r[i] = r[j] PROVE i = j
      <4>1. P(i) = P(j)
        BY <2>6, <3>1 DEF Distinct
      <4>2. i \in Nat /\ j \in Nat
        BY <2>5
      <4>3. QED
        BY <2>1, <4>1, <4>2
    <3>2. QED
      BY <3>1 DEF Distinct
  <2>10. ASSUME s[Len(s)] # e PROVE r # <<>> /\ r[Len(r)] = s[Len(s)]
    <3>1. k < Len(s)
      BY <2>1, <2>10
    <3>2. Len(r) \in DOMAIN r /\ P(Len(r)) = Len(s)
      BY <2>1, <2>5, <3>1
    <3>3. QED
      BY <2>6, <3>2
  <2> HIDE DEF P
  <2>11. QED
    <3>1. ASSUME NEW i \in DOMAIN r
          PROVE  \E j \in DOMAIN s : /\ r[i] = s[j] /\ s[j] # e
                                     /\ i < Len(r) \/ s[Len(s)] = e => j < Len(s)
      BY <2>6, <2>7, <2>8
    <3>2. Without(r, s, e)
      BY <2>5, <2>9, <2>10, <3>1 DEF Without
    <3>3. QED
      BY <3>2 DEF r
<1>3. QED
  BY <1>1, <1>2

(***************************************************************************)
(* The inductive invariant: types, the tree, and the open paths            *)
(***************************************************************************)
\* A token or a tag: a string.  The literals are listed because the provers do not know that a
\* literal is one.
Word == STRING \cup {"blank", "", "fenced", "indented", "comment", "tag", "setext", ">", ">>>"}

Content == Seq((0..MaxLines) \X Word)

Block ==
  [kind : Kinds, tag : Word, off : Nat, pad : Nat, parent : Nat, kids : Seq(Nat),
   open : BOOLEAN, blank : BOOLEAN, tight : BOOLEAN, lines : Content, literal : Content,
   start : Nat, wrote : Content, last : Nat]

\* Kinds whose children stay open in the middle of a line, or for good
Lists == {"List", "DescList", "DescItem"}
General == {"Document", "BlockQuote", "Footnote", "Item", "DescTerm", "DescDetails"} \cup Fenced

Rooted(t) == Root \in DOMAIN t /\ t[Root].parent = None /\ t[Root].kind = "Document"

\* Only a paragraph is moved below a younger block, the term it becomes
ParentsHold(t) ==
  \A n \in DOMAIN t : t[n].parent # None =>
    /\ t[n].parent \in DOMAIN t
    /\ CanContain(t[t[n].parent].kind, t[n].kind)
    /\ t[n].kind # "Paragraph" => t[n].parent < n

KidsAgree(t) ==
  \A n \in DOMAIN t :
    /\ Distinct(t[n].kids)
    /\ \A i \in DOMAIN t[n].kids : t[n].kids[i] \in DOMAIN t /\ t[t[n].kids[i]].parent = n

Tree(t) == Rooted(t) /\ ParentsHold(t) /\ KidsAgree(t)

\* The children of n before the last
Earlier(t, n) == {t[n].kids[i] : i \in 1..(Len(t[n].kids) - 1)}

\* The blocks of Q are open and lead from the root to tip, each the last child of the one before
Path(t, Q, tip) ==
  /\ Q \subseteq DOMAIN t /\ Root \in Q /\ tip \in Q
  /\ \A m \in Q : t[m].open
  /\ \A m \in Q \ {Root} : t[m].parent \in Q /\ t[m].parent < m /\ LastKid(t, t[m].parent) = m
  /\ \A m \in Q \ {tip} : LastKid(t, m) \in Q /\ m < LastKid(t, m)

(***************************************************************************)
(* The blocks of U are those the line did not match: they lead from below  *)
(* the last matched one, m0, to cur, and are closed once it is clear that  *)
(* the line is no lazy continuation.  c is the line's container: until it  *)
(* moves off m0 nothing is added below m0.                                 *)
(***************************************************************************)
Pending(t, Q, U, cur, m0, c) ==
  /\ U \subseteq DOMAIN t /\ U \cap Q = {} /\ m0 \notin U
  /\ IF U = {} THEN cur = m0 ELSE cur \in U
  /\ \A m \in U :
       /\ t[m].open /\ t[m].parent \in U \cup {m0} /\ t[m].parent < m
       /\ t[m].parent \in U \/ c = m0 => LastKid(t, t[m].parent) = m
  /\ \A m \in U \ {cur} : LastKid(t, m) \in U /\ m < LastKid(t, m)
  /\ U # {} => ~LastOpen(t, cur)
  /\ U # {} /\ c = m0 => LastKid(t, m0) \in U

\* Below c only unmatched blocks are open
Slack(t, c, U) == LastOpen(t, c) => LastKid(t, c) \in U

\* A block that is not the last child is closed, or about to be
Shut(t, U) ==
  \A n \in DOMAIN t : t[n].kind \notin Lists => \A k \in Earlier(t, n) : t[k].open => k \in U

\* In the middle of a line
Mid(t, Q, U, cur, m0, c) == Path(t, Q, c) /\ Pending(t, Q, U, cur, m0, c) /\ Slack(t, c, U) /\ Shut(t, U)

\* Between lines
Between(t, Q, tip) == Path(t, Q, tip) /\ Slack(t, tip, {}) /\ Shut(t, {})

\* open_new_blocks: the container has just been matched or made
OpenOK ==
  /\ \/ scan.container = scan.matched
     \/ scan.matched < scan.container /\ nodes[scan.container].kids = <<>>
  /\ current # scan.matched =>
       IF scan.container = scan.matched
       THEN \/ LastKid(nodes, scan.matched) = None
            \/ nodes[LastKid(nodes, scan.matched)].kind # "Paragraph"
            \/ Blank(scan.rest)
       ELSE ContainerKind \in General \cup Verbatim \/ Blank(scan.rest)

\* add_child: what it is given
NewOK ==
  /\ scan.new \in Seq(Block)
  /\ \A i \in DOMAIN scan.new : scan.new[i].open /\ scan.new[i].kids = <<>>
  /\ \/ /\ Len(scan.new) = 1
        /\ scan.new[1].kind \in General \cup Leaves \cup {"HtmlBlock", "ThematicBreak"}
        /\ scan.new[1].kind = "Item" => ContainerKind = "List"
        /\ scan.new[1].kind = "Paragraph" => current = scan.matched
        /\ scan.new[1].kind = "ThematicBreak" => Blank(scan.rest)
     \/ Len(scan.new) = 2 /\ scan.new[1].kind = "List" /\ scan.new[2].kind = "Item"

AddOK ==
  /\ NewOK
  /\ current # scan.matched /\ scan.matched < scan.container =>
       CanContain(ContainerKind, scan.new[1].kind)

\* The local variables of process_line
Scan ==
  [pc : {"line", "match", "open", "add", "text", "close", "store", "eof", "done"},
   container : Nat, matched : Nat, all : BOOLEAN, lazy : BOOLEAN,
   whole : Seq(Word), rest : Seq(Word), new : Seq(Block)]

Typed ==
  /\ nodes \in Seq(Block)
  /\ refs \in 0..MaxLines /\ lineNo \in 0..MaxLines
  /\ ~panicked /\ panicked \in BOOLEAN
  /\ {current, scan.container, scan.matched} \subseteq DOMAIN nodes
  /\ scan \in Scan

PathOK ==
  /\ scan.pc \in {"line", "eof"} => \E Q : Between(nodes, Q, current)
  /\ scan.pc = "match" => \E Q : Between(nodes, Q, current) /\ scan.container \in Q
  /\ scan.pc = "store" => \E Q : Between(nodes, Q, scan.container)
  /\ scan.pc \in {"open", "add", "text", "close"} =>
       \E Q, U : Mid(nodes, Q, U, current, scan.matched, scan.container)
  /\ scan.pc = "open" => OpenOK
  /\ scan.pc = "add" => AddOK

Inv == Typed /\ Tree(nodes) /\ PathOK

(***************************************************************************)
(* Children                                                                *)
(***************************************************************************)
LEMMA KidsOf ==
  ASSUME NEW t \in Seq(Block), Tree(t), NEW n \in DOMAIN t
  PROVE  /\ LastKid(t, n) = None <=> t[n].kids = <<>>
         /\ LastKid(t, n) # None => /\ LastKid(t, n) \in DOMAIN t
                                    /\ t[LastKid(t, n)].parent = n
                                    /\ CanContain(t[n].kind, t[LastKid(t, n)].kind)
                                    /\ t[LastKid(t, n)].kind # "Paragraph" => n < LastKid(t, n)
         /\ \A k \in Earlier(t, n) : /\ k \in DOMAIN t /\ t[k].parent = n
                                     /\ k # LastKid(t, n)
         /\ LastOpen(t, n) <=> LastKid(t, n) # None /\ t[LastKid(t, n)].open
<1> DEFINE s == t[n].kids
<1>1. s \in Seq(Nat) /\ Distinct(s) /\ DOMAIN t \in SUBSET (Nat \ {0})
  <2>1. s \in Seq(Nat) /\ DOMAIN t = 1..Len(t)
    <3>1. t[n] \in Block /\ DOMAIN t = 1..Len(t)
      OBVIOUS
    <3>2. QED
      BY <3>1 DEF Block
  <2>2. QED
    BY <2>1 DEF Tree, KidsAgree
<1>2. \A i \in DOMAIN s : s[i] \in DOMAIN t /\ s[i] # 0 /\ t[s[i]].parent = n
  BY <1>1 DEF Tree, KidsAgree
<1>3. n # 0
  BY <1>1
<1>4. LastKid(t, n) = IF s = <<>> THEN 0 ELSE s[Len(s)]
  BY DEF LastKid, Last, None
<1>5. ASSUME s # <<>> PROVE Len(s) \in DOMAIN s
  BY <1>1, <1>5
<1> HIDE DEF s
<1>6. LastKid(t, n) = None <=> s = <<>>
  BY <1>2, <1>4, <1>5 DEF None
<1>7. ASSUME LastKid(t, n) # None
      PROVE  LastKid(t, n) \in DOMAIN t /\ t[LastKid(t, n)].parent = n
  BY <1>2, <1>4, <1>5, <1>7 DEF None
<1>8. ASSUME LastKid(t, n) # None
      PROVE  /\ CanContain(t[n].kind, t[LastKid(t, n)].kind)
             /\ t[LastKid(t, n)].kind # "Paragraph" => n < LastKid(t, n)
  BY <1>3, <1>7, <1>8 DEF Tree, ParentsHold, None
<1>9. ASSUME NEW k \in Earlier(t, n)
      PROVE  k \in DOMAIN t /\ t[k].parent = n /\ k # LastKid(t, n)
  <2>1. PICK i \in 1..(Len(s) - 1) : k = s[i]
    BY DEF Earlier, s
  <2>2. i \in DOMAIN s /\ Len(s) \in DOMAIN s /\ i # Len(s) /\ s # <<>>
    BY <1>1, <2>1
  <2>3. k # s[Len(s)]
    BY <1>1, <2>1, <2>2 DEF Distinct
  <2>4. QED
    BY <1>2, <1>4, <2>1, <2>2, <2>3
<1>10. QED
  BY <1>6, <1>7, <1>8, <1>9 DEF s, LastOpen

(***************************************************************************)
(* Open paths                                                              *)
(***************************************************************************)
\* The tip of a path is its last block
LEMMA TipIsLast ==
  ASSUME NEW t \in Seq(Block), NEW Q, NEW tip, Path(t, Q, tip)
  PROVE  /\ Q \in SUBSET Nat /\ tip \in Q
         /\ \A m \in Q : Root <= m /\ m <= tip
<1>1. Q \in SUBSET (1..Len(t)) /\ tip \in Q
  BY DEF Path
<1>2. Q \in SUBSET Nat
  BY <1>1
<1> DEFINE S == {x \in Q : ~(x <= tip)}
<1>3. ASSUME NEW x \in S PROVE LastKid(t, x) \in S /\ x < LastKid(t, x)
  <2>1. x \in Q /\ x # tip /\ ~(x <= tip)
    BY <1>1, <1>2
  <2>2. LastKid(t, x) \in Q /\ x < LastKid(t, x)
    BY <2>1 DEF Path
  <2>3. x \in Nat /\ LastKid(t, x) \in Nat /\ tip \in Nat
    BY <1>1, <1>2, <2>1, <2>2
  <2>4. ~(LastKid(t, x) <= tip)
    BY <2>1, <2>2, <2>3
  <2>5. QED
    BY <2>2, <2>4
<1>4. S = {}
  <2>1. S \in SUBSET Nat /\ Len(t) \in Nat /\ \A x \in S : x <= Len(t)
    <3>1. S \subseteq Q
      OBVIOUS
    <3>2. Len(t) \in Nat /\ \A x \in Q : x <= Len(t)
      BY <1>1
    <3> HIDE DEF S
    <3>3. QED
      BY <1>2, <3>1, <3>2
  <2> HIDE DEF S
  <2>2. SUFFICES ASSUME S # {} PROVE FALSE
    OBVIOUS
  <2>3. PICK x \in S : \A y \in S : y <= x
    BY <2>1, <2>2, LastExists
  <2>4. LastKid(t, x) \in S /\ x < LastKid(t, x) /\ LastKid(t, x) <= x
    BY <1>3, <2>3
  <2>5. x \in Nat /\ LastKid(t, x) \in Nat
    BY <2>1, <2>3, <2>4
  <2>6. QED
    BY <2>4, <2>5
<1>5. \A m \in Q : 1 <= m
  BY <1>1
<1>6. QED
  BY <1>1, <1>2, <1>4, <1>5 DEF Root

\* Above a block of a path the path goes through its last child
LEMMA NextOnPath ==
  ASSUME NEW t \in Seq(Block), NEW Q, NEW tip, Path(t, Q, tip),
         NEW m \in Q, NEW c \in Q, m < c
  PROVE  LastKid(t, m) \in Q /\ m < LastKid(t, m) /\ LastKid(t, m) <= c
<1>1. Q \in SUBSET Nat /\ \A x \in Q : Root <= x /\ x <= tip
  BY TipIsLast
<1> DEFINE B == {x \in Q : \E d \in Q : x < d /\ ~(LastKid(t, x) <= d)}
<1>2. B = {}
  <2>1. SUFFICES ASSUME B # {} PROVE FALSE
    OBVIOUS
  <2>2. B \in SUBSET Nat
    BY <1>1
  <2>3. PICK x \in B : \A y \in B : x <= y
    BY <2>1, <2>2, FirstExists
  <2>4. PICK d \in Q : x < d /\ ~(LastKid(t, x) <= d)
    BY <2>3
  <2> DEFINE S == {z \in Q : x < z /\ z <= d}
  <2>5. S \in SUBSET Nat /\ d \in S
    <3>1. d \in Nat /\ d <= d /\ S \subseteq Q
      BY <1>1
    <3>2. d \in S
      BY <2>4, <3>1
    <3> HIDE DEF S
    <3>3. QED
      BY <1>1, <3>1, <3>2
  <2>6. PICK z \in S : \A w \in S : z <= w
    <3> HIDE DEF S
    <3>1. QED
      BY <2>5, FirstExists
  <2>7. x \in Nat /\ z \in Nat /\ d \in Nat /\ z \in Q /\ x < z /\ z <= d /\ x \in Q
    BY <1>1, <2>3
  <2>8. z # Root
    BY <1>1, <2>7 DEF Root
  <2> DEFINE p == t[z].parent
  <2>9. p \in Q /\ p < z /\ LastKid(t, p) = z
    BY <2>7, <2>8 DEF Path
  <2> HIDE DEF p
  <2>10. p \in Nat /\ ~(x < p)
    <3>1. p \in Nat
      BY <1>1, <2>9
    <3>2. ASSUME x < p PROVE FALSE
      <4>1. p <= d
        BY <2>7, <2>9, <3>1
      <4>2. p \in S
        BY <2>9, <3>2, <4>1
      <4>3. z <= p
        BY <2>6, <4>2
      <4>4. QED
        BY <2>7, <2>9, <3>1, <4>3
    <3>3. QED
      BY <3>1, <3>2
  <2>11. p # x
    BY <2>4, <2>7, <2>9
  <2>12. p < x /\ ~(z <= x)
    BY <2>7, <2>10, <2>11
  <2>13. p \in B
    BY <2>7, <2>9, <2>12
  <2>14. QED
    BY <2>3, <2>7, <2>10, <2>12, <2>13
<1>3. m # tip
  BY <1>1
<1>4. LastKid(t, m) \in Q /\ m < LastKid(t, m)
  BY <1>3 DEF Path
<1>5. QED
  BY <1>2, <1>4

\* The part of a path up to one of its blocks is a path
LEMMA CutPath ==
  ASSUME NEW t \in Seq(Block), NEW Q, NEW tip, Path(t, Q, tip), NEW c \in Q
  PROVE  Path(t, {m \in Q : m <= c}, c)
<1> DEFINE P == {m \in Q : m <= c}
<1>1. Q \in SUBSET Nat /\ \A x \in Q : Root <= x /\ x <= tip
  BY TipIsLast
<1>2. P \subseteq DOMAIN t /\ Root \in P /\ c \in P /\ \A m \in P : t[m].open
  BY <1>1 DEF Path
<1>3. ASSUME NEW m \in P \ {Root}
      PROVE  t[m].parent \in P /\ t[m].parent < m /\ LastKid(t, t[m].parent) = m
  <2>1. m \in Q \ {Root} /\ m <= c
    OBVIOUS
  <2>2. t[m].parent \in Q /\ t[m].parent < m /\ LastKid(t, t[m].parent) = m
    BY <2>1 DEF Path
  <2>3. t[m].parent <= c
    BY <1>1, <2>1, <2>2
  <2>4. QED
    BY <2>2, <2>3
<1>4. ASSUME NEW m \in P \ {c} PROVE LastKid(t, m) \in P /\ m < LastKid(t, m)
  <2>1. m \in Q /\ m < c
    BY <1>1
  <2>2. QED
    BY <2>1, NextOnPath
<1>5. QED
  BY <1>2, <1>3, <1>4 DEF Path

\* A path stays one as long as its blocks stay open and its links are kept
LEMMA KeepPath ==
  ASSUME NEW t \in Seq(Block), NEW u, NEW Q, NEW tip, Path(t, Q, tip), Q \subseteq DOMAIN u,
         \A m \in Q : u[m].open /\ u[m].parent = t[m].parent,
         \A m \in Q \ {tip} : LastKid(u, m) = LastKid(t, m)
  PROVE  Path(u, Q, tip)
<1>1. Q \in SUBSET Nat /\ \A x \in Q : Root <= x /\ x <= tip
  BY TipIsLast
<1>2. Q \subseteq DOMAIN u /\ Root \in Q /\ tip \in Q /\ \A m \in Q : u[m].open
  BY DEF Path
<1>3. ASSUME NEW m \in Q \ {Root}
      PROVE  u[m].parent \in Q /\ u[m].parent < m /\ LastKid(u, u[m].parent) = m
  <2>1. t[m].parent \in Q /\ t[m].parent < m /\ LastKid(t, t[m].parent) = m
    BY DEF Path
  <2>2. t[m].parent # tip
    BY <1>1, <1>2, <2>1
  <2>3. QED
    BY <2>1, <2>2
<1>4. ASSUME NEW m \in Q \ {tip} PROVE LastKid(u, m) \in Q /\ m < LastKid(u, m)
  BY DEF Path
<1>5. QED
  BY <1>2, <1>3, <1>4 DEF Path

\* One more block below the tip of a path makes a path to that block
LEMMA LongerPath ==
  ASSUME NEW t \in Seq(Block), NEW u, NEW Q, NEW tip, Path(t, Q, tip), NEW n \in DOMAIN u,
         Q \subseteq DOMAIN u, n \notin Q, tip < n,
         \A m \in Q : u[m].open /\ u[m].parent = t[m].parent,
         \A m \in Q \ {tip} : LastKid(u, m) = LastKid(t, m),
         u[n].open, u[n].parent = tip, LastKid(u, tip) = n
  PROVE  Path(u, Q \cup {n}, n)
<1>1. Path(u, Q, tip)
  BY KeepPath
<1>2. tip \in Q /\ Root \in Q
  BY DEF Path
<1>3. ASSUME NEW m \in (Q \cup {n}) \ {Root}
      PROVE  u[m].parent \in Q \cup {n} /\ u[m].parent < m /\ LastKid(u, u[m].parent) = m
  <2>1. CASE m = n
    BY <1>2, <2>1
  <2>2. CASE m # n
    BY <1>1, <2>2 DEF Path
  <2>3. QED
    BY <2>1, <2>2
<1>4. ASSUME NEW m \in (Q \cup {n}) \ {n}
      PROVE  LastKid(u, m) \in Q \cup {n} /\ m < LastKid(u, m)
  BY <1>1 DEF Path
<1>5. QED
  BY <1>1, <1>2, <1>3, <1>4 DEF Path

\* The last child of a block of a path other than the tip is open
LEMMA OpenOnPath ==
  ASSUME NEW t \in Seq(Block), Tree(t), NEW Q, NEW tip, Path(t, Q, tip), NEW m \in Q, m # tip
  PROVE  LastOpen(t, m)
<1>1. m \in DOMAIN t /\ LastKid(t, m) \in Q
  BY DEF Path
<1>2. LastKid(t, m) \in DOMAIN t /\ t[LastKid(t, m)].open
  BY <1>1 DEF Path
<1>3. LastKid(t, m) # None
  <2>1. DOMAIN t = 1..Len(t)
    OBVIOUS
  <2>2. QED
    BY <1>2, <2>1 DEF None
<1>4. QED
  BY <1>2, <1>3 DEF LastOpen

\* The tip of a path between lines has no open last child: the others have
LEMMA TipHasNoOpen ==
  ASSUME NEW t \in Seq(Block), Tree(t), NEW Q, NEW tip, Between(t, Q, tip)
  PROVE  ~LastOpen(t, tip)
BY DEF Between, Slack

\* check_open_blocks matched every block
LEMMA WholePath ==
  ASSUME NEW t \in Seq(Block), Tree(t), NEW Q, NEW tip, Between(t, Q, tip),
         NEW c \in Q, ~LastOpen(t, c)
  PROVE  c = tip /\ Mid(t, Q, {}, tip, c, c)
<1>1. Path(t, Q, tip)
  BY DEF Between
<1>2. c = tip
  BY <1>1, OpenOnPath
<1>3. Pending(t, Q, {}, tip, c, c)
  BY <1>2 DEF Pending
<1>4. QED
  BY <1>2, <1>3 DEF Between, Mid

\* With nothing unmatched, the middle of a line is as good as its end
LEMMA NothingPending ==
  ASSUME NEW t, NEW Q, NEW U, NEW cur, NEW m0, NEW c, Mid(t, Q, U, cur, m0, c)
  PROVE  /\ cur = m0 <=> U = {}
         /\ cur = m0 => Between(t, Q, c)
<1>1. cur = m0 <=> U = {}
  BY DEF Mid, Pending
<1>2. QED
  BY <1>1 DEF Mid, Between

\* check_open_blocks stopped at c: what is below it on the path is pending
LEMMA SplitPath ==
  ASSUME NEW t \in Seq(Block), Tree(t), NEW Q, NEW tip, Between(t, Q, tip),
         NEW c \in Q, LastOpen(t, c)
  PROVE  Mid(t, {m \in Q : m <= c}, {m \in Q : c < m}, tip, c, c)
<1> DEFINE P == {m \in Q : m <= c}
           U == {m \in Q : c < m}
<1>1. Path(t, Q, tip) /\ Slack(t, tip, {}) /\ Shut(t, {})
  BY DEF Between
<1>2. Q \in SUBSET Nat /\ tip \in Q /\ \A x \in Q : Root <= x /\ x <= tip
  BY <1>1, TipIsLast
<1>3. c # tip /\ c < tip
  <2>1. c # tip
    BY TipHasNoOpen
  <2>2. QED
    BY <1>2, <2>1
<1>4. LastKid(t, c) \in Q /\ c < LastKid(t, c)
  BY <1>1, <1>3, NextOnPath, <1>2
<1>5. Path(t, P, c)
  BY <1>1, CutPath
<1>6. U \subseteq DOMAIN t /\ U \cap P = {} /\ c \notin U /\ tip \in U
  <2>1. U \subseteq DOMAIN t
    BY <1>1 DEF Path
  <2>2. U \cap P = {}
    <3>1. ASSUME NEW m \in Q, c < m, m <= c PROVE FALSE
      BY <1>2, <3>1
    <3>2. QED
      BY <3>1
  <2>3. QED
    BY <1>2, <1>3, <2>1, <2>2
<1>7. ASSUME NEW m \in U
      PROVE  /\ t[m].open /\ t[m].parent \in U \cup {c} /\ t[m].parent < m
             /\ LastKid(t, t[m].parent) = m
  <2>1. m \in Q /\ c < m /\ m # Root
    BY <1>2
  <2>2. t[m].open /\ t[m].parent \in Q /\ t[m].parent < m /\ LastKid(t, t[m].parent) = m
    BY <1>1, <2>1 DEF Path
  <2>3. ASSUME t[m].parent < c PROVE FALSE
    <3>1. LastKid(t, t[m].parent) <= c
      BY <1>1, <2>2, <2>3, NextOnPath
    <3>2. QED
      BY <1>2, <2>1, <2>2, <3>1
  <2>4. t[m].parent = c \/ c < t[m].parent
    <3>1. t[m].parent \in Nat /\ c \in Nat
      BY <1>2, <2>2
    <3>2. QED
      BY <2>3, <3>1
  <2>5. QED
    BY <2>2, <2>4
<1>8. ASSUME NEW m \in U \ {tip} PROVE LastKid(t, m) \in U /\ m < LastKid(t, m)
  <2>1. LastKid(t, m) \in Q /\ m < LastKid(t, m)
    BY <1>1 DEF Path
  <2>2. c < LastKid(t, m)
    <3>1. m \in Nat /\ LastKid(t, m) \in Nat /\ c \in Nat /\ c < m
      BY <1>2, <2>1
    <3>2. QED
      BY <2>1, <3>1
  <2>3. QED
    BY <2>1, <2>2
<1>9. LastKid(t, c) \in U
  BY <1>4
<1>10. ~LastOpen(t, tip)
  BY TipHasNoOpen
<1> HIDE DEF P, U
<1>11. Pending(t, P, U, tip, c, c)
  BY <1>6, <1>7, <1>8, <1>9, <1>10 DEF Pending
<1>12. Slack(t, c, U)
  BY <1>9 DEF Slack
<1>13. Shut(t, U)
  BY <1>1 DEF Shut
<1>14. QED
  BY <1>5, <1>11, <1>12, <1>13 DEF Mid, P, U

\* A lazy continuation: what was pending is matched after all
LEMMA JoinPath ==
  ASSUME NEW t \in Seq(Block), Tree(t), NEW Q, NEW U, NEW cur, NEW c,
         Mid(t, Q, U, cur, c, c), cur # c
  PROVE  Between(t, Q \cup U, cur)
<1>1. Path(t, Q, c) /\ Pending(t, Q, U, cur, c, c) /\ Slack(t, c, U) /\ Shut(t, U)
  BY DEF Mid
<1>2. U # {} /\ cur \in U /\ c \in Q
  BY <1>1 DEF Pending, Path
<1>3. LastKid(t, c) \in U /\ c < LastKid(t, c)
  <2>1. LastKid(t, c) \in U
    BY <1>1, <1>2 DEF Pending
  <2>2. LastKid(t, c) # None /\ c \in DOMAIN t
    <3>1. DOMAIN t = 1..Len(t)
      OBVIOUS
    <3>2. QED
      BY <1>1, <1>2, <2>1, <3>1 DEF Pending, Path, None
  <2>3. t[LastKid(t, c)].parent = c
    BY <2>2, KidsOf
  <2>4. QED
    BY <1>1, <2>1, <2>3 DEF Pending
<1>4. Q \cup U \subseteq DOMAIN t /\ Root \in Q \cup U /\ cur \in Q \cup U
      /\ \A m \in Q \cup U : t[m].open
  BY <1>1, <1>2 DEF Path, Pending
<1>5. ASSUME NEW m \in (Q \cup U) \ {Root}
      PROVE  t[m].parent \in Q \cup U /\ t[m].parent < m /\ LastKid(t, t[m].parent) = m
  <2>1. CASE m \in Q
    BY <1>1, <2>1 DEF Path
  <2>2. CASE m \in U
    BY <1>1, <1>2, <2>2 DEF Pending
  <2>3. QED
    BY <2>1, <2>2
<1>6. ASSUME NEW m \in (Q \cup U) \ {cur} PROVE LastKid(t, m) \in Q \cup U /\ m < LastKid(t, m)
  <2>1. CASE m = c
    BY <1>3, <2>1
  <2>2. CASE m \in Q \ {c}
    BY <1>1, <2>2 DEF Path
  <2>3. CASE m \in U
    BY <1>1, <2>3 DEF Pending
  <2>4. QED
    BY <2>1, <2>2, <2>3
<1>7. Path(t, Q \cup U, cur)
  BY <1>4, <1>5, <1>6 DEF Path
<1>8. Slack(t, cur, {})
  BY <1>1, <1>2 DEF Pending, Slack
<1>9. Shut(t, {})
  <2>1. ASSUME NEW n \in DOMAIN t, t[n].kind \notin Lists, NEW k \in Earlier(t, n), t[k].open
        PROVE  FALSE
    <3>1. k \in U
      BY <1>1, <2>1 DEF Shut
    <3>2. t[k].parent = n /\ k # LastKid(t, n)
      BY KidsOf
    <3>3. LastKid(t, t[k].parent) = k
      BY <1>1, <3>1 DEF Pending
    <3>4. QED
      BY <3>2, <3>3
  <2>2. QED
    BY <2>1 DEF Shut
<1>10. QED
  BY <1>7, <1>8, <1>9 DEF Between

(***************************************************************************)
(* What may hold what                                                      *)
(***************************************************************************)
LEMMA WhatHoldsWhat ==
  ASSUME NEW p, NEW c
  PROVE  /\ CanContain(p, c) => p \in General \cup Lists
         /\ p \in General => (CanContain(p, c) <=> c # "Item")
         /\ p = "List" => (CanContain(p, c) <=> c = "Item")
         /\ p = "DescList" => (CanContain(p, c) <=> c = "DescItem")
         /\ p = "DescItem" => (CanContain(p, c) <=> c \in {"DescTerm", "DescDetails"})
         /\ CanContain(p, c) /\ c \notin {"Item", "DescItem", "DescTerm", "DescDetails"}
              => p \in General
BY DEF CanContain, General, Lists, Fenced

\* Neither a leaf nor a verbatim block holds any
LEMMA LeavesHoldNone ==
  ASSUME NEW t \in Seq(Block), Tree(t), NEW n \in DOMAIN t, t[n].kind \notin General \cup Lists
  PROVE  t[n].kids = <<>> /\ LastKid(t, n) = None
<1>1. LastKid(t, n) = None
  BY KidsOf, WhatHoldsWhat
<1>2. QED
  BY <1>1, KidsOf

(***************************************************************************)
(* Steps that leave the shape of the tree                                  *)
(***************************************************************************)
SameShape(t, u) ==
  /\ DOMAIN u = DOMAIN t
  /\ \A m \in DOMAIN t :
       /\ u[m].parent = t[m].parent
       /\ u[m].kids = t[m].kids
       /\ u[m].open <=> t[m].open
       /\ \/ u[m].kind = t[m].kind
          \/ t[m].kind = "Paragraph" /\ u[m].kind = "Heading" /\ t[m].parent < m

LEMMA SameShapeIsTree ==
  ASSUME NEW t \in Seq(Block), NEW u \in Seq(Block), Tree(t), SameShape(t, u)
  PROVE  Tree(u)
<1>1. Rooted(u)
  BY DEF Tree, Rooted, SameShape
<1>2. KidsAgree(u)
  <2>1. ASSUME NEW n \in DOMAIN t
        PROVE  /\ Distinct(u[n].kids)
               /\ \A i \in DOMAIN u[n].kids :
                    u[n].kids[i] \in DOMAIN u /\ u[u[n].kids[i]].parent = n
    <3>1. u[n].kids = t[n].kids /\ DOMAIN u = DOMAIN t
      BY DEF SameShape
    <3>2. Distinct(t[n].kids)
      BY DEF Tree, KidsAgree
    <3>3. \A i \in DOMAIN t[n].kids : t[n].kids[i] \in DOMAIN t /\ t[t[n].kids[i]].parent = n
      BY DEF Tree, KidsAgree
    <3>4. QED
      BY <3>1, <3>2, <3>3 DEF SameShape
  <2>2. QED
    BY <2>1 DEF KidsAgree, SameShape
<1>3. ParentsHold(u)
  <2>1. ASSUME NEW n \in DOMAIN t, t[n].parent # None
        PROVE  /\ t[n].parent \in DOMAIN t
               /\ CanContain(u[t[n].parent].kind, u[n].kind)
               /\ u[n].kind # "Paragraph" => t[n].parent < n
    <3>1. /\ t[n].parent \in DOMAIN t
          /\ CanContain(t[t[n].parent].kind, t[n].kind)
          /\ t[n].kind # "Paragraph" => t[n].parent < n
      BY <2>1 DEF Tree, ParentsHold
    <3> DEFINE k == t[t[n].parent].kind
    <3>2. k \in General \cup Lists
      BY <3>1, WhatHoldsWhat
    <3>3. u[t[n].parent].kind = k
      BY <3>1, <3>2 DEF SameShape, General, Lists, Fenced
    <3> HIDE DEF k
    <3>4. CanContain(k, t[n].kind)
      BY <3>1 DEF k
    <3>5. CASE u[n].kind = t[n].kind
      BY <3>1, <3>3, <3>4, <3>5
    <3>6. CASE t[n].kind = "Paragraph" /\ u[n].kind = "Heading" /\ t[n].parent < n
      <4>1. k \in General
        BY <3>4, <3>6, WhatHoldsWhat
      <4>2. CanContain(k, "Heading")
        BY <4>1, WhatHoldsWhat
      <4>3. QED
        BY <3>1, <3>3, <3>6, <4>2
    <3>7. QED
      BY <3>5, <3>6 DEF SameShape
  <2>2. QED
    BY <2>1 DEF ParentsHold, SameShape
<1>4. QED
  BY <1>1, <1>2, <1>3 DEF Tree

LEMMA SameShapeKeeps ==
  ASSUME NEW t \in Seq(Block), NEW u \in Seq(Block), Tree(t), SameShape(t, u)
  PROVE  /\ \A n \in DOMAIN t : LastKid(u, n) = LastKid(t, n) /\ (LastOpen(u, n) <=> LastOpen(t, n))
         /\ \A Q, tip : Path(t, Q, tip) => Path(u, Q, tip)
         /\ \A Q, tip : Between(t, Q, tip) => Between(u, Q, tip)
         /\ \A Q, U, cur, m0, c : c \in DOMAIN t /\ m0 \in DOMAIN t /\ Mid(t, Q, U, cur, m0, c)
                                    => Mid(u, Q, U, cur, m0, c)
<1>1. \A n \in DOMAIN t : LastKid(u, n) = LastKid(t, n) /\ Earlier(u, n) = Earlier(t, n)
  BY DEF LastKid, Earlier, SameShape
<1>2. ASSUME NEW n \in DOMAIN t PROVE LastOpen(u, n) <=> LastOpen(t, n)
  <2>1. LastKid(t, n) # None => LastKid(t, n) \in DOMAIN t
    BY KidsOf
  <2>2. QED
    BY <1>1, <2>1 DEF LastOpen, SameShape
<1>3. ASSUME NEW Q, NEW tip, Path(t, Q, tip) PROVE Path(u, Q, tip)
  <2>1. Q \subseteq DOMAIN u /\ \A m \in Q : u[m].open /\ u[m].parent = t[m].parent
    BY <1>3 DEF Path, SameShape
  <2>2. \A m \in Q \ {tip} : LastKid(u, m) = LastKid(t, m)
    BY <1>1, <1>3 DEF Path
  <2>3. QED
    BY <1>3, <2>1, <2>2, KeepPath
<1>4. ASSUME NEW c \in DOMAIN t, NEW U, Slack(t, c, U) PROVE Slack(u, c, U)
  BY <1>1, <1>2, <1>4 DEF Slack
<1>5. ASSUME NEW U, Shut(t, U) PROVE Shut(u, U)
  <2>1. ASSUME NEW n \in DOMAIN t, u[n].kind \notin Lists, NEW k \in Earlier(t, n), u[k].open
        PROVE  k \in U
    <3>1. k \in DOMAIN t
      BY KidsOf
    <3>2. t[n].kind \notin Lists /\ t[k].open
      BY <2>1, <3>1 DEF SameShape, Lists
    <3>3. QED
      BY <1>5, <2>1, <3>2 DEF Shut
  <2>2. DOMAIN u = DOMAIN t
    BY DEF SameShape
  <2>3. QED
    BY <1>1, <2>1, <2>2 DEF Shut
<1>6. ASSUME NEW Q, NEW tip, Between(t, Q, tip) PROVE Between(u, Q, tip)
  <2>1. tip \in DOMAIN t
    BY <1>6 DEF Between, Path
  <2>2. QED
    BY <1>3, <1>4, <1>5, <1>6, <2>1 DEF Between
<1>7. ASSUME NEW Q, NEW U, NEW cur, NEW m0 \in DOMAIN t, NEW c, Pending(t, Q, U, cur, m0, c)
      PROVE  Pending(u, Q, U, cur, m0, c)
  <2>1. /\ U \subseteq DOMAIN u /\ U \cap Q = {} /\ m0 \notin U
        /\ IF U = {} THEN cur = m0 ELSE cur \in U
    BY <1>7 DEF Pending, SameShape
  <2>2. ASSUME NEW m \in U
        PROVE  /\ u[m].open /\ u[m].parent \in U \cup {m0} /\ u[m].parent < m
               /\ u[m].parent \in U \/ c = m0 => LastKid(u, u[m].parent) = m
    <3>1. /\ t[m].open /\ t[m].parent \in U \cup {m0} /\ t[m].parent < m
          /\ t[m].parent \in U \/ c = m0 => LastKid(t, t[m].parent) = m
      BY <1>7 DEF Pending
    <3>2. m \in DOMAIN t /\ U \cup {m0} \subseteq DOMAIN t
      BY <1>7 DEF Pending
    <3>3. u[m].parent = t[m].parent /\ u[m].open
      BY <3>1, <3>2 DEF SameShape
    <3>4. LastKid(u, t[m].parent) = LastKid(t, t[m].parent)
      BY <1>1, <3>1, <3>2
    <3>5. QED
      BY <3>1, <3>3, <3>4
  <2>3. ASSUME NEW m \in U \ {cur} PROVE LastKid(u, m) \in U /\ m < LastKid(u, m)
    BY <1>1, <1>7 DEF Pending
  <2>4. U # {} => ~LastOpen(u, cur)
    BY <1>2, <1>7 DEF Pending
  <2>5. U # {} /\ c = m0 => LastKid(u, m0) \in U
    BY <1>1, <1>7 DEF Pending
  <2>6. QED
    BY <2>1, <2>2, <2>3, <2>4, <2>5 DEF Pending
<1>8. ASSUME NEW Q, NEW U, NEW cur, NEW m0 \in DOMAIN t, NEW c \in DOMAIN t, Mid(t, Q, U, cur, m0, c)
      PROVE  Mid(u, Q, U, cur, m0, c)
  BY <1>3, <1>4, <1>5, <1>7, <1>8 DEF Mid
<1>9. QED
  BY <1>1, <1>2, <1>3, <1>6, <1>8

(***************************************************************************)
(* Content                                                                 *)
(***************************************************************************)
LEMMA PartOfSeq ==
  ASSUME NEW S, NEW s \in Seq(S), NEW a \in Nat, NEW b \in Nat, 1 <= a, b <= Len(s)
  PROVE  SubSeq(s, a, b) \in Seq(S)
<1>1. a \in Int /\ b \in Int /\ \A i \in a..b : s[i] \in S
  <2>1. ASSUME NEW i \in a..b PROVE i \in 1..Len(s)
    OBVIOUS
  <2>2. QED
    BY <2>1
<1>2. QED
  BY <1>1, SubSeqProperties

\* A drop from the front of a sequence
LEMMA DropIsSeq ==
  ASSUME NEW S, NEW s \in Seq(S), NEW k \in Nat
  PROVE  Drop(s, k) \in Seq(S)
<1>1. k + 1 \in Nat /\ 1 <= k + 1 /\ Len(s) \in Nat /\ Len(s) <= Len(s)
  OBVIOUS
<1>2. QED
  BY <1>1, PartOfSeq DEF Drop

LEMMA DefinitionsBegin ==
  ASSUME NEW lines \in Content
  PROVE  /\ Definitions(lines) \in 0..Len(lines)
         /\ Drop(lines, Definitions(lines)) \in Content
         /\ SubSeq(lines, Definitions(lines) + 1, Len(lines)) \in Content
<1> DEFINE I == {i \in 1..Len(lines) : lines[i][2] # "r"}
           k == IF I # {} THEN Min(I) ELSE 0
<1>1. Len(lines) \in Nat /\ I \in SUBSET (1..Len(lines))
  BY DEF Content
<1>2. k \in 0..Len(lines)
  BY <1>1, FirstPlace
<1>3. Definitions(lines) = IF k = 0 THEN Len(lines) ELSE k - 1
  BY DEF Definitions, SelectInSeq
<1> HIDE DEF k
<1>4. Definitions(lines) \in 0..Len(lines)
  BY <1>1, <1>2, <1>3
<1>5. Definitions(lines) \in Nat
  BY <1>1, <1>4
<1>6. QED
  BY <1>4, <1>5, DropIsSeq DEF Content, Drop

LEMMA TrimmedIsContent ==
  ASSUME NEW lines \in Content
  PROVE  Trimmed(lines) \in Content
<1> DEFINE I == {i \in 1..Len(lines) : lines[i][2] # "blank"}
           k == IF I # {} THEN Max(I) ELSE 0
<1>1. Len(lines) \in Nat /\ I \in SUBSET (1..Len(lines))
  BY DEF Content
<1>2. k \in 0..Len(lines)
  BY <1>1, LastPlace
<1>3. Trimmed(lines) = SubSeq(lines, 1, k)
  BY DEF Trimmed, SelectLastInSeq
<1> HIDE DEF k
<1>4. 1 \in Nat /\ k \in Nat /\ 1 <= 1 /\ k <= Len(lines)
  BY <1>1, <1>2
<1>5. QED
  BY <1>3, <1>4, PartOfSeq DEF Content

LEMMA ResolvedIsLine ==
  ASSUME NEW old \in 0..MaxLines, NEW lines \in Content
  PROVE  Resolved(old, lines) \in 0..MaxLines
<1>1. ASSUME Definitions(lines) > 0 PROVE lines[1][1] \in 0..MaxLines
  <2>1. Len(lines) \in Nat /\ Definitions(lines) \in 0..Len(lines)
    BY DefinitionsBegin DEF Content
  <2>2. 1 \in 1..Len(lines)
    BY <1>1, <2>1
  <2>3. lines[1] \in (0..MaxLines) \X Word
    BY <2>2 DEF Content
  <2>4. QED
    BY <2>3
<1>2. QED
  BY <1>1 DEF Resolved

(***************************************************************************)
(* Detaching a block                                                       *)
(***************************************************************************)
\* n is where it was, or nowhere: only paragraphs and spoilers are detached
Cut(t, u, n) ==
  /\ DOMAIN u = DOMAIN t
  /\ \A m \in DOMAIN t : u[m].kind = t[m].kind
  /\ \/ \A m \in DOMAIN t : u[m].parent = t[m].parent /\ u[m].kids = t[m].kids
     \/ /\ t[n].kind \in {"Paragraph", "Spoiler"}
        /\ u[n].parent = None
        /\ \A m \in DOMAIN t :
             /\ m # n => u[m].parent = t[m].parent
             /\ u[m].kids = IF m = t[n].parent THEN RemoveFirst(t[m].kids, n) ELSE t[m].kids

LEMMA CutIsTree ==
  ASSUME NEW t \in Seq(Block), NEW u \in Seq(Block), Tree(t), NEW n \in DOMAIN t, Cut(t, u, n)
  PROVE  Tree(u)
<1>1. DOMAIN u = DOMAIN t /\ \A m \in DOMAIN t : u[m].kind = t[m].kind
  BY DEF Cut
<1>2. \A m \in DOMAIN t : m # n => u[m].parent = t[m].parent
  BY DEF Cut
<1>3. CASE \A m \in DOMAIN t : u[m].parent = t[m].parent /\ u[m].kids = t[m].kids
  <2>1. Rooted(u)
    BY <1>1, <1>3 DEF Tree, Rooted
  <2>2. ParentsHold(u)
    BY <1>1, <1>3 DEF Tree, ParentsHold
  <2>3. KidsAgree(u)
    <3>1. ASSUME NEW m \in DOMAIN t
          PROVE  /\ Distinct(u[m].kids)
                 /\ \A i \in DOMAIN u[m].kids :
                      u[m].kids[i] \in DOMAIN t /\ u[u[m].kids[i]].parent = m
      <4>1. u[m].kids = t[m].kids /\ Distinct(t[m].kids)
        BY <1>3 DEF Tree, KidsAgree
      <4>2. \A i \in DOMAIN t[m].kids : t[m].kids[i] \in DOMAIN t /\ t[t[m].kids[i]].parent = m
        BY DEF Tree, KidsAgree
      <4>3. QED
        BY <1>3, <4>1, <4>2
    <3>2. QED
      BY <1>1, <3>1 DEF KidsAgree
  <2>4. QED
    BY <2>1, <2>2, <2>3 DEF Tree
<1>4. CASE /\ t[n].kind \in {"Paragraph", "Spoiler"}
           /\ u[n].parent = None
           /\ \A m \in DOMAIN t :
                /\ m # n => u[m].parent = t[m].parent
                /\ u[m].kids = IF m = t[n].parent THEN RemoveFirst(t[m].kids, n) ELSE t[m].kids
  <2>1. Rooted(u)
    <3>1. n # Root
      BY <1>4 DEF Tree, Rooted
    <3>2. QED
      BY <1>1, <1>2, <3>1 DEF Tree, Rooted
  <2>2. ParentsHold(u)
    <3>1. ASSUME NEW m \in DOMAIN t, u[m].parent # None
          PROVE  /\ u[m].parent \in DOMAIN t
                 /\ CanContain(u[u[m].parent].kind, u[m].kind)
                 /\ u[m].kind # "Paragraph" => u[m].parent < m
      <4>1. m # n /\ u[m].parent = t[m].parent
        BY <1>4, <3>1
      <4>2. QED
        BY <1>1, <3>1, <4>1 DEF Tree, ParentsHold
    <3>2. QED
      BY <1>1, <3>1 DEF ParentsHold
  <2>3. ASSUME NEW m \in DOMAIN t
        PROVE  /\ Distinct(u[m].kids)
               /\ \A i \in DOMAIN u[m].kids :
                    u[m].kids[i] \in DOMAIN t /\ u[u[m].kids[i]].parent = m
    <3> DEFINE s == t[m].kids
    <3>1. s \in Seq(Nat)
      <4>1. t[m] \in Block
        OBVIOUS
      <4>2. QED
        BY <4>1 DEF Block
    <3>2. Distinct(s) /\ \A i \in DOMAIN s : s[i] \in DOMAIN t /\ t[s[i]].parent = m
      BY DEF Tree, KidsAgree
    <3> HIDE DEF s
    <3>3. CASE m = t[n].parent
      <4> DEFINE r == RemoveFirst(s, n)
      <4>1. u[m].kids = r
        BY <1>4, <3>3 DEF s
      <4>2. Without(r, s, n)
        BY <3>1, <3>2, RemoveFirstIsWithout
      <4> HIDE DEF r
      <4>3. Distinct(r) /\ \A i \in DOMAIN r : \E j \in DOMAIN s : r[i] = s[j] /\ s[j] # n
        BY <4>2 DEF Without
      <4>4. ASSUME NEW i \in DOMAIN r PROVE r[i] \in DOMAIN t /\ u[r[i]].parent = m
        <5>1. PICK j \in DOMAIN s : r[i] = s[j] /\ s[j] # n
          BY <4>3
        <5>2. QED
          BY <1>2, <3>2, <5>1
      <4>5. QED
        BY <4>1, <4>3, <4>4
    <3>4. CASE m # t[n].parent
      <4>1. u[m].kids = s
        BY <1>4, <3>4 DEF s
      <4>2. \A i \in DOMAIN s : s[i] # n
        BY <3>2, <3>4
      <4>3. QED
        BY <1>2, <3>2, <4>1, <4>2
    <3>5. QED
      BY <3>3, <3>4
  <2>4. KidsAgree(u)
    BY <1>1, <2>3 DEF KidsAgree
  <2>5. QED
    BY <2>1, <2>2, <2>4 DEF Tree
<1>5. QED
  BY <1>3, <1>4 DEF Cut

LEMMA CutKids ==
  ASSUME NEW t \in Seq(Block), NEW u \in Seq(Block), Tree(t), NEW n \in DOMAIN t, Cut(t, u, n),
         NEW m \in DOMAIN t
  PROVE  /\ Earlier(u, m) \subseteq Earlier(t, m)
         /\ \/ LastKid(u, m) = LastKid(t, m)
            \/ LastKid(t, m) = n /\ LastKid(u, m) \in Earlier(t, m) \cup {None} /\ t[m].kind \in General
         /\ u[n].parent = None => n \notin Earlier(u, m) /\ n # LastKid(u, m)
<1> DEFINE s == t[m].kids
           r == u[m].kids
<1>1. s \in Seq(Nat) /\ Distinct(s)
  <2>1. t[m] \in Block
    OBVIOUS
  <2>2. QED
    BY <2>1 DEF Block, Tree, KidsAgree
<1>2. Tree(u) /\ DOMAIN u = DOMAIN t
  BY CutIsTree DEF Cut
<1>3. u[n].parent = None => n \notin Earlier(u, m) /\ n # LastKid(u, m)
  <2>1. m # None
    <3>1. DOMAIN t = 1..Len(t)
      OBVIOUS
    <3>2. QED
      BY <3>1 DEF None
  <2>2. n # None
    <3>1. DOMAIN t = 1..Len(t)
      OBVIOUS
    <3>2. QED
      BY <3>1 DEF None
  <2>3. QED
    BY <1>2, <2>1, <2>2, KidsOf
<1>4. CASE r = s
  BY <1>3, <1>4 DEF Earlier, LastKid
<1>5. CASE r # s
  <2>1. m = t[n].parent /\ r = RemoveFirst(s, n) /\ t[n].kind \in {"Paragraph", "Spoiler"}
    BY <1>5 DEF Cut
  <2>2. m # None
    <3>1. DOMAIN t = 1..Len(t)
      OBVIOUS
    <3>2. QED
      BY <3>1 DEF None
  <2>3. t[m].kind \in General
    <3>1. CanContain(t[m].kind, t[n].kind)
      BY <2>1, <2>2 DEF Tree, ParentsHold
    <3>2. QED
      BY <2>1, <3>1, WhatHoldsWhat
  <2>4. Without(r, s, n)
    BY <1>1, <2>1, RemoveFirstIsWithout
  <2>5. Earlier(u, m) = {r[i] : i \in 1..(Len(r) - 1)} /\ Earlier(t, m) = {s[i] : i \in 1..(Len(s) - 1)}
    BY DEF Earlier
  <2>6. /\ LastKid(u, m) = IF r = <<>> THEN None ELSE r[Len(r)]
        /\ LastKid(t, m) = IF s = <<>> THEN None ELSE s[Len(s)]
    BY DEF LastKid, Last
  <2> HIDE DEF r, s
  <2>7. r \in Seq(Nat)
    BY <2>4 DEF Without
  <2>8. ASSUME NEW i \in 1..(Len(r) - 1) PROVE r[i] \in {s[j] : j \in 1..(Len(s) - 1)}
    <3>1. i \in DOMAIN r /\ i < Len(r)
      BY <2>7
    <3>2. PICK j \in DOMAIN s : r[i] = s[j] /\ j < Len(s)
      BY <2>4, <3>1 DEF Without
    <3>3. j \in 1..(Len(s) - 1)
      BY <1>1, <3>2
    <3>4. QED
      BY <3>2, <3>3
  <2>9. CASE s # <<>> /\ s[Len(s)] # n
    <3>1. r # <<>> /\ r[Len(r)] = s[Len(s)]
      BY <2>4, <2>9 DEF Without
    <3>2. QED
      BY <1>3, <2>5, <2>6, <2>8, <2>9, <3>1
  <2>10. CASE s # <<>> /\ s[Len(s)] = n
    <3>1. ASSUME r # <<>> PROVE r[Len(r)] \in {s[j] : j \in 1..(Len(s) - 1)}
      <4>1. Len(r) \in DOMAIN r
        BY <2>7, <3>1
      <4>2. PICK j \in DOMAIN s : r[Len(r)] = s[j] /\ j < Len(s)
        BY <2>4, <2>10, <4>1 DEF Without
      <4>3. j \in 1..(Len(s) - 1)
        BY <1>1, <4>2
      <4>4. QED
        BY <4>2, <4>3
    <3>2. QED
      BY <1>3, <2>3, <2>5, <2>6, <2>8, <2>10, <3>1
  <2>11. CASE s = <<>>
    <3>1. \A i \in DOMAIN r : FALSE
      BY <2>4, <2>11 DEF Without
    <3>2. r = <<>>
      BY <2>7, <3>1
    <3>3. QED
      BY <1>5, <2>11, <3>2 DEF r, s
  <2>12. QED
    BY <2>9, <2>10, <2>11
<1>6. QED
  BY <1>4, <1>5

(***************************************************************************)
(* finalize                                                                *)
(***************************************************************************)
\* n is closed and may be detached
Pruned(t, u, n) ==
  /\ DOMAIN u = DOMAIN t
  /\ \A m \in DOMAIN t :
       /\ u[m].kind = t[m].kind
       /\ u[m].open <=> t[m].open /\ m # n
       /\ m # n => u[m].parent = t[m].parent
       /\ Earlier(u, m) \subseteq Earlier(t, m)
       /\ \/ LastKid(u, m) = LastKid(t, m)
          \/ /\ LastKid(t, m) = n /\ LastKid(u, m) \in Earlier(t, m) \cup {None}
             /\ t[m].kind \in General

\* One block of a sequence is edited
LEMMA EditBlock ==
  ASSUME NEW t \in Seq(Block), NEW n \in DOMAIN t, NEW b \in Block
  PROVE  /\ [t EXCEPT ![n] = b] \in Seq(Block)
         /\ DOMAIN [t EXCEPT ![n] = b] = DOMAIN t
         /\ \A m \in DOMAIN t : [t EXCEPT ![n] = b][m] = IF m = n THEN b ELSE t[m]
OBVIOUS

LEMMA DetachedIsCut ==
  ASSUME NEW t \in Seq(Block), Tree(t), NEW n \in DOMAIN t
  PROVE  /\ Detached(t, n) \in Seq(Block)
         /\ DOMAIN Detached(t, n) = DOMAIN t
         /\ \A m \in DOMAIN t : /\ Detached(t, n)[m].kind = t[m].kind
                                /\ Detached(t, n)[m].open = t[m].open
                                /\ m # n => Detached(t, n)[m].parent = t[m].parent
                                /\ Detached(t, n)[m].kids =
                                     IF m = t[n].parent THEN RemoveFirst(t[m].kids, n) ELSE t[m].kids
         /\ Detached(t, n)[n].parent = None
<1> DEFINE v == [t EXCEPT ![n].parent = None]
           p == t[n].parent
           u == Detached(t, n)
<1>1. /\ v \in Seq(Block) /\ DOMAIN v = DOMAIN t
      /\ \A m \in DOMAIN t : /\ v[m].kind = t[m].kind /\ v[m].open = t[m].open
                             /\ v[m].kids = t[m].kids
                             /\ v[m].parent = IF m = n THEN None ELSE t[m].parent
  <2>1. t[n] \in Block
    OBVIOUS
  <2>2. [t[n] EXCEPT !.parent = None] \in Block
    BY <2>1 DEF Block, None
  <2>3. v = [t EXCEPT ![n] = [t[n] EXCEPT !.parent = None]]
    OBVIOUS
  <2>4. QED
    BY <2>1, <2>2, <2>3, EditBlock DEF Block
<1>2. u = [v EXCEPT ![p].kids = RemoveFirst(@, n)]
  BY DEF Detached
<1> HIDE DEF v, u
<1>3. CASE p \in DOMAIN t
  <2> DEFINE r == RemoveFirst(t[p].kids, n)
  <2>1. r \in Seq(Nat)
    <3>1. t[p] \in Block
      BY <1>3
    <3>2. t[p].kids \in Seq(Nat) /\ Distinct(t[p].kids)
      BY <1>3, <3>1 DEF Block, Tree, KidsAgree
    <3>3. QED
      BY <3>2, RemoveFirstIsWithout DEF Without
  <2>2. v[p] \in Block /\ v[p].kids = t[p].kids
    BY <1>1, <1>3
  <2>3. u = [v EXCEPT ![p] = [v[p] EXCEPT !.kids = r]]
    BY <1>1, <1>2, <1>3, <2>2
  <2> HIDE DEF r
  <2>4. /\ [v[p] EXCEPT !.kids = r] \in Block /\ [v[p] EXCEPT !.kids = r].kids = r
        /\ [v[p] EXCEPT !.kids = r].kind = v[p].kind /\ [v[p] EXCEPT !.kids = r].open = v[p].open
        /\ [v[p] EXCEPT !.kids = r].parent = v[p].parent
    BY <2>1, <2>2 DEF Block
  <2>5. /\ u \in Seq(Block) /\ DOMAIN u = DOMAIN t
        /\ \A m \in DOMAIN t : u[m] = IF m = p THEN [v[p] EXCEPT !.kids = r] ELSE v[m]
    BY <1>1, <1>3, <2>3, <2>4, EditBlock
  <2>6. QED
    BY <1>1, <1>3, <2>2, <2>4, <2>5 DEF u, r
<1>4. CASE p \notin DOMAIN t
  <2>1. u = v
    BY <1>1, <1>2, <1>4
  <2>2. QED
    BY <1>1, <1>4, <2>1 DEF u
<1>5. QED
  BY <1>3, <1>4

\* n is closed where it is
Shutting(t, v, n) ==
  /\ v \in Seq(Block)
  /\ DOMAIN v = DOMAIN t
  /\ \A m \in DOMAIN t :
       /\ v[m].kind = t[m].kind /\ v[m].parent = t[m].parent /\ v[m].kids = t[m].kids
       /\ v[m].open = IF m = n THEN FALSE ELSE t[m].open

LEMMA ShuttingEdit ==
  ASSUME NEW t \in Seq(Block), NEW n \in DOMAIN t, NEW b \in Block,
         b.kind = t[n].kind, b.parent = t[n].parent, b.kids = t[n].kids, b.open = FALSE
  PROVE  Shutting(t, [t EXCEPT ![n] = b], n)
BY EditBlock DEF Shutting

LEMMA ShutThenCut ==
  ASSUME NEW t \in Seq(Block), Tree(t), NEW n \in DOMAIN t, NEW v, Shutting(t, v, n),
         NEW u, u = v \/ (t[n].kind \in {"Paragraph", "Spoiler"} /\ u = Detached(v, n))
  PROVE  u \in Seq(Block) /\ Tree(u) /\ Pruned(t, u, n)
<1>1. v \in Seq(Block) /\ DOMAIN v = DOMAIN t /\ v[n].kind = t[n].kind
  BY DEF Shutting
<1>2. Cut(t, v, n)
  BY DEF Cut, Shutting
<1>3. Tree(v)
  BY <1>1, <1>2, CutIsTree
<1>4. /\ u \in Seq(Block) /\ Cut(v, u, n)
      /\ \A m \in DOMAIN t : u[m].open = v[m].open
  <2>1. CASE u = v
    BY <1>1, <2>1 DEF Cut
  <2>2. CASE t[n].kind \in {"Paragraph", "Spoiler"} /\ u = Detached(v, n)
    <3>1. /\ u \in Seq(Block) /\ DOMAIN u = DOMAIN v /\ u[n].parent = None
          /\ \A m \in DOMAIN v : /\ u[m].kind = v[m].kind
                                 /\ u[m].open = v[m].open
                                 /\ m # n => u[m].parent = v[m].parent
                                 /\ u[m].kids = IF m = v[n].parent THEN RemoveFirst(v[m].kids, n)
                                                ELSE v[m].kids
      BY <1>1, <1>3, <2>2, DetachedIsCut
    <3>2. QED
      BY <1>1, <2>2, <3>1 DEF Cut
  <2>3. QED
    BY <2>1, <2>2
<1>5. Tree(u)
  BY <1>1, <1>3, <1>4, CutIsTree
<1>6. ASSUME NEW m \in DOMAIN t
      PROVE  /\ u[m].kind = t[m].kind
             /\ u[m].open <=> t[m].open /\ m # n
             /\ m # n => u[m].parent = t[m].parent
             /\ Earlier(u, m) \subseteq Earlier(t, m)
             /\ \/ LastKid(u, m) = LastKid(t, m)
                \/ /\ LastKid(t, m) = n /\ LastKid(u, m) \in Earlier(t, m) \cup {None}
                   /\ t[m].kind \in General
  <2>1. u[m].kind = t[m].kind
    BY <1>1, <1>4 DEF Cut, Shutting
  <2>2. u[m].open <=> t[m].open /\ m # n
    BY <1>4 DEF Shutting
  <2>3. m # n => u[m].parent = t[m].parent
    BY <1>1, <1>4 DEF Cut, Shutting
  <2>4. LastKid(v, m) = LastKid(t, m) /\ Earlier(v, m) = Earlier(t, m) /\ v[m].kind = t[m].kind
    BY DEF Shutting, LastKid, Earlier
  <2>5. /\ Earlier(u, m) \subseteq Earlier(v, m)
        /\ \/ LastKid(u, m) = LastKid(v, m)
           \/ LastKid(v, m) = n /\ LastKid(u, m) \in Earlier(v, m) \cup {None} /\ v[m].kind \in General
    BY <1>1, <1>3, <1>4, CutKids
  <2>6. QED
    BY <2>1, <2>2, <2>3, <2>4, <2>5
<1>7. DOMAIN u = DOMAIN t
  BY <1>1, <1>4 DEF Cut
<1>8. QED
  BY <1>4, <1>5, <1>6, <1>7 DEF Pruned

LEMMA FinalizedCloses ==
  ASSUME NEW d, d.nodes \in Seq(Block), Tree(d.nodes), d.refs \in 0..MaxLines,
         NEW n \in DOMAIN d.nodes
  PROVE  /\ Finalized(d, n).nodes \in Seq(Block)
         /\ Tree(Finalized(d, n).nodes)
         /\ Pruned(d.nodes, Finalized(d, n).nodes, n)
         /\ Finalized(d, n).refs \in 0..MaxLines
         /\ Finalized(d, n).panicked = (d.panicked \/ ~d.nodes[n].open)
<1> DEFINE b == d.nodes[n]
           s == d.nodes
           t == [d.nodes EXCEPT ![n].open = FALSE]
           b1 == [b EXCEPT !.open = FALSE]
           rest == SubSeq(b.lines, Definitions(b.lines) + 1, Len(b.lines))
           lit == IF b.tag = "fenced" THEN SubSeq(b.lines, 2, Len(b.lines)) ELSE Trimmed(b.lines)
           settled ==
             CASE b.kind = "Paragraph" /\ rest = <<>> ->
                    Detached([t EXCEPT ![n].lines = <<>>], n)
               [] b.kind = "Paragraph" /\ rest # <<>> -> [t EXCEPT ![n].lines = rest]
               [] b.kind = "Spoiler" /\ b.kids = <<>> -> Detached(t, n)
               [] b.kind = "CodeBlock" -> [t EXCEPT ![n].lines = <<>>, ![n].literal = lit]
               [] b.kind \in {"HtmlBlock", "Comment"} ->
                    [t EXCEPT ![n].lines = <<>>, ![n].literal = b.lines]
               [] b.kind = "List" -> [t EXCEPT ![n].tight = Tight(t, n)]
               [] OTHER -> t
<1>1. b \in Block /\ b.lines \in Content
  <2>1. b \in Block
    OBVIOUS
  <2>2. QED
    BY <2>1 DEF Block
<1>2. /\ Finalized(d, n).nodes = settled
      /\ Finalized(d, n).refs = IF b.kind = "Paragraph" THEN Resolved(d.refs, b.lines) ELSE d.refs
      /\ Finalized(d, n).panicked = (d.panicked \/ ~b.open)
  BY DEF Finalized
<1>3. rest \in Content
  BY <1>1, DefinitionsBegin
<1>4. lit \in Content
  <2>1. 2 \in Nat /\ 1 <= 2 /\ Len(b.lines) \in Nat /\ Len(b.lines) <= Len(b.lines)
    BY <1>1 DEF Content
  <2>2. SubSeq(b.lines, 2, Len(b.lines)) \in Content
    BY <1>1, <2>1, PartOfSeq DEF Content
  <2>3. Trimmed(b.lines) \in Content
    BY <1>1, TrimmedIsContent
  <2>4. QED
    BY <2>2, <2>3
<1>5. Finalized(d, n).refs \in 0..MaxLines
  BY <1>1, <1>2, ResolvedIsLine
<1> DEFINE Edited(e) == /\ e \in Block /\ e.kind = b.kind /\ e.parent = b.parent
                        /\ e.kids = b.kids /\ e.open = FALSE
<1>6. <<>> \in Content /\ Tight(t, n) \in BOOLEAN
  BY DEF Content, Tight
<1> DEFINE tt == Tight(t, n)
<1> HIDE DEF rest, lit, tt
<1>7. Edited(b1) /\ b1.kind = b.kind
  BY <1>1 DEF Block
<1>8. \A l \in Content : Edited([b1 EXCEPT !.lines = l])
  BY <1>7 DEF Block
<1>9. \A l \in Content : Edited([b1 EXCEPT !.lines = <<>>, !.literal = l])
  BY <1>6, <1>7 DEF Block
<1>10. tt \in BOOLEAN => Edited([b1 EXCEPT !.tight = tt])
  BY <1>7 DEF Block
<1>11. /\ t = [s EXCEPT ![n] = b1]
       /\ \A l : [t EXCEPT ![n].lines = l] = [s EXCEPT ![n] = [b1 EXCEPT !.lines = l]]
       /\ \A l : [t EXCEPT ![n].lines = <<>>, ![n].literal = l]
                   = [s EXCEPT ![n] = [b1 EXCEPT !.lines = <<>>, !.literal = l]]
       /\ [t EXCEPT ![n].tight = tt] = [s EXCEPT ![n] = [b1 EXCEPT !.tight = tt]]
  OBVIOUS
<1>12. \A e : Edited(e) => Shutting(s, [s EXCEPT ![n] = e], n)
  BY ShuttingEdit
<1>13. \E v : /\ Shutting(s, v, n)
              /\ \/ settled = v
                 \/ b.kind \in {"Paragraph", "Spoiler"} /\ settled = Detached(v, n)
  <2> HIDE DEF Edited, b, s, b1, t
  <2>1. CASE b.kind = "Paragraph" /\ rest = <<>>
    <3>1. settled = Detached([t EXCEPT ![n].lines = <<>>], n)
      BY <2>1
    <3>2. Shutting(s, [t EXCEPT ![n].lines = <<>>], n)
      BY <1>6, <1>8, <1>11, <1>12
    <3>3. QED
      BY <2>1, <3>1, <3>2
  <2>2. CASE b.kind = "Paragraph" /\ rest # <<>>
    <3>1. settled = [t EXCEPT ![n].lines = rest]
      BY <2>2
    <3>2. QED
      BY <1>3, <1>8, <1>11, <1>12, <3>1
  <2>3. CASE b.kind = "Spoiler" /\ b.kids = <<>>
    <3>1. settled = Detached(t, n)
      BY <2>3
    <3>2. QED
      BY <1>7, <1>11, <1>12, <2>3, <3>1
  <2>4. CASE b.kind = "CodeBlock"
    <3>1. settled = [t EXCEPT ![n].lines = <<>>, ![n].literal = lit]
      BY <2>4
    <3>2. QED
      BY <1>4, <1>9, <1>11, <1>12, <3>1
  <2>5. CASE b.kind \in {"HtmlBlock", "Comment"}
    <3>1. settled = [t EXCEPT ![n].lines = <<>>, ![n].literal = b.lines]
      BY <2>5
    <3>2. QED
      BY <1>1, <1>9, <1>11, <1>12, <3>1
  <2>6. CASE b.kind = "List"
    <3>1. settled = [t EXCEPT ![n].tight = tt]
      BY <2>6 DEF tt
    <3>2. QED
      BY <1>6, <1>10, <1>11, <1>12, <3>1 DEF tt
  <2>7. CASE /\ b.kind \notin {"Paragraph", "CodeBlock", "HtmlBlock", "Comment", "List"}
             /\ ~(b.kind = "Spoiler" /\ b.kids = <<>>)
    <3>1. settled = t
      BY <2>7
    <3>2. QED
      BY <1>7, <1>11, <1>12, <3>1
  <2>8. QED
    BY <2>1, <2>2, <2>3, <2>4, <2>5, <2>6, <2>7
<1> HIDE DEF settled
<1>14. settled \in Seq(Block) /\ Tree(settled) /\ Pruned(s, settled, n)
  BY <1>13, ShutThenCut
<1>15. QED
  BY <1>2, <1>5, <1>14

\* Closing n below c: what stays open below c is pending
LEMMA PrunedSlack ==
  ASSUME NEW t \in Seq(Block), Tree(t), NEW u, NEW n, Pruned(t, u, n), NEW U, Shut(t, U),
         NEW c \in DOMAIN t, Slack(t, c, U \cup {n})
  PROVE  Slack(u, c, U \ {n})
<1> SUFFICES ASSUME LastOpen(u, c) PROVE LastKid(u, c) \in U \ {n}
  BY DEF Slack
<1> DEFINE k == LastKid(u, c)
<1>1. k # None /\ u[k].open
  BY DEF LastOpen
<1>2. CASE k = LastKid(t, c)
  <2>1. k \in DOMAIN t
    BY <1>1, <1>2, KidsOf
  <2>2. t[k].open /\ k # n
    BY <1>1, <2>1 DEF Pruned
  <2>3. LastOpen(t, c)
    BY <1>1, <1>2, <2>2 DEF LastOpen
  <2>4. QED
    BY <1>2, <2>2, <2>3 DEF Slack
<1>3. CASE LastKid(t, c) = n /\ k \in Earlier(t, c) /\ t[c].kind \in General
  <2>1. k \in DOMAIN t /\ k # n
    BY <1>3, KidsOf
  <2>2. t[k].open
    BY <1>1, <2>1 DEF Pruned
  <2>3. t[c].kind \notin Lists
    BY <1>3 DEF General, Lists, Fenced
  <2>4. QED
    BY <1>3, <2>1, <2>2, <2>3 DEF Shut
<1>4. QED
  BY <1>1, <1>2, <1>3 DEF Pruned

LEMMA PrunedShut ==
  ASSUME NEW t \in Seq(Block), Tree(t), NEW u, NEW n, Pruned(t, u, n), NEW U, Shut(t, U)
  PROVE  Shut(u, U \ {n})
<1>1. ASSUME NEW m \in DOMAIN t, u[m].kind \notin Lists, NEW k \in Earlier(u, m), u[k].open
      PROVE  k \in U \ {n}
  <2>1. k \in Earlier(t, m)
    BY <1>1 DEF Pruned
  <2>2. k \in DOMAIN t
    BY <2>1, KidsOf
  <2>3. t[k].open /\ k # n /\ t[m].kind \notin Lists
    BY <1>1, <2>2 DEF Pruned
  <2>4. QED
    BY <2>1, <2>3 DEF Shut
<1>2. DOMAIN u = DOMAIN t
  BY DEF Pruned
<1>3. QED
  BY <1>1, <1>2 DEF Shut

LEMMA PrunedPath ==
  ASSUME NEW t \in Seq(Block), NEW u, NEW n, Pruned(t, u, n),
         NEW Q, NEW tip, Path(t, Q, tip), n \notin Q
  PROVE  Path(u, Q, tip)
<1>1. Q \subseteq DOMAIN u
  BY DEF Path, Pruned
<1>2. ASSUME NEW m \in Q PROVE u[m].open /\ u[m].parent = t[m].parent
  <2>1. m \in DOMAIN t /\ t[m].open /\ m # n
    BY DEF Path
  <2>2. QED
    BY <2>1 DEF Pruned
<1>3. ASSUME NEW m \in Q \ {tip} PROVE LastKid(u, m) = LastKid(t, m)
  <2>1. m \in DOMAIN t /\ LastKid(t, m) # n
    BY DEF Path
  <2>2. QED
    BY <2>1 DEF Pruned
<1>4. QED
  BY <1>1, <1>2, <1>3, KeepPath

\* Closing the tip of a path leads back to its parent
LEMMA CloseTip ==
  ASSUME NEW t \in Seq(Block), Tree(t), NEW u, NEW n \in DOMAIN t, Pruned(t, u, n), n # Root,
         NEW Q, Path(t, Q, n), Shut(t, {})
  PROVE  t[n].parent \in Q /\ Between(u, {m \in Q : m <= t[n].parent}, t[n].parent)
<1> DEFINE p == t[n].parent
           P == {m \in Q : m <= p}
<1>1. n \in Q /\ Q \in SUBSET Nat /\ Q \subseteq DOMAIN t
  BY TipIsLast DEF Path
<1>2. p \in Q /\ p < n /\ LastKid(t, p) = n
  BY <1>1 DEF Path
<1> HIDE DEF p
<1>3. Path(t, P, p)
  BY <1>2, CutPath
<1>4. n \notin P
  BY <1>1, <1>2
<1> HIDE DEF P
<1>5. Path(u, P, p)
  BY <1>3, <1>4, PrunedPath
<1>6. Slack(t, p, {} \cup {n})
  BY <1>2 DEF Slack
<1>7. Slack(u, p, {} \ {n}) /\ Shut(u, {} \ {n})
  BY <1>1, <1>2, <1>6, PrunedSlack, PrunedShut
<1>8. {} \ {n} = {}
  OBVIOUS
<1>9. Between(u, P, p)
  BY <1>5, <1>7, <1>8 DEF Between
<1>10. QED
  BY <1>2, <1>9 DEF p, P

\* add_text_to_container closes the last of the blocks pending
LEMMA ClosePending ==
  ASSUME NEW t \in Seq(Block), Tree(t), NEW Q, NEW U, NEW cur, NEW m0 \in DOMAIN t,
         NEW c \in DOMAIN t, Mid(t, Q, U, cur, m0, c), cur # m0, NEW u, Pruned(t, u, cur)
  PROVE  /\ cur \in DOMAIN t /\ t[cur].open /\ cur # Root /\ t[cur].parent \in DOMAIN t
         /\ Mid(u, Q, U \ {cur}, t[cur].parent, m0, c)
<1> DEFINE V == U \ {cur}
           p == t[cur].parent
<1>1. Path(t, Q, c) /\ Pending(t, Q, U, cur, m0, c) /\ Slack(t, c, U) /\ Shut(t, U)
  BY DEF Mid
<1>2. cur \in U /\ U \subseteq DOMAIN t /\ U \cap Q = {} /\ m0 \notin U
  BY <1>1 DEF Pending
<1>3. cur \in DOMAIN t /\ t[cur].open /\ cur # Root
  BY <1>1, <1>2 DEF Pending, Path
<1>4. p \in U \cup {m0} /\ p < cur
  BY <1>1, <1>2 DEF Pending
<1>5. DOMAIN t \in SUBSET Nat /\ None \notin DOMAIN t /\ DOMAIN t = 1..Len(t) /\ Len(t) \in Nat
  BY DEF None
\* cur is the last of U
<1>6. \A m \in U : m <= cur
  <2> DEFINE S == {m \in U : ~(m <= cur)}
  <2>1. ASSUME NEW x \in S PROVE LastKid(t, x) \in S /\ x < LastKid(t, x)
    <3>1. x \in U /\ x # cur /\ ~(x <= cur)
      BY <1>2, <1>5
    <3>2. LastKid(t, x) \in U /\ x < LastKid(t, x)
      BY <1>1, <3>1 DEF Pending
    <3>3. x \in Nat /\ LastKid(t, x) \in Nat /\ cur \in Nat
      BY <1>2, <1>5, <3>1, <3>2
    <3>4. ~(LastKid(t, x) <= cur)
      BY <3>1, <3>2, <3>3
    <3>5. QED
      BY <3>2, <3>4
  <2>2. S \subseteq U
    OBVIOUS
  <2>3. S = {}
    <3> HIDE DEF S
    <3>1. S \in SUBSET Nat /\ \A x \in S : x <= Len(t)
      BY <1>2, <1>5, <2>2
    <3>2. SUFFICES ASSUME S # {} PROVE FALSE
      OBVIOUS
    <3>3. PICK x \in S : \A y \in S : y <= x
      BY <1>5, <3>1, <3>2, LastExists
    <3>4. LastKid(t, x) \in S /\ x < LastKid(t, x) /\ LastKid(t, x) <= x
      BY <2>1, <3>3
    <3>5. x \in Nat /\ LastKid(t, x) \in Nat
      BY <3>1, <3>3, <3>4
    <3>6. QED
      BY <3>4, <3>5
  <2>4. QED
    BY <2>3
\* What is left of U ends at the parent
<1>7. ASSUME V # {} PROVE p \in V
  <2>1. V \in SUBSET Nat /\ \A x \in V : x <= cur /\ cur \in Nat
    BY <1>2, <1>5, <1>6
  <2>2. PICK x \in V : \A y \in V : y <= x
    <3> HIDE DEF V
    <3>1. cur \in Nat
      BY <1>2, <1>5
    <3>2. QED
      BY <1>7, <2>1, <3>1, LastExists
  <2>3. x \in U /\ x # cur
    OBVIOUS
  <2>4. LastKid(t, x) \in U /\ x < LastKid(t, x)
    BY <1>1, <2>3 DEF Pending
  <2>5. LastKid(t, x) = cur
    <3>1. x \in Nat /\ LastKid(t, x) \in Nat
      BY <1>2, <1>5, <2>3, <2>4
    <3>2. LastKid(t, x) \notin V
      BY <2>2, <2>4, <3>1
    <3>3. QED
      BY <2>4, <3>2
  <2>6. p = x
    <3>1. x \in DOMAIN t /\ LastKid(t, x) # None
      BY <1>2, <1>5, <2>3, <2>4
    <3>2. QED
      BY <2>5, <3>1, KidsOf
  <2>7. QED
    BY <2>6
<1>8. ASSUME NEW m \in V PROVE p # m0 /\ m # cur /\ t[m].parent # cur
  <2>1. p \in V
    BY <1>7
  <2>2. p # m0
    BY <1>2, <2>1
  <2>3. t[m].parent < m /\ m <= cur /\ m \in DOMAIN t
    BY <1>1, <1>2, <1>6 DEF Pending
  <2>4. t[m].parent \in Nat /\ m \in Nat /\ cur \in Nat
    BY <1>1, <1>2, <1>5, <2>3 DEF Pending
  <2>5. QED
    BY <2>2, <2>3, <2>4
<1>9. p \in DOMAIN t
  BY <1>2, <1>4
<1>10. \A m \in DOMAIN t : LastKid(t, m) # cur => LastKid(u, m) = LastKid(t, m)
  BY DEF Pruned
<1>11. ASSUME NEW m \in V
       PROVE  /\ u[m].open /\ u[m].parent \in V \cup {m0} /\ u[m].parent < m
              /\ u[m].parent \in V \/ c = m0 => LastKid(u, u[m].parent) = m
  <2>1. /\ t[m].open /\ t[m].parent \in U \cup {m0} /\ t[m].parent < m
        /\ t[m].parent \in U \/ c = m0 => LastKid(t, t[m].parent) = m
    BY <1>1 DEF Pending
  <2>2. m \in DOMAIN t /\ m # cur /\ t[m].parent # cur
    BY <1>2, <1>8
  <2>3. u[m].open /\ u[m].parent = t[m].parent
    BY <2>1, <2>2 DEF Pruned
  <2>4. t[m].parent \in DOMAIN t
    BY <1>2, <2>1
  <2>5. QED
    BY <1>10, <2>1, <2>2, <2>3, <2>4
<1>12. ASSUME NEW m \in V \ {p} PROVE LastKid(u, m) \in V /\ m < LastKid(u, m)
  <2>1. LastKid(t, m) \in U /\ m < LastKid(t, m) /\ m \in DOMAIN t
    BY <1>1, <1>2 DEF Pending
  <2>2. LastKid(t, m) # cur
    <3>1. LastKid(t, m) # None
      BY <1>2, <1>5, <2>1
    <3>2. t[LastKid(t, m)].parent = m
      BY <2>1, <3>1, KidsOf
    <3>3. QED
      BY <3>2
  <2>3. QED
    BY <1>10, <2>1, <2>2
<1>13. ASSUME V # {} PROVE ~LastOpen(u, p)
  <2>1. p \in U /\ p # m0
    BY <1>2, <1>7, <1>13
  <2>2. LastKid(t, p) = cur
    BY <1>1, <1>2, <2>1 DEF Pending
  <2>3. SUFFICES ASSUME LastOpen(u, p) PROVE FALSE
    OBVIOUS
  <2>4. LastKid(u, p) \in U \ {cur}
    <3>1. Slack(t, p, U \cup {cur})
      BY <1>2, <2>2 DEF Slack
    <3>2. QED
      BY <1>1, <1>9, <2>3, <3>1, PrunedSlack DEF Slack
  <2>5. LastKid(u, p) \in Earlier(t, p)
    BY <1>9, <2>2, <2>4, <1>2, <1>5 DEF Pruned
  <2>6. t[LastKid(u, p)].parent = p /\ LastKid(u, p) # LastKid(t, p)
    BY <1>9, <2>5, KidsOf
  <2>7. LastKid(t, t[LastKid(u, p)].parent) = LastKid(u, p)
    BY <1>1, <2>1, <2>4, <2>6 DEF Pending
  <2>8. QED
    BY <2>6, <2>7
<1>14. ASSUME V # {}, c = m0 PROVE LastKid(u, m0) \in V
  <2>1. LastKid(t, m0) \in U
    BY <1>1, <1>2, <1>14 DEF Pending
  <2>2. LastKid(t, m0) # cur
    <3>1. LastKid(t, m0) # None
      BY <1>2, <1>5, <2>1
    <3>2. t[LastKid(t, m0)].parent = m0
      BY <3>1, KidsOf
    <3>3. QED
      BY <1>2, <1>7, <1>14, <3>2
  <2>3. QED
    BY <1>10, <2>1, <2>2
<1>15. IF V = {} THEN p = m0 ELSE p \in V
  <2>1. ASSUME V = {} PROVE p = m0
    <3>1. p # cur
      BY <1>2, <1>4, <1>5
    <3>2. QED
      BY <1>4, <2>1, <3>1
  <2>2. QED
    BY <1>7, <2>1
<1>16. V \subseteq DOMAIN u /\ V \cap Q = {} /\ m0 \notin V
  BY <1>2 DEF Pruned
<1>17. Slack(u, c, V) /\ Shut(u, V)
  <2>1. Slack(t, c, U \cup {cur})
    BY <1>1 DEF Slack
  <2>2. QED
    BY <1>1, <2>1, PrunedSlack, PrunedShut
<1>18. Path(u, Q, c)
  BY <1>1, <1>2, PrunedPath
<1> HIDE DEF V, p
<1>19. Pending(u, Q, V, p, m0, c)
  BY <1>11, <1>12, <1>13, <1>14, <1>15, <1>16 DEF Pending
<1>20. Mid(u, Q, V, p, m0, c)
  BY <1>17, <1>18, <1>19 DEF Mid
<1>21. QED
  BY <1>3, <1>9, <1>20 DEF V, p

\* add_child closes a container that cannot hold the new block
LEMMA ClimbPath ==
  ASSUME NEW t \in Seq(Block), Tree(t), NEW Q, NEW U, NEW cur, NEW m0 \in DOMAIN t,
         NEW c \in DOMAIN t, Mid(t, Q, U, cur, m0, c), c # Root, cur # m0 => ~(m0 < c),
         NEW u, Pruned(t, u, c)
  PROVE  /\ t[c].open /\ t[c].parent \in DOMAIN t /\ t[c].parent < c
         /\ Mid(u, {m \in Q : m <= t[c].parent}, U, cur, m0, t[c].parent)
         /\ cur # m0 => ~(m0 < t[c].parent)
<1> DEFINE p == t[c].parent
           P == {m \in Q : m <= p}
<1>1. Path(t, Q, c) /\ Pending(t, Q, U, cur, m0, c) /\ Shut(t, U)
  BY DEF Mid
<1>2. c \in Q /\ Q \in SUBSET Nat /\ Q \subseteq DOMAIN t /\ t[c].open
  BY <1>1, TipIsLast DEF Path
<1>3. p \in Q /\ p < c /\ LastKid(t, p) = c /\ p \in DOMAIN t
  BY <1>1, <1>2 DEF Path
<1>4. p \in Nat /\ c \in Nat /\ m0 \in Nat
  BY <1>2, <1>3
<1>5. cur # m0 => ~(m0 < p) /\ p # m0
  BY <1>3, <1>4
<1> HIDE DEF p
<1>6. Path(t, P, p)
  BY <1>1, <1>3, CutPath
<1>7. c \notin P
  BY <1>3, <1>4
<1>8. P \subseteq Q
  OBVIOUS
<1> HIDE DEF P
<1>9. Path(u, P, p)
  BY <1>6, <1>7, PrunedPath
<1>10. c \notin U /\ U \subseteq DOMAIN t /\ m0 \notin U
  BY <1>1, <1>2 DEF Pending
<1>11. U \ {c} = U
  BY <1>10
<1>12. Slack(u, p, U) /\ Shut(u, U)
  <2>1. Slack(t, p, U \cup {c})
    BY <1>3 DEF Slack
  <2>2. QED
    BY <1>1, <1>3, <1>11, <2>1, PrunedSlack, PrunedShut
<1>13. Pending(u, P, U, cur, m0, p)
  <2>1. CASE U = {}
    BY <1>1, <2>1 DEF Pending
  <2>2. CASE U # {}
    <3>1. cur \in U /\ cur # m0 /\ p # m0
      BY <1>1, <1>5, <1>10, <2>2 DEF Pending
    <3>2. ASSUME NEW m \in U
          PROVE  /\ u[m].open /\ u[m].parent \in U \cup {m0} /\ u[m].parent < m
                 /\ u[m].parent \in U => LastKid(u, u[m].parent) = m
      <4>1. /\ t[m].open /\ t[m].parent \in U \cup {m0} /\ t[m].parent < m
            /\ t[m].parent \in U => LastKid(t, t[m].parent) = m
        BY <1>1 DEF Pending
      <4>2. m \in DOMAIN t /\ m # c /\ t[m].parent \in DOMAIN t
        BY <1>10, <4>1
      <4>3. u[m].open /\ u[m].parent = t[m].parent
        BY <4>1, <4>2 DEF Pruned
      <4>4. LastKid(t, t[m].parent) = m => LastKid(u, t[m].parent) = m
        BY <4>2 DEF Pruned
      <4>5. QED
        BY <4>1, <4>3, <4>4
    <3>3. ASSUME NEW m \in U \ {cur} PROVE LastKid(u, m) \in U /\ m < LastKid(u, m)
      <4>1. LastKid(t, m) \in U /\ m < LastKid(t, m) /\ m \in DOMAIN t
        BY <1>1, <1>10 DEF Pending
      <4>2. LastKid(t, m) # c
        BY <1>10, <4>1
      <4>3. QED
        BY <4>1, <4>2 DEF Pruned
    <3>4. ~LastOpen(u, cur)
      <4>1. cur \in DOMAIN t /\ ~LastOpen(t, cur)
        BY <1>1, <1>10, <2>2, <3>1 DEF Pending
      <4>2. LastKid(t, cur) # c
        <5>1. ASSUME LastKid(t, cur) = c PROVE FALSE
          <6>1. c # None
            <7>1. DOMAIN t = 1..Len(t)
              OBVIOUS
            <7>2. QED
              BY <7>1 DEF None
          <6>2. t[c].parent = cur
            BY <4>1, <5>1, <6>1, KidsOf
          <6>3. QED
            BY <1>1, <1>3, <3>1, <6>2 DEF Pending, p
        <5>2. QED
          BY <5>1
      <4>3. LastKid(u, cur) = LastKid(t, cur)
        BY <4>1, <4>2 DEF Pruned
      <4>4. LastKid(t, cur) = None \/ (LastKid(t, cur) \in DOMAIN t /\ ~t[LastKid(t, cur)].open)
        BY <4>1, KidsOf
      <4>5. QED
        BY <4>3, <4>4 DEF LastOpen, Pruned
    <3>5. U \subseteq DOMAIN u /\ U \cap P = {}
      BY <1>1, <1>8 DEF Pending, Pruned
    <3>6. QED
      BY <1>10, <2>2, <3>1, <3>2, <3>3, <3>4, <3>5 DEF Pending
  <2>3. QED
    BY <2>1, <2>2
<1>14. Mid(u, P, U, cur, m0, p)
  BY <1>9, <1>12, <1>13 DEF Mid
<1>15. QED
  BY <1>2, <1>3, <1>5, <1>14 DEF p, P

(***************************************************************************)
(* AddTo                                                                   *)
(***************************************************************************)
\* u is t with block n, a last child of c
Grown(t, u, c, n) ==
  /\ n \notin DOMAIN t /\ n \in Nat /\ \A m \in DOMAIN t : m < n
  /\ DOMAIN u = DOMAIN t \cup {n}
  /\ \A m \in DOMAIN t : /\ u[m].kind = t[m].kind /\ u[m].parent = t[m].parent
                         /\ u[m].open = t[m].open
                         /\ u[m].kids = IF m = c THEN Append(t[c].kids, n) ELSE t[m].kids
  /\ u[n].parent = c

LEMMA AddToGrows ==
  ASSUME NEW t \in Seq(Block), NEW c \in DOMAIN t, NEW b \in Block
  PROVE  /\ AddTo(t, c, b) \in Seq(Block)
         /\ Len(AddTo(t, c, b)) = Len(t) + 1
         /\ Grown(t, AddTo(t, c, b), c, Len(t) + 1)
         /\ AddTo(t, c, b)[Len(t) + 1].kind = b.kind
         /\ AddTo(t, c, b)[Len(t) + 1].open = b.open
         /\ AddTo(t, c, b)[Len(t) + 1].kids = b.kids
<1> DEFINE n == Len(t) + 1
           e == [t[c] EXCEPT !.kids = Append(@, n)]
           k == [b EXCEPT !.parent = c]
           v == [t EXCEPT ![c] = e]
           u == AddTo(t, c, b)
<1>1. Len(t) \in Nat /\ n \in Nat /\ DOMAIN t = 1..Len(t) /\ c \in Nat
  OBVIOUS
<1>2. t[c] \in Block /\ t[c].kids \in Seq(Nat)
  <2>1. t[c] \in Block
    OBVIOUS
  <2>2. QED
    BY <2>1 DEF Block
<1>3. u = Append(v, k)
  <2>1. v = [t EXCEPT ![c].kids = Append(@, n)]
    OBVIOUS
  <2>2. QED
    BY <2>1 DEF AddTo
<1>4. Append(t[c].kids, n) \in Seq(Nat)
  BY <1>1, <1>2
<1>5. /\ e \in Block /\ e.kind = t[c].kind /\ e.parent = t[c].parent /\ e.open = t[c].open
      /\ e.kids = Append(t[c].kids, n)
  BY <1>2, <1>4 DEF Block
<1>6. k \in Block /\ k.kind = b.kind /\ k.parent = c /\ k.open = b.open /\ k.kids = b.kids
  BY <1>1 DEF Block
<1> HIDE DEF e, k
<1>7. /\ v \in Seq(Block) /\ DOMAIN v = DOMAIN t
      /\ \A m \in DOMAIN t : v[m] = IF m = c THEN e ELSE t[m]
  BY <1>5, EditBlock
<1> HIDE DEF v, u
<1>8. Len(v) = Len(t)
  BY <1>1, <1>7
<1>9. /\ u \in Seq(Block) /\ Len(u) = n /\ u[n] = k /\ \A m \in DOMAIN t : u[m] = v[m]
  BY <1>1, <1>3, <1>6, <1>7, <1>8
<1>10. DOMAIN u = DOMAIN t \cup {n} /\ n \notin DOMAIN t /\ \A m \in DOMAIN t : m < n
  BY <1>1, <1>9
<1> HIDE DEF n
<1>11. Grown(t, u, c, n)
  <2>1. ASSUME NEW m \in DOMAIN t
        PROVE  /\ u[m].kind = t[m].kind /\ u[m].parent = t[m].parent
               /\ u[m].open = t[m].open
               /\ u[m].kids = IF m = c THEN Append(t[c].kids, n) ELSE t[m].kids
    BY <1>5, <1>7, <1>9
  <2>2. u[n].parent = c
    BY <1>6, <1>9
  <2>3. QED
    BY <1>1, <1>10, <2>1, <2>2 DEF Grown
<1>12. QED
  BY <1>6, <1>9, <1>11 DEF u, n

LEMMA GrownIsTree ==
  ASSUME NEW t \in Seq(Block), Tree(t), NEW c \in DOMAIN t, NEW u \in Seq(Block), NEW n,
         Grown(t, u, c, n), u[n].kids = <<>>, CanContain(t[c].kind, u[n].kind)
  PROVE  Tree(u)
<1>1. /\ DOMAIN u = DOMAIN t \cup {n} /\ n \notin DOMAIN t /\ n \in Nat /\ c < n /\ u[n].parent = c
      /\ \A m \in DOMAIN t : u[m].kind = t[m].kind /\ u[m].parent = t[m].parent
  BY DEF Grown
<1>2. Rooted(u)
  BY <1>1 DEF Tree, Rooted
<1>3. ParentsHold(u)
  <2>1. ASSUME NEW m \in DOMAIN u, u[m].parent # None
        PROVE  /\ u[m].parent \in DOMAIN u
               /\ CanContain(u[u[m].parent].kind, u[m].kind)
               /\ u[m].kind # "Paragraph" => u[m].parent < m
    <3>1. CASE m = n
      BY <1>1, <3>1
    <3>2. CASE m \in DOMAIN t
      BY <1>1, <2>1, <3>2 DEF Tree, ParentsHold
    <3>3. QED
      BY <1>1, <3>1, <3>2
  <2>2. QED
    BY <2>1 DEF ParentsHold
<1>4. KidsAgree(u)
  <2>1. ASSUME NEW m \in DOMAIN u
        PROVE  /\ Distinct(u[m].kids)
               /\ \A i \in DOMAIN u[m].kids :
                    u[m].kids[i] \in DOMAIN u /\ u[u[m].kids[i]].parent = m
    <3>1. CASE m = n
      BY <3>1 DEF Distinct
    <3>2. CASE m \in DOMAIN t /\ m # c
      <4>1. u[m].kids = t[m].kids
        BY <3>2 DEF Grown
      <4>2. /\ Distinct(t[m].kids)
            /\ \A i \in DOMAIN t[m].kids : t[m].kids[i] \in DOMAIN t /\ t[t[m].kids[i]].parent = m
        BY <3>2 DEF Tree, KidsAgree
      <4>3. QED
        BY <1>1, <4>1, <4>2
    <3>3. CASE m = c
      <4> DEFINE s == t[c].kids
                 r == Append(s, n)
      <4>1. s \in Seq(Nat)
        <5>1. t[c] \in Block
          OBVIOUS
        <5>2. QED
          BY <5>1 DEF Block
      <4>2. u[m].kids = r
        BY <3>3 DEF Grown
      <4>3. /\ Distinct(s)
            /\ \A i \in DOMAIN s : s[i] \in DOMAIN t /\ t[s[i]].parent = c
        BY DEF Tree, KidsAgree
      <4> HIDE DEF s
      <4>4. ASSUME NEW i \in DOMAIN r
            PROVE  (i \in DOMAIN s /\ r[i] = s[i]) \/ (i = Len(s) + 1 /\ r[i] = n)
        <5>1. DOMAIN s = 1..Len(s) /\ Len(s) \in Nat /\ n \in Nat /\ s \in Seq(Nat)
          BY <1>1, <4>1
        <5>2. r \in Seq(Nat) /\ Len(r) = Len(s) + 1 /\ r[Len(s) + 1] = n
              /\ \A j \in 1..Len(s) : r[j] = s[j]
          BY <5>1
        <5>3. i \in 1..(Len(s) + 1)
          BY <5>2
        <5>4. QED
          BY <5>1, <5>2, <5>3
      <4> HIDE DEF r
      <4>5. ASSUME NEW i \in DOMAIN r PROVE r[i] \in DOMAIN u /\ u[r[i]].parent = c
        BY <1>1, <4>3, <4>4
      <4>6. Distinct(r)
        <5>1. ASSUME NEW i \in DOMAIN r, NEW j \in DOMAIN r, r[i] = r[j] PROVE i = j
          <6>1. (i \in DOMAIN s /\ r[i] = s[i] /\ r[i] # n) \/ (i = Len(s) + 1 /\ r[i] = n)
            BY <1>1, <4>3, <4>4
          <6>2. (j \in DOMAIN s /\ r[j] = s[j] /\ r[j] # n) \/ (j = Len(s) + 1 /\ r[j] = n)
            BY <1>1, <4>3, <4>4
          <6>3. QED
            BY <4>3, <5>1, <6>1, <6>2 DEF Distinct
        <5>2. QED
          BY <5>1 DEF Distinct
      <4>7. QED
        BY <3>3, <4>2, <4>5, <4>6
    <3>4. QED
      BY <1>1, <3>1, <3>2, <3>3
  <2>2. QED
    BY <2>1 DEF KidsAgree
<1>5. QED
  BY <1>2, <1>3, <1>4 DEF Tree

LEMMA GrownKids ==
  ASSUME NEW t \in Seq(Block), Tree(t), NEW c \in DOMAIN t, NEW u \in Seq(Block), NEW n,
         Grown(t, u, c, n), u[n].kids = <<>>
  PROVE  /\ \A m \in DOMAIN t \ {c} : LastKid(u, m) = LastKid(t, m) /\ Earlier(u, m) = Earlier(t, m)
         /\ LastKid(u, c) = n /\ Earlier(u, c) \subseteq Earlier(t, c) \cup ({LastKid(t, c)} \ {None})
         /\ LastKid(u, n) = None /\ Earlier(u, n) = {}
<1>1. \A m \in DOMAIN t \ {c} : LastKid(u, m) = LastKid(t, m) /\ Earlier(u, m) = Earlier(t, m)
  BY DEF Grown, LastKid, Earlier
<1> DEFINE s == t[c].kids
           r == Append(s, n)
<1>2. s \in Seq(Nat) /\ n \in Nat
  <2>1. t[c] \in Block
    OBVIOUS
  <2>2. QED
    BY <2>1 DEF Block, Grown
<1>3. u[c].kids = r
  BY DEF Grown
<1>4. Len(r) = Len(s) + 1 /\ r # <<>> /\ r[Len(r)] = n /\ \A i \in 1..Len(s) : r[i] = s[i]
  BY <1>2
<1>5. LastKid(u, c) = n
  BY <1>3, <1>4 DEF LastKid, Last
<1>6. ASSUME NEW k \in Earlier(u, c) PROVE k \in Earlier(t, c) \cup ({LastKid(t, c)} \ {None})
  <2>1. PICK i \in 1..(Len(r) - 1) : k = r[i]
    BY <1>3 DEF Earlier
  <2>2. i \in 1..Len(s) /\ k = s[i] /\ Len(s) \in Nat
    BY <1>2, <1>4, <2>1
  <2>3. CASE i = Len(s)
    <3>1. s # <<>> /\ k = s[Len(s)]
      BY <1>2, <2>2, <2>3
    <3>2. LastKid(t, c) = k /\ LastKid(t, c) # None
      BY <3>1, KidsOf DEF LastKid, Last
    <3>3. QED
      BY <3>2
  <2>4. CASE i # Len(s)
    <3>1. i \in 1..(Len(s) - 1)
      BY <2>2, <2>4
    <3>2. QED
      BY <2>2, <3>1 DEF Earlier
  <2>5. QED
    BY <2>3, <2>4
<1>7. LastKid(u, n) = None /\ Earlier(u, n) = {}
  BY DEF LastKid, Earlier
<1>8. QED
  BY <1>1, <1>5, <1>6, <1>7

\* The new block is the line's container
LEMMA GrownMid ==
  ASSUME NEW t \in Seq(Block), Tree(t), NEW c \in DOMAIN t, NEW u \in Seq(Block), NEW n,
         Grown(t, u, c, n), u[n].kids = <<>>, u[n].open,
         NEW Q, NEW U, NEW cur, NEW m0 \in DOMAIN t,
         Path(t, Q, c), Pending(t, Q, U, cur, m0, c), Shut(t, U),
         t[c].kind \in Lists \/ Slack(t, c, U)
  PROVE  Mid(u, Q \cup {n}, U, cur, m0, n)
<1>1. /\ n \notin DOMAIN t /\ c < n /\ DOMAIN u = DOMAIN t \cup {n} /\ u[n].parent = c
      /\ \A m \in DOMAIN t : /\ u[m].kind = t[m].kind /\ u[m].parent = t[m].parent
                             /\ u[m].open = t[m].open
  BY DEF Grown
<1>2. /\ \A m \in DOMAIN t \ {c} : LastKid(u, m) = LastKid(t, m) /\ Earlier(u, m) = Earlier(t, m)
      /\ LastKid(u, c) = n /\ Earlier(u, c) \subseteq Earlier(t, c) \cup ({LastKid(t, c)} \ {None})
      /\ LastKid(u, n) = None /\ Earlier(u, n) = {}
  BY GrownKids
<1>3. c \in Q /\ Q \subseteq DOMAIN t /\ \A m \in Q : t[m].open
  BY DEF Path
<1>4. Path(u, Q \cup {n}, n)
  <2>1. n \in DOMAIN u /\ Q \subseteq DOMAIN u /\ n \notin Q
    BY <1>1, <1>3
  <2>2. \A m \in Q : u[m].open /\ u[m].parent = t[m].parent
    BY <1>1, <1>3
  <2>3. \A m \in Q \ {c} : LastKid(u, m) = LastKid(t, m)
    BY <1>2, <1>3
  <2>4. QED
    BY <1>1, <1>2, <2>1, <2>2, <2>3, LongerPath
<1>5. /\ U \subseteq DOMAIN t /\ U \cap Q = {} /\ m0 \notin U
      /\ IF U = {} THEN cur = m0 ELSE cur \in U
  BY DEF Pending
<1>6. \A m \in U : m # c /\ LastKid(u, m) = LastKid(t, m) /\ u[m].parent = t[m].parent /\ u[m].open = t[m].open
  BY <1>1, <1>2, <1>3, <1>5
<1>7. n # m0
  BY <1>1
<1>8. Pending(u, Q \cup {n}, U, cur, m0, n)
  <2>1. U \subseteq DOMAIN u /\ U \cap (Q \cup {n}) = {}
    BY <1>1, <1>5
  <2>2. ASSUME NEW m \in U
        PROVE  /\ u[m].open /\ u[m].parent \in U \cup {m0} /\ u[m].parent < m
               /\ u[m].parent \in U => LastKid(u, u[m].parent) = m
    <3>1. /\ t[m].open /\ t[m].parent \in U \cup {m0} /\ t[m].parent < m
          /\ t[m].parent \in U => LastKid(t, t[m].parent) = m
      BY DEF Pending
    <3>2. QED
      BY <1>6, <3>1
  <2>3. ASSUME NEW m \in U \ {cur} PROVE LastKid(u, m) \in U /\ m < LastKid(u, m)
    BY <1>6 DEF Pending
  <2>4. ASSUME U # {} PROVE ~LastOpen(u, cur)
    <3>1. cur \in U /\ cur \in DOMAIN t /\ ~LastOpen(t, cur)
      BY <1>5, <2>4 DEF Pending
    <3>2. LastKid(t, cur) = None \/ (LastKid(t, cur) \in DOMAIN t /\ ~t[LastKid(t, cur)].open)
      BY <3>1, KidsOf
    <3>3. QED
      BY <1>1, <1>6, <3>1, <3>2 DEF LastOpen
  <2>5. QED
    BY <1>5, <1>7, <2>1, <2>2, <2>3, <2>4 DEF Pending
<1>9. Slack(u, n, U)
  BY <1>2 DEF Slack, LastOpen
<1>10. Shut(u, U)
  <2>1. ASSUME NEW m \in DOMAIN u, u[m].kind \notin Lists, NEW k \in Earlier(u, m), u[k].open
        PROVE  k \in U
    <3>1. m \in DOMAIN t /\ t[m].kind \notin Lists
      BY <1>1, <1>2, <2>1
    <3>2. CASE k \in Earlier(t, m)
      <4>1. k \in DOMAIN t
        BY <3>1, <3>2, KidsOf
      <4>2. t[k].open
        BY <1>1, <2>1, <4>1
      <4>3. QED
        BY <3>1, <3>2, <4>2 DEF Shut
    <3>3. CASE m = c /\ k = LastKid(t, c) /\ k # None
      <4>1. k \in DOMAIN t
        BY <3>3, KidsOf
      <4>2. LastOpen(t, c)
        BY <1>1, <2>1, <3>3, <4>1 DEF LastOpen
      <4>3. QED
        BY <3>1, <3>3, <4>2 DEF Slack
    <3>4. QED
      BY <1>2, <3>1, <3>2, <3>3
  <2>2. QED
    BY <2>1 DEF Shut
<1>11. QED
  BY <1>4, <1>8, <1>9, <1>10 DEF Mid

(***************************************************************************)
(* What is above a block, and the last open children below it              *)
(***************************************************************************)
LEMMA AboveSteps ==
  ASSUME NEW t \in Seq(Block), Tree(t), NEW n \in DOMAIN t
  PROVE  \E up \in [Nat -> SUBSET (DOMAIN t)] :
           /\ up[0] = {n}
           /\ \A k \in Nat : up[k + 1] = up[k] \cup ({t[m].parent : m \in up[k]} \ {None})
           /\ Above(t, n) = up[Len(t)]
<1> DEFINE X == SUBSET (DOMAIN t)
           G(S) == UNION {{m, t[m].parent} \ {None} : m \in S}
           F == [S \in X |-> G(S)]
<1>1. ASSUME NEW S \in X
      PROVE  G(S) = S \cup ({t[m].parent : m \in S} \ {None})
  <2>1. None \notin S
    BY DEF None
  <2>2. QED
    BY <2>1
<1>2. {n} \in X
  OBVIOUS
<1> HIDE DEF G
<1>3. F \in [X -> X]
  <2>1. ASSUME NEW S \in X PROVE S \cup ({t[m].parent : m \in S} \ {None}) \in X
    <3>1. \A m \in S : t[m].parent \in DOMAIN t \cup {None}
      BY DEF Tree, ParentsHold
    <3>2. QED
      BY <3>1
  <2>2. QED
    BY <1>1, <2>1 DEF X, F
<1> HIDE DEF X, F
<1>4. PICK h \in [Nat -> X] : h[0] = {n} /\ \A k \in Nat \ {0} : h[k] = F[h[k - 1]]
  <2>1. \E g \in [Nat -> X] : Repeats(g, {n}, F)
    BY <1>2, <1>3, RepeatExists
  <2>2. QED
    BY <2>1 DEF Repeats
<1>5. ASSUME NEW k \in Nat, k # 0 PROVE h[k - 1] \in X
  <2>1. k - 1 \in Nat
    BY <1>5
  <2>2. QED
    BY <2>1
<1>6. h = [k \in Nat |-> IF k = 0 THEN {n}
                         ELSE G(h[k - 1])]
  BY <1>4, <1>5 DEF F
<1> DEFINE up[k \in Nat] == IF k = 0 THEN {n}
                            ELSE G(up[k - 1])
<1>7. Above(t, n) = up[Len(t)]
  BY DEF Above, G
<1>8. up = [k \in Nat |-> IF k = 0 THEN {n}
                          ELSE G(up[k - 1])]
  BY <1>6
<1> HIDE DEF up
<1>9. ASSUME NEW k \in Nat PROVE up[k + 1] = G(up[k])
  <2>1. k + 1 \in Nat /\ k + 1 # 0 /\ up[k + 1 - 1] = up[k]
    OBVIOUS
  <2>2. \A j \in Nat : up[j] = IF j = 0 THEN {n} ELSE G(up[j - 1])
    BY <1>8, Zenon
  <2>3. ASSUME NEW j \in Nat, j # 0 PROVE up[j] = G(up[j - 1])
    BY <2>2, <2>3
  <2>4. k + 1 \in Nat /\ k + 1 # 0
    BY <2>1
  <2>5. up[k + 1] = G(up[k + 1 - 1])
    BY <2>3, <2>4
  <2>6. QED
    BY <2>1, <2>5
<1>10. \A k \in Nat : up[k] \in X
  <2> DEFINE S == {k \in Nat : up[k] \in X}
  <2>1. 0 \in S
    BY <1>2, <1>8
  <2>2. ASSUME NEW k \in S PROVE k + 1 \in S
    <3>1. k + 1 \in Nat /\ k + 1 # 0 /\ k + 1 - 1 = k
      OBVIOUS
    <3>2. up[k + 1] = G(up[k])
      BY <1>9
    <3>3. F[up[k]] = G(up[k])
      BY DEF F
    <3>4. QED
      BY <1>3, <3>1, <3>2, <3>3
  <2>3. S \in SUBSET Nat
    OBVIOUS
  <2> HIDE DEF S
  <2>4. S = Nat
    BY <2>1, <2>2, <2>3, EveryNumber
  <2>5. QED
    BY <2>4 DEF S
<1>11. up \in [Nat -> X] /\ up[0] = {n}
  BY <1>8, <1>10
<1>12. \A k \in Nat : up[k + 1] = up[k] \cup ({t[m].parent : m \in up[k]} \ {None})
  BY <1>1, <1>9, <1>10
<1>13. QED
  BY <1>7, <1>11, <1>12 DEF X

\* down[k] is what k descents make of n
Descends(down, t, n, pass) ==
  /\ down[0] = {n}
  /\ \A k \in Nat : down[k + 1] = down[k] \cup ({LastKid(t, m) : m \in down[k] \cap pass} \ {None})

LEMMA SpineSteps ==
  ASSUME NEW t \in Seq(Block), Tree(t), NEW n \in DOMAIN t, NEW pass
  PROVE  \E down \in [Nat -> SUBSET (DOMAIN t)] :
           Descends(down, t, n, pass) /\ LastSpine(t, n, pass) = down[Len(t)]
<1> DEFINE X == SUBSET (DOMAIN t)
           G(S) == UNION {IF m \in pass THEN {m, LastKid(t, m)} \ {None} ELSE {m} : m \in S}
           F == [S \in X |-> G(S)]
<1>1. ASSUME NEW S \in X
      PROVE  G(S) = S \cup ({LastKid(t, m) : m \in S \cap pass} \ {None})
  <2> DEFINE K(m) == IF m \in pass THEN {m, LastKid(t, m)} \ {None} ELSE {m}
  <2>1. \A m \in S : m # None /\ m \in K(m)
    BY DEF None
  <2>2. \A m \in S : \A x \in K(m) : x = m \/ (m \in pass /\ x = LastKid(t, m) /\ x # None)
    OBVIOUS
  <2>3. \A m \in S : m \in pass /\ LastKid(t, m) # None => LastKid(t, m) \in K(m)
    OBVIOUS
  <2> HIDE DEF K
  <2>4. UNION {K(m) : m \in S} = S \cup ({LastKid(t, m) : m \in S \cap pass} \ {None})
    BY <2>1, <2>2, <2>3
  <2>5. QED
    BY <2>4 DEF K
<1>2. {n} \in X
  OBVIOUS
<1> HIDE DEF G
<1>3. F \in [X -> X]
  <2>1. ASSUME NEW S \in X PROVE S \cup ({LastKid(t, m) : m \in S \cap pass} \ {None}) \in X
    <3>1. \A m \in S : LastKid(t, m) \in DOMAIN t \cup {None}
      BY KidsOf
    <3>2. QED
      BY <3>1
  <2>2. QED
    BY <1>1, <2>1 DEF X, F
<1> HIDE DEF X, F
<1>4. PICK h \in [Nat -> X] : h[0] = {n} /\ \A k \in Nat \ {0} : h[k] = F[h[k - 1]]
  <2>1. \E g \in [Nat -> X] : Repeats(g, {n}, F)
    BY <1>2, <1>3, RepeatExists
  <2>2. QED
    BY <2>1 DEF Repeats
<1>5. ASSUME NEW k \in Nat, k # 0 PROVE h[k - 1] \in X
  <2>1. k - 1 \in Nat
    BY <1>5
  <2>2. QED
    BY <2>1
<1>6. h = [k \in Nat |-> IF k = 0 THEN {n}
                         ELSE G(h[k - 1])]
  BY <1>4, <1>5 DEF F
<1> DEFINE down[k \in Nat] == IF k = 0 THEN {n}
                            ELSE G(down[k - 1])
<1>7. LastSpine(t, n, pass) = down[Len(t)]
  BY DEF LastSpine, G
<1>8. down = [k \in Nat |-> IF k = 0 THEN {n}
                          ELSE G(down[k - 1])]
  BY <1>6
<1> HIDE DEF down
<1>9. ASSUME NEW k \in Nat PROVE down[k + 1] = G(down[k])
  <2>1. k + 1 \in Nat /\ k + 1 # 0 /\ down[k + 1 - 1] = down[k]
    OBVIOUS
  <2>2. \A j \in Nat : down[j] = IF j = 0 THEN {n} ELSE G(down[j - 1])
    BY <1>8, Zenon
  <2>3. ASSUME NEW j \in Nat, j # 0 PROVE down[j] = G(down[j - 1])
    BY <2>2, <2>3
  <2>4. k + 1 \in Nat /\ k + 1 # 0
    BY <2>1
  <2>5. down[k + 1] = G(down[k + 1 - 1])
    BY <2>3, <2>4
  <2>6. QED
    BY <2>1, <2>5
<1>10. \A k \in Nat : down[k] \in X
  <2> DEFINE S == {k \in Nat : down[k] \in X}
  <2>1. 0 \in S
    BY <1>2, <1>8
  <2>2. ASSUME NEW k \in S PROVE k + 1 \in S
    <3>1. k + 1 \in Nat /\ k + 1 # 0 /\ k + 1 - 1 = k
      OBVIOUS
    <3>2. down[k + 1] = G(down[k])
      BY <1>9
    <3>3. F[down[k]] = G(down[k])
      BY DEF F
    <3>4. QED
      BY <1>3, <3>1, <3>2, <3>3
  <2>3. S \in SUBSET Nat
    OBVIOUS
  <2> HIDE DEF S
  <2>4. S = Nat
    BY <2>1, <2>2, <2>3, EveryNumber
  <2>5. QED
    BY <2>4 DEF S
<1>11. down \in [Nat -> X] /\ down[0] = {n}
  BY <1>8, <1>10
<1>12. \A k \in Nat : down[k + 1] = down[k] \cup ({LastKid(t, m) : m \in down[k] \cap pass} \ {None})
  BY <1>1, <1>9, <1>10
<1>13. QED
  BY <1>7, <1>11, <1>12 DEF X, Descends


\* n is above itself, and nothing is that the parents of a set around n do not leave
LEMMA AboveStays ==
  ASSUME NEW t \in Seq(Block), Tree(t), NEW n \in DOMAIN t,
         NEW S, n \in S, \A m \in S \cap DOMAIN t : t[m].parent \in S \cup {None}
  PROVE  n \in Above(t, n) /\ Above(t, n) \subseteq S
<1>1. PICK up \in [Nat -> SUBSET (DOMAIN t)] :
        /\ up[0] = {n}
        /\ \A k \in Nat : up[k + 1] = up[k] \cup ({t[m].parent : m \in up[k]} \ {None})
        /\ Above(t, n) = up[Len(t)]
  BY AboveSteps
<1> DEFINE T == {k \in Nat : n \in up[k] /\ up[k] \subseteq S}
<1>2. 0 \in T
  BY <1>1
<1>3. ASSUME NEW k \in T PROVE k + 1 \in T
  <2>1. k \in Nat /\ k + 1 \in Nat /\ n \in up[k] /\ up[k] \subseteq S /\ up[k] \subseteq DOMAIN t
    OBVIOUS
  <2>2. up[k + 1] = up[k] \cup ({t[m].parent : m \in up[k]} \ {None})
    BY <1>1, <2>1
  <2>3. ASSUME NEW x \in up[k + 1] PROVE x \in S
    BY <2>1, <2>2
  <2>4. n \in up[k + 1]
    BY <2>1, <2>2
  <2>5. QED
    BY <2>1, <2>3, <2>4
<1>4. T \in SUBSET Nat
  OBVIOUS
<1> HIDE DEF T
<1>5. Len(t) \in T
  BY <1>2, <1>3, <1>4, EveryNumber
<1>6. QED
  BY <1>1, <1>5 DEF T

LEMMA SpineStays ==
  ASSUME NEW t \in Seq(Block), Tree(t), NEW n \in DOMAIN t, NEW pass,
         NEW S, n \in S, \A m \in S \cap DOMAIN t \cap pass : LastKid(t, m) \in S \cup {None}
  PROVE  LastSpine(t, n, pass) \subseteq S \cap DOMAIN t
<1>1. PICK down \in [Nat -> SUBSET (DOMAIN t)] :
        Descends(down, t, n, pass) /\ LastSpine(t, n, pass) = down[Len(t)]
  BY SpineSteps
<1>2. /\ down[0] = {n}
      /\ \A k \in Nat : down[k + 1] = down[k] \cup ({LastKid(t, m) : m \in down[k] \cap pass} \ {None})
      /\ LastSpine(t, n, pass) = down[Len(t)]
  BY <1>1 DEF Descends
<1> DEFINE T == {k \in Nat : down[k] \subseteq S}
<1>3. 0 \in T
  BY <1>2
<1>4. ASSUME NEW k \in T PROVE k + 1 \in T
  <2>1. k \in Nat /\ k + 1 \in Nat /\ down[k] \subseteq S /\ down[k] \subseteq DOMAIN t
    OBVIOUS
  <2>2. down[k + 1] = down[k] \cup ({LastKid(t, m) : m \in down[k] \cap pass} \ {None})
    BY <1>2, <2>1
  <2>3. ASSUME NEW x \in down[k + 1] PROVE x \in S
    BY <2>1, <2>2
  <2>4. QED
    BY <2>1, <2>3
<1>5. T \in SUBSET Nat
  OBVIOUS
<1> HIDE DEF T
<1>6. Len(t) \in Nat /\ Len(t) \in T
  BY <1>3, <1>4, <1>5, EveryNumber
<1>7. QED
  BY <1>2, <1>6 DEF T

\* A set that begins with n and goes on with last children, each a younger block than its parent,
\* is all on the spine
LEMMA SpineReaches ==
  ASSUME NEW t \in Seq(Block), Tree(t), NEW n \in DOMAIN t, NEW pass,
         NEW S \in SUBSET (DOMAIN t),
         \A m \in S \ {n} : \E p \in S \cap pass : p < m /\ LastKid(t, p) = m
  PROVE  S \subseteq LastSpine(t, n, pass)
<1>1. PICK down \in [Nat -> SUBSET (DOMAIN t)] :
        Descends(down, t, n, pass) /\ LastSpine(t, n, pass) = down[Len(t)]
  BY SpineSteps
<1>2. /\ down[0] = {n}
      /\ \A k \in Nat : down[k + 1] = down[k] \cup ({LastKid(t, m) : m \in down[k] \cap pass} \ {None})
      /\ LastSpine(t, n, pass) = down[Len(t)]
  BY <1>1 DEF Descends
<1>3. DOMAIN t = 1..Len(t) /\ Len(t) \in Nat /\ None \notin DOMAIN t
  BY DEF None
<1> DEFINE T == {k \in Nat : \A m \in S : m <= k => m \in down[k]}
<1>4. 0 \in T
  BY <1>3
<1>5. ASSUME NEW k \in T PROVE k + 1 \in T
  <2>1. k \in Nat /\ k + 1 \in Nat
    OBVIOUS
  <2>2. down[k + 1] = down[k] \cup ({LastKid(t, m) : m \in down[k] \cap pass} \ {None})
    BY <1>2, <2>1
  <2>3. n \in down[k + 1]
    <3> DEFINE R == {i \in Nat : n \in down[i]}
    <3>1. 0 \in R
      BY <1>2
    <3>2. ASSUME NEW i \in R PROVE i + 1 \in R
      BY <1>2
    <3>3. R \in SUBSET Nat
      OBVIOUS
    <3> HIDE DEF R
    <3>4. R = Nat
      BY <3>1, <3>2, <3>3, EveryNumber
    <3>5. QED
      BY <2>1, <3>4 DEF R
  <2>4. ASSUME NEW m \in S, m <= k + 1, m # n PROVE m \in down[k + 1]
    <3>1. PICK p \in S \cap pass : p < m /\ LastKid(t, p) = m
      BY <2>4
    <3>2. p \in Nat /\ m \in Nat /\ m # None
      BY <1>3, <3>1
    <3>3. p <= k
      BY <2>1, <2>4, <3>1, <3>2
    <3>4. p \in down[k] \cap pass
      BY <3>1, <3>3
    <3>5. QED
      BY <2>2, <3>1, <3>2, <3>4
  <2>5. QED
    BY <2>1, <2>3, <2>4
<1>6. T \in SUBSET Nat
  OBVIOUS
<1> HIDE DEF T
<1>7. Len(t) \in T
  BY <1>3, <1>4, <1>5, <1>6, EveryNumber
<1>8. ASSUME NEW m \in S PROVE m \in down[Len(t)]
  <2>1. m <= Len(t)
    BY <1>3
  <2>2. QED
    BY <1>7, <2>1 DEF T
<1>9. QED
  BY <1>2, <1>8

\* Between lines the descent from the root ends at the tip
LEMMA TipIsSpineEnd ==
  ASSUME NEW t \in Seq(Block), Tree(t), NEW Q, NEW tip, Between(t, Q, tip)
  PROVE  SpineEnd(t, Root, {p \in DOMAIN t : LastOpen(t, p)}) = tip
<1> DEFINE pass == {p \in DOMAIN t : LastOpen(t, p)}
           spine == LastSpine(t, Root, pass)
<1>1. Path(t, Q, tip)
  BY DEF Between
<1>2. Q \subseteq DOMAIN t /\ Root \in Q /\ tip \in Q /\ Root \in DOMAIN t /\ None \notin DOMAIN t
  <2>1. DOMAIN t = 1..Len(t)
    OBVIOUS
  <2>2. QED
    BY <1>1, <2>1 DEF Path, None
<1>3. ~LastOpen(t, tip)
  BY TipHasNoOpen
<1>4. \A m \in Q : m # tip => LastOpen(t, m) /\ LastKid(t, m) \in Q
  BY <1>1, OpenOnPath DEF Path
<1>5. spine \subseteq Q
  <2>1. \A m \in Q \cap DOMAIN t \cap pass : LastKid(t, m) \in Q \cup {None}
    BY <1>3, <1>4
  <2> HIDE DEF pass
  <2>2. QED
    BY <1>2, <2>1, SpineStays
<1>6. Q \subseteq spine
  <2>1. ASSUME NEW m \in Q \ {Root} PROVE \E p \in Q \cap pass : p < m /\ LastKid(t, p) = m
    <3>1. /\ t[m].parent \in Q /\ t[m].parent < m /\ LastKid(t, t[m].parent) = m
          /\ t[m].open /\ m # None
      BY <1>1, <1>2 DEF Path
    <3>2. t[m].parent \in pass
      BY <1>2, <3>1 DEF LastOpen
    <3>3. QED
      BY <3>1, <3>2
  <2>2. Q \in SUBSET (DOMAIN t)
    BY <1>2
  <2> HIDE DEF pass
  <2>3. QED
    BY <1>2, <2>1, <2>2, SpineReaches
<1>7. spine = Q
  BY <1>5, <1>6
<1>8. LastKid(t, tip) \notin Q
  BY <1>1, <1>2, <1>3 DEF Path, LastOpen
<1>9. SpineEnd(t, Root, pass) = CHOOSE m \in spine : LastKid(t, m) \notin spine
  BY DEF SpineEnd
<1> HIDE DEF pass, spine
<1>10. \A m \in Q : LastKid(t, m) \notin Q <=> m = tip
  BY <1>4, <1>8
<1>11. (CHOOSE m \in Q : LastKid(t, m) \notin Q) = tip
  BY <1>2, <1>10
<1>12. QED
  BY <1>7, <1>9, <1>11 DEF pass

\* The block a closing fence finalizes first is open, and below c
LEMMA DeepestIsOpen ==
  ASSUME NEW t \in Seq(Block), Tree(t), NEW Q, NEW tip, Between(t, Q, tip),
         NEW c \in Q, LastOpen(t, c), t[c].kind # "List"
  PROVE  DeepestOpen(t, c) \in Q /\ c < DeepestOpen(t, c)
<1> DEFINE pass == {p \in DOMAIN t : LastOpen(t, p) /\ t[p].kind # "List"}
           spine == LastSpine(t, c, pass)
           S == {m \in Q : c <= m}
           k == LastKid(t, c)
<1>1. Path(t, Q, tip)
  BY DEF Between
<1>2. /\ Q \subseteq DOMAIN t /\ c \in DOMAIN t /\ None \notin DOMAIN t
      /\ DOMAIN t = 1..Len(t) /\ Len(t) \in Nat /\ Q \in SUBSET Nat
  <2>1. DOMAIN t = 1..Len(t) /\ Len(t) \in Nat
    OBVIOUS
  <2>2. QED
    BY <1>1, <2>1 DEF Path, None
<1>3. \A m \in Q : LastOpen(t, m) => LastKid(t, m) \in Q /\ m < LastKid(t, m)
  BY <1>1, TipHasNoOpen DEF Path
<1>4. k \in Q /\ c < k
  BY <1>3
<1>5. \A m \in S : m \in Q /\ c <= m /\ m \in Nat /\ c \in Nat
  BY <1>2
<1>6. spine \subseteq S
  <2>1. ASSUME NEW m \in S \cap DOMAIN t \cap pass PROVE LastKid(t, m) \in S \cup {None}
    <3>1. LastKid(t, m) \in Q /\ m < LastKid(t, m)
      BY <1>3
    <3>2. c <= LastKid(t, m)
      <4>1. LastKid(t, m) \in Nat /\ m \in Nat /\ c \in Nat /\ c <= m
        BY <1>2, <1>5, <3>1
      <4>2. QED
        BY <3>1, <4>1
    <3>3. QED
      BY <3>1, <3>2
  <2>2. c \in S
    BY <1>2
  <2> HIDE DEF pass, S
  <2>3. QED
    BY <1>2, <2>1, <2>2, SpineStays
<1>7. c \in spine /\ k \in spine
  <2>1. {c, k} \in SUBSET (DOMAIN t)
    BY <1>2, <1>4
  <2>2. c \in pass
    BY <1>2
  <2>3. \A m \in {c, k} \ {c} : \E p \in {c, k} \cap pass : p < m /\ LastKid(t, p) = m
    BY <1>4, <2>2
  <2> HIDE DEF pass, k
  <2>4. {c, k} \subseteq spine
    BY <1>2, <2>1, <2>3, SpineReaches
  <2>5. QED
    BY <2>4
<1>8. DeepestOpen(t, c) = CHOOSE m \in spine : LastKid(t, m) \notin spine
  BY DEF DeepestOpen, SpineEnd
<1> HIDE DEF pass, spine
<1>9. \E m \in spine : LastKid(t, m) \notin spine
  <2>1. spine \in SUBSET Nat /\ spine # {} /\ \A m \in spine : m \in Q /\ m <= Len(t)
    BY <1>2, <1>5, <1>6, <1>7
  <2>2. PICK m \in spine : \A x \in spine : x <= m
    BY <1>2, <2>1, LastExists
  <2>3. ASSUME LastKid(t, m) \in spine PROVE FALSE
    <3>1. LastKid(t, m) \in Q /\ LastKid(t, m) <= m /\ m \in Q
      BY <2>1, <2>2, <2>3
    <3>2. LastKid(t, m) \in DOMAIN t /\ t[LastKid(t, m)].open
      BY <1>1, <1>2, <3>1 DEF Path
    <3>3. LastOpen(t, m)
      BY <1>2, <3>2 DEF LastOpen
    <3>4. m < LastKid(t, m)
      BY <1>3, <3>1, <3>3
    <3>5. m \in Nat /\ LastKid(t, m) \in Nat
      BY <1>2, <3>1
    <3>6. QED
      BY <3>1, <3>4, <3>5
  <2>4. QED
    BY <2>3
<1> DEFINE d == DeepestOpen(t, c)
<1>10. d \in spine /\ LastKid(t, d) \notin spine
  BY <1>8, <1>9
<1> HIDE DEF d
<1>11. d # c
  BY <1>7, <1>10
<1>12. d \in S
  BY <1>6, <1>10
<1>13. d \in Q /\ c < d
  BY <1>5, <1>11, <1>12
<1>14. QED
  BY <1>13 DEF d

\* A block of the tree other than the root has a parent that can hold it
LEMMA TreeIsValid ==
  ASSUME NEW t \in Seq(Block), Tree(t), NEW n \in Below(t, Root) \ {Root}
  PROVE  CanContain(t[t[n].parent].kind, t[n].kind)
<1>1. n \in DOMAIN t /\ Root \in Above(t, n)
  BY DEF Below
<1>2. ASSUME t[n].parent = None PROVE FALSE
  <2>1. Above(t, n) \subseteq {n}
    <3>1. \A m \in {n} \cap DOMAIN t : t[m].parent \in {n} \cup {None}
      BY <1>2
    <3>2. QED
      BY <1>1, <3>1, AboveStays
  <2>2. QED
    BY <1>1, <2>1
<1>3. QED
  BY <1>1, <1>2 DEF Tree, ParentsHold

(***************************************************************************)
(* The line in hand                                                        *)
(***************************************************************************)
LEMMA LineIsSeq ==
  ASSUME NEW r \in Seq(Word)
  PROVE  /\ Indent(r) \in Nat
         /\ Token(r) \in Word
         /\ After(r) \in Seq(Word)
         /\ \A k \in Nat : Drop(r, k) \in Seq(Word)
<1> DEFINE I == {i \in 1..Len(r) : r[i] # "in"}
           k == IF I # {} THEN Min(I) ELSE 0
<1>1. Len(r) \in Nat /\ I \in SUBSET (1..Len(r))
  OBVIOUS
<1>2. k \in 0..Len(r)
  BY <1>1, FirstPlace
<1>3. Indent(r) = IF k = 0 THEN Len(r) ELSE k - 1
  BY DEF Indent, SelectInSeq
<1> HIDE DEF k
<1>4. Indent(r) \in 0..Len(r)
  BY <1>1, <1>2, <1>3
<1>5. Indent(r) \in Nat
  BY <1>1, <1>4
<1>6. \A n \in Nat : Drop(r, n) \in Seq(Word)
  BY DropIsSeq
<1>7. After(r) \in Seq(Word)
  BY <1>5, <1>6 DEF After
<1>8. Token(r) \in Word
  <2>1. CASE Indent(r) = Len(r)
    <3>1. Token(r) = "blank"
      BY <2>1 DEF Token
    <3>2. "blank" \in Word
      BY DEF Word
    <3>3. QED
      BY <3>1, <3>2
  <2>2. CASE Indent(r) # Len(r)
    <3>1. Indent(r) + 1 \in 1..Len(r)
      BY <1>1, <1>4, <2>2
    <3>2. r[Indent(r) + 1] \in Word
      BY <3>1
    <3>3. QED
      BY <2>2, <3>2 DEF Token
  <2>3. QED
    BY <2>1, <2>2
<1>9. QED
  BY <1>5, <1>6, <1>7, <1>8

LEMMA IdleIsScan == Idle \in Scan
<1>1. <<>> \in Seq(Word) /\ <<>> \in Seq(Block)
  OBVIOUS
<1>2. QED
  BY <1>1 DEF Idle, Scan, Root

LEMMA EmptyIsBlank == Blank(<<>>)
<1>1. Indent(<<>>) = Len(<<>>)
  BY DEF Indent, SelectInSeq
<1>2. QED
  BY <1>1 DEF Blank, Token

LEMMA NewNodeIsBlock ==
  ASSUME NEW kind \in Kinds, NEW tag \in Word, NEW off \in Nat, NEW pad \in Nat, lineNo \in Nat
  PROVE  /\ NewNode(kind, tag, off, pad) \in Block
         /\ NewNode(kind, tag, off, pad).kind = kind
         /\ NewNode(kind, tag, off, pad).open = TRUE
         /\ NewNode(kind, tag, off, pad).kids = <<>>
         /\ NewNode(kind, tag, off, pad).parent = None
BY DEF NewNode, Block, Content, None

\* A block without children, as NewNode makes it
Fresh(b, kind) == b \in Block /\ b.kind = kind /\ b.open /\ b.kids = <<>>

LEMMA NewNodeIsFresh ==
  ASSUME NEW kind \in Kinds, NEW tag \in Word, NEW off \in Nat, NEW pad \in Nat, lineNo \in Nat
  PROVE  Fresh(NewNode(kind, tag, off, pad), kind)
BY DEF NewNode, Block, Content, None, Fresh

\* Past a quote's marker is a line
LEMMA PastQuoteIsLine ==
  ASSUME NEW r \in Seq(Word)
  PROVE  PastQuote(r) \in Seq(Word)
<1>1. After(r) \in Seq(Word)
  BY LineIsSeq
<1>2. <<">>>">> \in Seq(Word) /\ <<">", ">">> \in Seq(Word)
  <2>1. ">>>" \in Word /\ ">" \in Word
    BY DEF Word
  <2>2. QED
    BY <2>1
<1>3. <<">>>">> \o After(r) \in Seq(Word) /\ <<">", ">">> \o After(r) \in Seq(Word)
  BY <1>1, <1>2
<1>4. PastQuote(r) \in {<<">>>">> \o After(r), <<">", ">">> \o After(r), After(r)}
  BY DEF PastQuote
<1>5. QED
  BY <1>1, <1>3, <1>4

LEMMA ContinuedIsLine ==
  ASSUME NEW b \in Block, NEW r \in Seq(Word), NEW q \in Continued(b, r)
  PROVE  q \in Seq(Word)
<1>1. Indent(r) \in Nat /\ After(r) \in Seq(Word) /\ \A k \in Nat : Drop(r, k) \in Seq(Word)
  BY LineIsSeq
<1>2. b.off \in Nat /\ b.pad \in Nat /\ b.off + b.pad \in Nat
  BY DEF Block
<1>3. Drop(r, 2) \in Seq(Word) /\ Drop(r, b.off + b.pad) \in Seq(Word)
  BY <1>1, <1>2
<1>4. Drop(r, Least(b.off, Indent(r))) \in Seq(Word)
  BY <1>1, <1>2 DEF Least
<1>5. <<>> \in Seq(Word)
  OBVIOUS
<1>6. q \in {r, <<>>, PastQuote(r), Drop(r, 2), Drop(r, b.off + b.pad), Drop(r, Least(b.off, Indent(r)))}
  BY DEF Continued
<1>7. QED
  BY <1>3, <1>4, <1>5, <1>6, PastQuoteIsLine

(***************************************************************************)
(* The initial state, and what the invariant says of every state           *)
(***************************************************************************)
LEMMA InitInv == Init => Inv
<1> SUFFICES ASSUME Init PROVE Inv
  OBVIOUS
<1> DEFINE b == NewNode("Document", "", 0, 0)
<1>1. /\ b \in Block /\ b.kind = "Document" /\ b.open /\ b.kids = <<>> /\ b.parent = None
  <2>1. "Document" \in Kinds
    BY DEF Kinds
  <2>2. "" \in Word
    BY DEF Word
  <2>3. 0 \in Nat /\ lineNo \in Nat
    BY DEF Init
  <2>4. QED
    BY <2>1, <2>2, <2>3, NewNodeIsBlock
<1>2. nodes = <<b>>
  BY DEF Init
<1> HIDE DEF b
<1>3. nodes \in Seq(Block) /\ DOMAIN nodes = {1} /\ nodes[1] = b
  BY <1>1, <1>2
<1>4. Typed
  <2>1. refs \in 0..MaxLines /\ lineNo \in 0..MaxLines
    <3>1. refs = 0 /\ lineNo = 0
      BY DEF Init, None
    <3>2. QED
      BY <3>1, MaxLinesIsNat
  <2>2. scan = Idle /\ current = Root /\ scan.container = Root /\ scan.matched = Root
    BY DEF Init, Idle
  <2>3. ~panicked /\ panicked \in BOOLEAN
    BY DEF Init
  <2>4. {current, scan.container, scan.matched} \subseteq DOMAIN nodes
    BY <1>3, <2>2 DEF Root
  <2>5. QED
    BY <1>3, <2>1, <2>2, <2>3, <2>4, IdleIsScan DEF Typed
<1>5. Tree(nodes)
  <2>1. Rooted(nodes)
    BY <1>1, <1>3 DEF Rooted, Root
  <2>2. ParentsHold(nodes)
    BY <1>1, <1>3 DEF ParentsHold
  <2>3. KidsAgree(nodes)
    BY <1>1, <1>3 DEF KidsAgree, Distinct
  <2>4. QED
    BY <2>1, <2>2, <2>3 DEF Tree
<1>6. Between(nodes, {Root}, Root)
  <2>1. LastKid(nodes, Root) = None
    BY <1>1, <1>3 DEF LastKid, Root
  <2>2. Earlier(nodes, Root) = {}
    BY <1>1, <1>3 DEF Earlier, Root
  <2>3. Path(nodes, {Root}, Root)
    BY <1>1, <1>3 DEF Path, Root
  <2>4. QED
    BY <1>3, <2>1, <2>2, <2>3 DEF Between, Slack, Shut, LastOpen, Root
<1>7. PathOK
  BY <1>6 DEF PathOK, Init, Idle
<1>8. QED
  BY <1>4, <1>5, <1>7 DEF Inv

LEMMA InvIsWellFormed == Inv => WellFormed
<1> SUFFICES ASSUME Inv PROVE WellFormed
  OBVIOUS
<1>1. Typed /\ Tree(nodes) /\ PathOK
  BY DEF Inv
<1>2. nodes \in Seq(Block)
  BY <1>1 DEF Typed
<1>3. TypeOK
  <2>1. ASSUME NEW n \in Ids
        PROVE  /\ nodes[n].kind \in Kinds
               /\ nodes[n].parent \in Ids \cup {None}
               /\ Range(nodes[n].kids) \subseteq Ids
               /\ nodes[n].open \in BOOLEAN /\ nodes[n].blank \in BOOLEAN
    <3>1. nodes[n] \in Block
      BY <1>2 DEF Ids
    <3>2. nodes[n].parent \in Ids \cup {None}
      BY <1>1 DEF Ids, Tree, ParentsHold
    <3>3. Range(nodes[n].kids) \subseteq Ids
      BY <1>1 DEF Ids, Tree, KidsAgree, Range
    <3>4. QED
      BY <3>1, <3>2, <3>3 DEF Block
  <2>2. QED
    BY <1>1, <2>1 DEF TypeOK, Typed, Scan, Ids
<1>4. NoPanic
  BY <1>1 DEF NoPanic, Typed
<1>5. CurrentIsTip
  <2>1. ASSUME scan.pc = "line"
        PROVE  SpineEnd(nodes, Root, {p \in Ids : LastOpen(nodes, p)}) = current
    <3>1. PICK Q : Between(nodes, Q, current)
      BY <1>1, <2>1 DEF PathOK
    <3>2. QED
      BY <1>1, <1>2, <3>1, TipIsSpineEnd DEF Ids
  <2>2. QED
    BY <2>1 DEF CurrentIsTip
<1>6. ValidTree
  BY <1>1, <1>2, TreeIsValid DEF ValidTree, InTree
<1>7. QED
  BY <1>3, <1>4, <1>5, <1>6 DEF WellFormed

(***************************************************************************)
(* A line begins, and the open blocks it matches                           *)
(***************************************************************************)
\* What most steps leave alone
LEMMA TypedStep ==
  ASSUME Typed, nodes' \in Seq(Block), refs' \in 0..MaxLines, lineNo' \in 0..MaxLines,
         ~panicked', panicked' \in BOOLEAN,
         {current', scan'.container, scan'.matched} \subseteq DOMAIN nodes', scan' \in Scan
  PROVE  Typed'
BY DEF Typed

LEMMA LineKeeps ==
  ASSUME NEW line \in Lines
  PROVE  line \in Seq(Word)
<1>1. line \in Seq(STRING)
  BY LinesAreLines
<1>2. STRING \subseteq Word
  BY DEF Word
<1>3. QED
  BY <1>1, <1>2, SeqMonotonic

LEMMA StartLineKeeps ==
  ASSUME Inv, NEW line \in Lines, StartLine(line)
  PROVE  Inv'
<1>1. Typed /\ Tree(nodes) /\ PathOK
  BY DEF Inv
<1>2. PICK Q : Between(nodes, Q, current)
  BY <1>1 DEF PathOK, StartLine
<1>3. /\ scan' \in Scan /\ scan'.pc = "match"
      /\ scan'.container = Root /\ scan'.matched = Root
  <2>1. line \in Seq(Word)
    BY LineKeeps
  <2>2. QED
    BY <2>1, IdleIsScan DEF StartLine, Idle, Scan
<1>4. nodes' = nodes /\ refs' = refs /\ panicked' = panicked /\ current' = current
  BY DEF StartLine
<1>5. lineNo' \in 0..MaxLines
  BY <1>1, MaxLinesIsNat DEF StartLine, Typed
<1>6. Root \in Q
  BY <1>2 DEF Between, Path
<1>7. Root \in DOMAIN nodes
  BY <1>1 DEF Tree, Rooted
<1>8. Typed'
  BY <1>1, <1>3, <1>4, <1>5, <1>7, TypedStep DEF Typed
<1>9. Between(nodes', Q, current')
  BY <1>2, <1>4
<1>10. PathOK'
  BY <1>3, <1>6, <1>9 DEF PathOK
<1>11. QED
  BY <1>1, <1>4, <1>8, <1>10 DEF Inv

LEMMA EndOfInputKeeps ==
  ASSUME Inv, EndOfInput
  PROVE  Inv'
<1>1. Typed /\ Tree(nodes) /\ PathOK
  BY DEF Inv
<1>2. PICK Q : Between(nodes, Q, current)
  BY <1>1 DEF PathOK, EndOfInput
<1>3. scan' \in Scan /\ scan'.pc = "eof" /\ scan'.container = Root /\ scan'.matched = Root
  BY IdleIsScan DEF EndOfInput, Idle, Scan
<1>4. UNCHANGED <<nodes, refs, panicked, current, lineNo>>
  BY DEF EndOfInput
<1>5. Root \in DOMAIN nodes
  BY <1>1 DEF Tree, Rooted
<1>6. Typed'
  BY <1>1, <1>3, <1>4, <1>5, TypedStep DEF Typed
<1>7. Between(nodes', Q, current')
  BY <1>2, <1>4
<1>8. PathOK'
  BY <1>3, <1>7 DEF PathOK
<1>9. QED
  BY <1>1, <1>4, <1>6, <1>8 DEF Inv

LEMMA AllMatchedKeeps ==
  ASSUME Inv, AllMatched
  PROVE  Inv'
<1>1. Typed /\ Tree(nodes) /\ PathOK
  BY DEF Inv
<1>2. PICK Q : Between(nodes, Q, current) /\ scan.container \in Q
  BY <1>1 DEF PathOK, AllMatched
<1>3. nodes \in Seq(Block) /\ scan \in Scan
  BY <1>1 DEF Typed
<1>4. scan.container = current /\ Mid(nodes, Q, {}, current, scan.container, scan.container)
  BY <1>1, <1>2, <1>3, WholePath DEF AllMatched
<1>5. UNCHANGED <<nodes, refs, panicked, current, lineNo>>
  BY DEF AllMatched
<1>6. /\ scan' \in Scan /\ scan'.pc = "open" /\ scan'.container = scan.container
      /\ scan'.matched = scan.container
  BY <1>3 DEF AllMatched, Scan
<1>7. Typed'
  BY <1>1, <1>5, <1>6, TypedStep DEF Typed
<1>8. Mid(nodes', Q, {}, current', scan'.matched, scan'.container)
  BY <1>4, <1>5, <1>6
<1>9. OpenOK'
  BY <1>4, <1>5, <1>6 DEF OpenOK
<1>10. PathOK'
  BY <1>6, <1>8, <1>9 DEF PathOK
<1>11. QED
  BY <1>1, <1>5, <1>7, <1>10 DEF Inv

\* A paragraph stays unmatched only because the line is blank
LEMMA NotMatchedKeeps ==
  ASSUME Inv, NotMatched
  PROVE  Inv'
<1>1. Typed /\ Tree(nodes) /\ PathOK
  BY DEF Inv
<1>2. PICK Q : Between(nodes, Q, current) /\ scan.container \in Q
  BY <1>1 DEF PathOK, NotMatched
<1>3. nodes \in Seq(Block) /\ scan \in Scan
  BY <1>1 DEF Typed
<1> DEFINE c == scan.container
           P == {m \in Q : m <= c}
           U == {m \in Q : c < m}
<1>4. Mid(nodes, P, U, current, c, c)
  BY <1>1, <1>2, <1>3, SplitPath DEF NotMatched
<1>5. UNCHANGED <<nodes, refs, panicked, current, lineNo>>
  BY DEF NotMatched
<1>6. /\ scan' \in Scan /\ scan'.pc = "open" /\ scan'.container = c
      /\ scan'.matched = c /\ scan'.rest = scan.rest
  BY <1>3 DEF NotMatched, Scan
<1>7. Typed'
  BY <1>1, <1>5, <1>6, TypedStep DEF Typed
<1>8. Mid(nodes', P, U, current', scan'.matched, scan'.container)
  BY <1>4, <1>5, <1>6
<1>9. nodes[LastKid(nodes, c)].kind = "Paragraph" => Blank(scan.rest)
  <2>1. SUFFICES ASSUME nodes[Candidate].kind = "Paragraph", ~Blank(scan.rest) PROVE FALSE
    BY DEF Candidate
  <2>2. scan.rest \in Continued(nodes[Candidate], scan.rest)
    <3>1. ASSUME NEW b, b.kind = "Paragraph", NEW r, ~Blank(r) PROVE r \in Continued(b, r)
      BY <3>1 DEF Continued, Fenced
    <3>2. QED
      BY <2>1, <3>1
  <2>3. QED
    BY <2>2 DEF NotMatched
<1>10. OpenOK'
  <2>1. \/ LastKid(nodes', scan'.matched) = None
        \/ nodes'[LastKid(nodes', scan'.matched)].kind # "Paragraph"
        \/ Blank(scan'.rest)
    BY <1>5, <1>6, <1>9
  <2>2. QED
    BY <1>6, <2>1 DEF OpenOK, Blank
<1>11. PathOK'
  BY <1>6, <1>8, <1>10 DEF PathOK
<1>12. QED
  BY <1>1, <1>5, <1>7, <1>11 DEF Inv

\* A block had a part in the line
LEMMA TouchedKeeps ==
  ASSUME NEW t \in Seq(Block), NEW k \in DOMAIN t, NEW l \in Nat
  PROVE  [t EXCEPT ![k].last = l] \in Seq(Block) /\ SameShape(t, [t EXCEPT ![k].last = l])
<1> DEFINE b == [t[k] EXCEPT !.last = l]
<1>1. t[k] \in Block
  OBVIOUS
<1>2. b \in Block /\ b.kind = t[k].kind /\ b.parent = t[k].parent /\ b.kids = t[k].kids /\ b.open = t[k].open
  BY <1>1 DEF Block
<1>3. [t EXCEPT ![k].last = l] = [t EXCEPT ![k] = b]
  OBVIOUS
<1> HIDE DEF b
<1>4. QED
  BY <1>2, <1>3, EditBlock DEF SameShape

LEMMA MatchBlockKeeps ==
  ASSUME Inv, MatchBlock
  PROVE  Inv'
<1>1. Typed /\ Tree(nodes) /\ PathOK
  BY DEF Inv
<1>2. PICK Q : Between(nodes, Q, current) /\ scan.container \in Q
  BY <1>1 DEF PathOK, MatchBlock
<1>3. nodes \in Seq(Block) /\ scan \in Scan /\ lineNo \in Nat
  BY <1>1, MaxLinesIsNat DEF Typed
<1> DEFINE c == scan.container
           k == Candidate
<1>4. Path(nodes, Q, current) /\ Q \subseteq DOMAIN nodes
  BY <1>2 DEF Between, Path
<1>5. c # current
  BY <1>1, <1>2, <1>3, TipHasNoOpen DEF MatchBlock
<1>6. k \in Q
  BY <1>2, <1>4, <1>5 DEF Path, Candidate
<1>7. k \in DOMAIN nodes /\ nodes[k] \in Block
  BY <1>3, <1>4, <1>6
<1>8. PICK q \in Continued(nodes[k], scan.rest) : scan' = [scan EXCEPT !.container = k, !.rest = q]
  BY DEF MatchBlock
<1>9. q \in Seq(Word)
  BY <1>3, <1>7, <1>8, ContinuedIsLine DEF Scan
<1>10. /\ scan' \in Scan /\ scan'.pc = "match" /\ scan'.container = k
       /\ scan'.matched = scan.matched
  <2>1. k \in Nat
    BY <1>3, <1>7
  <2>2. QED
    BY <1>3, <1>8, <1>9, <2>1 DEF MatchBlock, Scan
<1>11. nodes' \in Seq(Block) /\ SameShape(nodes, nodes')
  <2>1. CASE nodes' = nodes
    BY <1>3, <2>1 DEF SameShape
  <2>2. CASE nodes' = [nodes EXCEPT ![k].last = lineNo]
    BY <1>3, <1>7, <2>2, TouchedKeeps
  <2>3. QED
    BY <2>1, <2>2 DEF MatchBlock
<1>12. UNCHANGED <<refs, panicked, current, lineNo>>
  BY DEF MatchBlock
<1>13. DOMAIN nodes' = DOMAIN nodes
  BY <1>11 DEF SameShape
<1>14. Typed'
  BY <1>1, <1>7, <1>10, <1>11, <1>12, <1>13, TypedStep DEF Typed
<1>15. Tree(nodes')
  BY <1>1, <1>3, <1>11, SameShapeIsTree
<1>16. Between(nodes', Q, current')
  BY <1>1, <1>2, <1>3, <1>11, <1>12, SameShapeKeeps
<1>17. PathOK'
  BY <1>6, <1>10, <1>16 DEF PathOK
<1>18. QED
  BY <1>14, <1>15, <1>17 DEF Inv

LEMMA CloseFenceKeeps ==
  ASSUME Inv, CloseFence
  PROVE  Inv'
<1>1. Typed /\ Tree(nodes) /\ PathOK
  BY DEF Inv
<1>2. PICK Q : Between(nodes, Q, current) /\ scan.container \in Q
  BY <1>1 DEF PathOK, CloseFence
<1>3. nodes \in Seq(Block) /\ scan \in Scan /\ lineNo \in Nat
  BY <1>1, MaxLinesIsNat DEF Typed
<1> DEFINE c0 == scan.container
           c == Candidate
           P == {m \in Q : m <= c}
           p == nodes[c].parent
           t == [nodes EXCEPT ![c].last = lineNo]
           d == [Doc EXCEPT !.nodes[c].last = lineNo]
           deep == nodes[c].kind # "CodeBlock" /\ LastOpen(nodes, c)
           inner == IF deep THEN Finalized(d, DeepestOpen(nodes, c)) ELSE d
<1>4. Path(nodes, Q, current) /\ Q \subseteq DOMAIN nodes
  BY <1>2 DEF Between, Path
<1>5. c0 # current
  BY <1>1, <1>2, <1>3, TipHasNoOpen DEF CloseFence
<1>6. c \in Q /\ c0 < c
  BY <1>2, <1>4, <1>5 DEF Path, Candidate
<1>7. c \in DOMAIN nodes /\ c # Root
  BY <1>2, <1>3, <1>4, <1>6, TipIsLast
<1>8. nodes[c].kind # "List"
  <2>1. ClosesFence(nodes[c], scan.rest)
    BY DEF CloseFence
  <2>2. QED
    BY <2>1 DEF ClosesFence, FencesOf
<1>9. d.nodes = t /\ d.refs = refs /\ d.panicked = panicked
  BY DEF Doc
<1>10. t \in Seq(Block) /\ SameShape(nodes, t)
  BY <1>3, <1>7, TouchedKeeps
<1>11. DocBecomes(Finalized(inner, c)) /\ current' = p /\ scan' = Idle /\ lineNo' = lineNo
  BY DEF CloseFence
<1> HIDE DEF c, d, t
<1>12. Tree(t) /\ DOMAIN t = DOMAIN nodes /\ Between(t, Q, current) /\ t[c].parent = p
  BY <1>1, <1>2, <1>3, <1>7, <1>10, SameShapeIsTree, SameShapeKeeps DEF SameShape
<1>13. Path(t, Q, current) /\ Shut(t, {})
  BY <1>12 DEF Between
<1>14. Path(t, P, c)
  BY <1>6, <1>10, <1>13, CutPath
<1>15. /\ inner.nodes \in Seq(Block) /\ Tree(inner.nodes) /\ c \in DOMAIN inner.nodes
       /\ inner.refs \in 0..MaxLines /\ ~inner.panicked /\ inner.panicked \in BOOLEAN
       /\ inner.nodes[c].parent = p
       /\ Path(inner.nodes, P, c) /\ Shut(inner.nodes, {})
  <2>1. CASE deep
    <3> DEFINE D == DeepestOpen(nodes, c)
    <3>1. D \in Q /\ c < D
      BY <1>1, <1>2, <1>3, <1>6, <1>8, <2>1, DeepestIsOpen
    <3>2. D \in DOMAIN t /\ t[D].open
      BY <1>13, <3>1 DEF Path
    <3>3. D \notin P
      BY <1>3, <1>4, <1>6, <3>1
    <3> HIDE DEF D
    <3>4. d.nodes \in Seq(Block) /\ Tree(d.nodes) /\ d.refs \in 0..MaxLines /\ D \in DOMAIN d.nodes
      BY <1>1, <1>9, <1>10, <1>12, <3>2 DEF Typed
    <3>5. /\ Finalized(d, D).nodes \in Seq(Block) /\ Tree(Finalized(d, D).nodes)
          /\ Pruned(t, Finalized(d, D).nodes, D)
          /\ Finalized(d, D).refs \in 0..MaxLines
          /\ Finalized(d, D).panicked = (d.panicked \/ ~d.nodes[D].open)
      BY <1>9, <3>4, FinalizedCloses
    <3>6. ~Finalized(d, D).panicked /\ Finalized(d, D).panicked \in BOOLEAN
      BY <1>1, <1>9, <3>2, <3>5 DEF Typed
    <3>7. Path(Finalized(d, D).nodes, P, c)
      BY <1>10, <1>14, <3>3, <3>5, PrunedPath
    <3>8. Shut(Finalized(d, D).nodes, {} \ {D})
      BY <1>10, <1>12, <1>13, <3>5, PrunedShut
    <3>9. {} \ {D} = {}
      OBVIOUS
    <3>10. c \in DOMAIN Finalized(d, D).nodes /\ Finalized(d, D).nodes[c].parent = p
      BY <1>3, <1>4, <1>6, <1>7, <1>12, <3>1, <3>5 DEF Pruned
    <3>11. inner = Finalized(d, D)
      BY <2>1 DEF D
    <3>12. QED
      BY <3>5, <3>6, <3>7, <3>8, <3>9, <3>10, <3>11
  <2>2. CASE ~deep
    <3>1. inner = d
      BY <2>2
    <3>2. QED
      BY <1>1, <1>7, <1>9, <1>10, <1>12, <1>13, <1>14, <3>1 DEF Typed
  <2>3. QED
    BY <2>1, <2>2
<1> HIDE DEF inner
<1>16. /\ Finalized(inner, c).nodes \in Seq(Block) /\ Tree(Finalized(inner, c).nodes)
       /\ Pruned(inner.nodes, Finalized(inner, c).nodes, c)
       /\ Finalized(inner, c).refs \in 0..MaxLines
       /\ Finalized(inner, c).panicked = (inner.panicked \/ ~inner.nodes[c].open)
  BY <1>15, FinalizedCloses
<1>17. inner.nodes[c].open
  BY <1>15 DEF Path
<1>18. p \in P /\ Between(nodes', {m \in P : m <= p}, p)
  BY <1>7, <1>11, <1>15, <1>16, CloseTip DEF DocBecomes
<1>19. p \in DOMAIN nodes' /\ Root \in DOMAIN nodes' /\ Tree(nodes')
  BY <1>11, <1>16, <1>18 DEF DocBecomes, Between, Path
<1>20. Typed'
  <2>1. nodes' \in Seq(Block) /\ refs' \in 0..MaxLines /\ ~panicked' /\ panicked' \in BOOLEAN
    BY <1>11, <1>15, <1>16, <1>17 DEF DocBecomes
  <2>2. scan' \in Scan /\ {current', scan'.container, scan'.matched} \subseteq DOMAIN nodes'
    BY <1>11, <1>19, IdleIsScan DEF Idle
  <2>3. QED
    BY <1>1, <1>11, <2>1, <2>2, TypedStep DEF Typed
<1>21. PathOK'
  BY <1>11, <1>18 DEF PathOK, Idle
<1>22. QED
  BY <1>19, <1>20, <1>21 DEF Inv

(***************************************************************************)
(* A handler opens blocks                                                  *)
(***************************************************************************)
\* What a handler gives add_child
Given(blocks, r) ==
  /\ blocks \in Seq(Block)
  /\ \A i \in DOMAIN blocks : blocks[i].open /\ blocks[i].kids = <<>>
  /\ \/ /\ Len(blocks) = 1
        /\ blocks[1].kind \in General \cup Leaves \cup {"HtmlBlock", "ThematicBreak"}
        /\ blocks[1].kind # "Paragraph"
        /\ blocks[1].kind = "Item" => ContainerKind = "List"
        /\ blocks[1].kind = "ThematicBreak" => Blank(r)
     \/ Len(blocks) = 2 /\ blocks[1].kind = "List" /\ blocks[2].kind = "Item"

LEMMA OpenKeeps ==
  ASSUME Inv, Opening, ~Blank(scan.rest), NEW blocks, NEW r \in Seq(Word), Given(blocks, r),
         Open(blocks, r)
  PROVE  Inv'
<1>1. Typed /\ Tree(nodes) /\ PathOK /\ scan.pc = "open"
  BY DEF Inv, Opening
<1>2. PICK Q, U : Mid(nodes, Q, U, current, scan.matched, scan.container)
  BY <1>1 DEF PathOK
<1>3. OpenOK /\ scan \in Scan
  BY <1>1 DEF PathOK, Typed
<1>4. UNCHANGED <<nodes, refs, panicked, current, lineNo>>
  BY DEF Open
<1>5. /\ scan' \in Scan /\ scan'.pc = "add" /\ scan'.container = scan.container
      /\ scan'.matched = scan.matched /\ scan'.new = blocks /\ scan'.rest = r
  BY <1>3 DEF Open, Scan, Given
<1>6. Typed'
  BY <1>1, <1>4, <1>5, TypedStep DEF Typed
<1>7. ContainerKind' = ContainerKind
  BY <1>4, <1>5 DEF ContainerKind
<1>8. NewOK'
  BY <1>5, <1>7 DEF Given, NewOK, Blank
<1>9. ASSUME current # scan.matched, scan.matched < scan.container
      PROVE  CanContain(ContainerKind, blocks[1].kind)
  <2>1. scan.container # scan.matched
    BY <1>3, <1>9 DEF Scan
  <2>2. ContainerKind \in General
    BY <1>3, <1>9, <2>1 DEF OpenOK, Opening, ContainerKind
  <2>3. blocks[1].kind # "Item"
    BY <2>2 DEF Given, General, Fenced
  <2>4. QED
    BY <2>2, <2>3, WhatHoldsWhat
<1>10. AddOK'
  BY <1>4, <1>5, <1>7, <1>8, <1>9 DEF AddOK
<1>11. Mid(nodes', Q, U, current', scan'.matched, scan'.container)
  BY <1>2, <1>4, <1>5
<1>12. PathOK'
  BY <1>5, <1>10, <1>11 DEF PathOK
<1>13. QED
  BY <1>1, <1>4, <1>6, <1>12 DEF Inv

\* The kinds of the blocks a handler opens alone
Opened == (General \ {"Item"}) \cup (Leaves \ {"Paragraph"}) \cup {"HtmlBlock", "ThematicBreak"}

LEMMA OpenOneKeeps ==
  ASSUME Inv, Opening, ~Blank(scan.rest), NEW tag \in Word, NEW off \in Nat, NEW pad \in Nat,
         NEW kind \in Opened,
         NEW r \in Seq(Word), kind = "ThematicBreak" => Blank(r),
         Open(<<NewNode(kind, tag, off, pad)>>, r)
  PROVE  Inv'
<1> DEFINE b == NewNode(kind, tag, off, pad)
<1>1. kind \in Kinds
  BY DEF Opened, General, Kinds, Fenced, Leaves
<1>2. lineNo \in Nat
  BY MaxLinesIsNat DEF Inv, Typed
<1>3. b \in Block /\ b.kind = kind /\ b.open /\ b.kids = <<>>
  BY <1>1, <1>2 DEF NewNode, Block, Content, None
<1>4. Open(<<b>>, r)
  OBVIOUS
<1> HIDE DEF b
<1>5. Given(<<b>>, r)
  <2>1. <<b>> \in Seq(Block) /\ Len(<<b>>) = 1 /\ DOMAIN <<b>> = {1} /\ <<b>>[1] = b
    BY <1>3
  <2>2. b.kind # "Paragraph" /\ b.kind # "Item"
    BY <1>3 DEF Opened, General, Leaves, Fenced
  <2>3. QED
    BY <1>3, <2>1, <2>2 DEF Given, Opened
<1>6. QED
  BY <1>4, <1>5, OpenKeeps

LEMMA Tags ==
  /\ "" \in Word /\ "fenced" \in Word /\ "indented" \in Word /\ "comment" \in Word /\ "tag" \in Word
  /\ 0 \in Nat /\ <<>> \in Seq(Word)
<1>1. "" \in Word /\ "fenced" \in Word /\ "indented" \in Word /\ "comment" \in Word /\ "tag" \in Word
  BY DEF Word
<1>2. 0 \in Nat /\ <<>> \in Seq(Word)
  OBVIOUS
<1>3. QED
  BY <1>1, <1>2, Zenon

LEMMA OpenedKinds ==
  /\ "BlockQuote" \in Opened /\ "Footnote" \in Opened /\ "Heading" \in Opened
  /\ "CodeBlock" \in Opened /\ "Comment" \in Opened /\ "HtmlBlock" \in Opened
  /\ "ThematicBreak" \in Opened /\ "Multiline" \in Opened /\ "Directive" \in Opened
  /\ "Spoiler" \in Opened
BY DEF Opened, General, Leaves, Fenced

LEMMA RestIsLine ==
  ASSUME Inv
  PROVE  scan.rest \in Seq(Word)
BY DEF Inv, Typed, Scan

LEMMA OpenFenceKeeps == ASSUME Inv, OpenFence PROVE Inv'
<1> DEFINE k == FenceOf[Token(scan.rest)]
           tag == IF k = "CodeBlock" THEN "fenced" ELSE ""
           size == FenceLength(Token(scan.rest))
<1>1. Opening /\ Open(<<NewNode(k, tag, Indent(scan.rest), size)>>, <<>>) /\ OpensFence(scan.rest)
  BY DEF OpenFence
<1>2. Token(scan.rest) \in {":::", "::::", ":::s", ">>>", ">>>>", "~~~", "~~~~"}
  BY <1>1 DEF OpensFence, FenceOf
<1>3. k \in {"Directive", "Spoiler", "Multiline", "CodeBlock"}
  BY <1>2 DEF FenceOf
<1>4. ~Blank(scan.rest)
  BY <1>2 DEF Blank
<1>5. tag \in Word /\ Indent(scan.rest) \in Nat /\ <<>> \in Seq(Word) /\ size \in Nat
  BY RestIsLine, LineIsSeq, Tags DEF FenceLength
<1> HIDE DEF k, tag, size
<1>6. k \in Opened /\ k # "ThematicBreak"
  BY <1>3, OpenedKinds
<1>7. QED
  BY <1>1, <1>4, <1>5, <1>6, OpenOneKeeps

LEMMA OpenBlockQuoteKeeps == ASSUME Inv, OpenBlockQuote PROVE Inv'
<1>1. Opening /\ Open(<<NewNode("BlockQuote", "", 0, 0)>>, PastQuote(scan.rest)) /\ ~Blank(scan.rest)
  BY DEF OpenBlockQuote, AtQuote, AtMarker, Blank
<1>2. "" \in Word /\ PastQuote(scan.rest) \in Seq(Word) /\ 0 \in Nat /\ "BlockQuote" \in Opened
  BY RestIsLine, PastQuoteIsLine, Tags, OpenedKinds
<1>3. QED
  BY <1>1, <1>2, OpenOneKeeps

LEMMA OpenHeadingKeeps == ASSUME Inv, OpenHeading PROVE Inv'
<1>1. Opening /\ Open(<<NewNode("Heading", "", 0, 0)>>, After(scan.rest)) /\ ~Blank(scan.rest)
  BY DEF OpenHeading, AtMarker, Blank
<1>2. "" \in Word /\ After(scan.rest) \in Seq(Word) /\ 0 \in Nat /\ "Heading" \in Opened
  BY RestIsLine, LineIsSeq, Tags, OpenedKinds
<1>3. QED
  BY <1>1, <1>2, OpenOneKeeps

LEMMA OpenCommentKeeps == ASSUME Inv, OpenComment PROVE Inv'
<1>1. Opening /\ Open(<<NewNode("Comment", "", 0, 0)>>, After(scan.rest)) /\ ~Blank(scan.rest)
  BY DEF OpenComment, AtMarker, Blank
<1>2. "" \in Word /\ After(scan.rest) \in Seq(Word) /\ 0 \in Nat /\ "Comment" \in Opened
  BY RestIsLine, LineIsSeq, Tags, OpenedKinds
<1>3. QED
  BY <1>1, <1>2, OpenOneKeeps

LEMMA OpenHtmlBlockKeeps == ASSUME Inv, OpenHtmlBlock PROVE Inv'
<1> DEFINE tag == IF Token(scan.rest) = "<!" THEN "comment" ELSE "tag"
<1>1. Opening /\ Open(<<NewNode("HtmlBlock", tag, 0, 0)>>, scan.rest) /\ ~Blank(scan.rest)
  BY DEF OpenHtmlBlock, AtMarker, Blank
<1>2. tag \in Word /\ scan.rest \in Seq(Word) /\ 0 \in Nat /\ "HtmlBlock" \in Opened
  BY RestIsLine, Tags, OpenedKinds
<1> HIDE DEF tag
<1>3. QED
  BY <1>1, <1>2, OpenOneKeeps

LEMMA OpenThematicBreakKeeps == ASSUME Inv, OpenThematicBreak PROVE Inv'
<1>1. Opening /\ Open(<<NewNode("ThematicBreak", "", 0, 0)>>, <<>>) /\ ~Blank(scan.rest)
  BY DEF OpenThematicBreak, OpensThematicBreak, AloneOnLine, AtMarker, Blank
<1>2. "" \in Word /\ <<>> \in Seq(Word) /\ 0 \in Nat /\ "ThematicBreak" \in Opened
  BY Tags, OpenedKinds
<1>3. QED
  BY <1>1, <1>2, EmptyIsBlank, OpenOneKeeps

LEMMA OpenFootnoteKeeps == ASSUME Inv, OpenFootnote PROVE Inv'
<1>1. Opening /\ Open(<<NewNode("Footnote", "", 0, 0)>>, After(scan.rest)) /\ ~Blank(scan.rest)
  BY DEF OpenFootnote, AtMarker, Blank
<1>2. "" \in Word /\ After(scan.rest) \in Seq(Word) /\ 0 \in Nat /\ "Footnote" \in Opened
  BY RestIsLine, LineIsSeq, Tags, OpenedKinds
<1>3. QED
  BY <1>1, <1>2, OpenOneKeeps

LEMMA OpenIndentedCodeKeeps == ASSUME Inv, OpenIndentedCode PROVE Inv'
<1>1. Opening /\ Open(<<NewNode("CodeBlock", "indented", 0, 0)>>, Drop(scan.rest, 2)) /\ ~Blank(scan.rest)
  BY DEF OpenIndentedCode, OpensCode
<1>2. /\ "indented" \in Word /\ Drop(scan.rest, 2) \in Seq(Word) /\ 0 \in Nat
      /\ "CodeBlock" \in Opened
  BY RestIsLine, LineIsSeq, Tags, OpenedKinds
<1>3. QED
  BY <1>1, <1>2, OpenOneKeeps

LEMMA OpenItemKeeps == ASSUME Inv, OpenItem PROVE Inv'
<1> DEFINE marker == Token(scan.rest)
           text == After(scan.rest)
           gap == IF Indent(text) = 1 /\ ~Blank(text) THEN 1 ELSE 0
           off == Indent(scan.rest)
           item == NewNode("Item", marker, off, 1 + gap)
           list == NewNode("List", marker, 0, 0)
           matches == ContainerKind = "List" /\ nodes[scan.container].tag = marker
           r == Drop(text, gap)
<1>1. Opening /\ Open(IF matches THEN <<item>> ELSE <<list, item>>, r) /\ OpensItem(scan.rest)
  BY DEF OpenItem
<1>2. ~Blank(scan.rest)
  BY <1>1 DEF OpensItem, Blank
<1>3. marker \in Word /\ text \in Seq(Word) /\ off \in Nat
  BY RestIsLine, LineIsSeq
<1>4. gap \in Nat /\ 1 + gap \in Nat
  OBVIOUS
<1>5. r \in Seq(Word)
  BY <1>3, <1>4, LineIsSeq
<1>6. lineNo \in Nat
  BY MaxLinesIsNat DEF Inv, Typed
<1> HIDE DEF marker, text, gap, off, r
<1>7. "Item" \in Kinds /\ "List" \in Kinds
  BY DEF Kinds
<1>8. /\ item \in Block /\ item.kind = "Item" /\ item.open /\ item.kids = <<>>
      /\ list \in Block /\ list.kind = "List" /\ list.open /\ list.kids = <<>>
  BY <1>3, <1>4, <1>6, <1>7 DEF NewNode, Block, Content, None
<1> HIDE DEF item, list
<1>9. CASE matches
  <2>1. <<item>> \in Seq(Block) /\ Len(<<item>>) = 1 /\ DOMAIN <<item>> = {1} /\ <<item>>[1] = item
    BY <1>8
  <2>2. "Item" \in General
    BY DEF General
  <2>3. Given(<<item>>, r)
    BY <1>8, <1>9, <2>1, <2>2 DEF Given
  <2>4. QED
    BY <1>1, <1>2, <1>5, <1>9, <2>3, OpenKeeps
<1>10. CASE ~matches
  <2> DEFINE s == <<list, item>>
  <2>1. s \in Seq(Block) /\ Len(s) = 2 /\ DOMAIN s = {1, 2} /\ s[1] = list /\ s[2] = item
    BY <1>8
  <2>2. Open(s, r)
    BY <1>1, <1>10
  <2> HIDE DEF s
  <2>3. Given(s, r)
    BY <1>8, <2>1 DEF Given
  <2>4. QED
    BY <1>1, <1>2, <1>5, <2>2, <2>3, OpenKeeps
<1>11. QED
  BY <1>9, <1>10

LEMMA NothingOpensKeeps == ASSUME Inv, NothingOpens PROVE Inv'
<1>1. Typed /\ Tree(nodes) /\ PathOK
  BY DEF Inv
<1>2. PICK Q, U : Mid(nodes, Q, U, current, scan.matched, scan.container)
  BY <1>1 DEF PathOK, NothingOpens
<1>3. UNCHANGED <<nodes, refs, panicked, current, lineNo>>
  BY DEF NothingOpens
<1>4. /\ scan' \in Scan /\ scan'.pc = "text" /\ scan'.container = scan.container
      /\ scan'.matched = scan.matched
  BY <1>1 DEF NothingOpens, Typed, Scan
<1>5. Typed'
  BY <1>1, <1>3, <1>4, TypedStep DEF Typed
<1>6. Mid(nodes', Q, U, current', scan'.matched, scan'.container)
  BY <1>2, <1>3, <1>4
<1>7. PathOK'
  BY <1>4, <1>6 DEF PathOK
<1>8. QED
  BY <1>1, <1>3, <1>5, <1>7 DEF Inv

\* The paragraph becomes a heading where it is
LEMMA SetextHeadingKeeps == ASSUME Inv, SetextHeading PROVE Inv'
<1> DEFINE c == scan.container
           b == nodes[c]
           rest == Drop(b.lines, Definitions(b.lines))
           h == [b EXCEPT !.lines = rest, !.kind = IF rest = <<>> THEN @ ELSE "Heading", !.tag = "setext"]
<1>1. Typed /\ Tree(nodes) /\ PathOK
  BY DEF Inv
<1>2. PICK Q, U : Mid(nodes, Q, U, current, scan.matched, c)
  BY <1>1 DEF PathOK, SetextHeading, Opening
<1>3. nodes \in Seq(Block) /\ scan \in Scan /\ c \in DOMAIN nodes /\ scan.matched \in DOMAIN nodes
  BY <1>1 DEF Typed
<1>4. b \in Block /\ b.lines \in Content
  <2>1. b \in Block
    BY <1>3
  <2>2. QED
    BY <2>1 DEF Block
<1>5. b.kind = "Paragraph"
  BY DEF SetextHeading, OpensSetext, ContainerKind
<1>6. nodes' = [nodes EXCEPT ![c] = h]
  BY DEF SetextHeading
<1>7. rest \in Content
  BY <1>4, DefinitionsBegin
<1>8. /\ refs' = Resolved(refs, b.lines) /\ UNCHANGED <<panicked, current, lineNo>>
      /\ scan' = [scan EXCEPT !.pc = "text", !.rest = IF rest = <<>> THEN @ ELSE <<>>]
  BY DEF SetextHeading
<1> HIDE DEF rest
<1>9. h \in Block /\ h.parent = b.parent /\ h.kids = b.kids /\ h.open = b.open /\ h.kind \in {b.kind, "Heading"}
  <2>1. "setext" \in Word /\ "Heading" \in Kinds
    BY DEF Word, Kinds, Leaves
  <2>2. QED
    BY <1>4, <1>7, <2>1 DEF Block
<1>10. b.parent < c
  <2>1. Path(nodes, Q, c)
    BY <1>2 DEF Mid
  <2>2. c # Root
    BY <1>1, <1>5 DEF Tree, Rooted
  <2>3. QED
    BY <2>1, <2>2 DEF Path
<1> HIDE DEF h
<1>11. nodes' \in Seq(Block) /\ SameShape(nodes, nodes')
  <2>1. /\ nodes' \in Seq(Block) /\ DOMAIN nodes' = DOMAIN nodes
        /\ \A m \in DOMAIN nodes : nodes'[m] = IF m = c THEN h ELSE nodes[m]
    BY <1>3, <1>6, <1>9, EditBlock
  <2>2. QED
    BY <1>5, <1>9, <1>10, <2>1 DEF SameShape
<1>12. refs' \in 0..MaxLines
  BY <1>1, <1>4, <1>8, ResolvedIsLine DEF Typed
<1>13. scan' \in Scan /\ scan'.pc = "text" /\ scan'.container = c /\ scan'.matched = scan.matched
  <2>1. PICK r \in Seq(Word) : scan' = [scan EXCEPT !.pc = "text", !.rest = r]
    BY <1>8, RestIsLine, Tags
  <2>2. QED
    BY <1>3, <2>1 DEF Scan
<1>14. Typed'
  BY <1>1, <1>8, <1>11, <1>12, <1>13, TypedStep DEF Typed, SameShape
<1>15. Tree(nodes')
  BY <1>1, <1>3, <1>11, SameShapeIsTree
<1>16. Mid(nodes', Q, U, current', scan'.matched, scan'.container)
  BY <1>1, <1>2, <1>3, <1>8, <1>11, <1>13, SameShapeKeeps
<1>17. PathOK'
  BY <1>13, <1>16 DEF PathOK
<1>18. QED
  BY <1>14, <1>15, <1>17 DEF Inv

(***************************************************************************)
(* add_text_to_container                                                   *)
(***************************************************************************)
LEMMA MarkedKeeps ==
  ASSUME NEW t \in Seq(Block), NEW c, NEW blank
  PROVE  MarkedBlank(t, c, blank) \in Seq(Block) /\ SameShape(t, MarkedBlank(t, c, blank))
<1> DEFINE comment == t[c].kind = "Comment" /\ t[c].start # lineNo /\ (blank \/ t[c].blank)
           v == [m \in DOMAIN t |-> IF m = c THEN comment \/ (blank /\ KeepsBlank(t[c]))
                                    ELSE IF m \in Above(t, c) THEN FALSE
                                    ELSE t[m].blank \/ (blank /\ m = LastKid(t, c))]
           u == [m \in DOMAIN t |-> [t[m] EXCEPT !.blank = v[m]]]
<1>1. MarkedBlank(t, c, blank) = u
  BY DEF MarkedBlank
<1>2. \A m \in DOMAIN t : v[m] \in BOOLEAN
  OBVIOUS
<1> HIDE DEF v
<1>3. \A m \in DOMAIN t : /\ u[m] \in Block /\ u[m].kind = t[m].kind /\ u[m].parent = t[m].parent
                          /\ u[m].kids = t[m].kids /\ u[m].open = t[m].open
  <2>1. \A m \in DOMAIN t : t[m] \in Block
    OBVIOUS
  <2>2. QED
    BY <1>2, <2>1 DEF Block
<1>4. DOMAIN u = DOMAIN t /\ u = [m \in DOMAIN t |-> u[m]]
  OBVIOUS
<1> HIDE DEF u
<1>5. u \in Seq(Block)
  <2>1. DOMAIN t = 1..Len(t) /\ Len(t) \in Nat
    OBVIOUS
  <2>2. u \in [DOMAIN t -> Block]
    BY <1>3, <1>4
  <2>3. QED
    BY <2>1, <2>2, SeqDef
<1>6. QED
  BY <1>1, <1>3, <1>4, <1>5 DEF SameShape

LEMMA MarkBlanksKeeps == ASSUME Inv, MarkBlanks PROVE Inv'
<1> DEFINE c == scan.container
<1>1. Typed /\ Tree(nodes) /\ PathOK
  BY DEF Inv
<1>2. PICK Q, U : Mid(nodes, Q, U, current, scan.matched, c)
  BY <1>1 DEF PathOK, MarkBlanks
<1>3. nodes \in Seq(Block) /\ scan \in Scan /\ {current, c, scan.matched} \subseteq DOMAIN nodes
  BY <1>1 DEF Typed
<1>4. nodes' \in Seq(Block) /\ SameShape(nodes, nodes')
  BY <1>3, MarkedKeeps DEF MarkBlanks
<1>5. UNCHANGED <<refs, panicked, current, lineNo>>
  BY DEF MarkBlanks
<1>6. /\ scan' \in Scan /\ scan'.matched = scan.matched
      /\ IsLazy => scan'.pc = "store" /\ scan'.container = current
      /\ ~IsLazy => scan'.pc = "close" /\ scan'.container = c
  <2>1. current \in Nat
    BY <1>3
  <2>2. CASE IsLazy
    BY <1>3, <2>1, <2>2 DEF MarkBlanks, Scan
  <2>3. CASE ~IsLazy
    BY <1>3, <2>3 DEF MarkBlanks, Scan
  <2>4. QED
    BY <2>2, <2>3
<1>7. Typed'
  <2>1. {current', scan'.container, scan'.matched} \subseteq DOMAIN nodes'
    BY <1>3, <1>4, <1>5, <1>6 DEF SameShape
  <2>2. QED
    BY <1>1, <1>4, <1>5, <1>6, <2>1, TypedStep DEF Typed
<1>8. Tree(nodes')
  BY <1>1, <1>3, <1>4, SameShapeIsTree
<1>9. PathOK'
  <2>1. CASE IsLazy
    <3>1. Mid(nodes, Q, U, current, c, c) /\ current # c
      BY <1>2, <2>1 DEF IsLazy
    <3>2. Between(nodes, Q \cup U, current)
      BY <1>1, <1>3, <3>1, JoinPath
    <3>3. Between(nodes', Q \cup U, scan'.container)
      BY <1>1, <1>3, <1>4, <1>6, <2>1, <3>2, SameShapeKeeps
    <3>4. QED
      BY <1>6, <2>1, <3>3 DEF PathOK
  <2>2. CASE ~IsLazy
    <3>1. Mid(nodes', Q, U, current', scan'.matched, scan'.container)
      BY <1>1, <1>2, <1>3, <1>4, <1>5, <1>6, <2>2, SameShapeKeeps
    <3>2. QED
      BY <1>6, <2>2, <3>1 DEF PathOK
  <2>3. QED
    BY <2>1, <2>2
<1>10. QED
  BY <1>7, <1>8, <1>9 DEF Inv

LEMMA CloseUnmatchedKeeps == ASSUME Inv, CloseUnmatched PROVE Inv'
<1> DEFINE f == Finalized(Doc, current)
<1>1. Typed /\ Tree(nodes) /\ PathOK
  BY DEF Inv
<1>2. PICK Q, U : Mid(nodes, Q, U, current, scan.matched, scan.container)
  BY <1>1 DEF PathOK, CloseUnmatched
<1>3. nodes \in Seq(Block) /\ scan \in Scan /\ {current, scan.container, scan.matched} \subseteq DOMAIN nodes
  BY <1>1 DEF Typed
<1>4. Doc.nodes = nodes /\ Doc.refs = refs /\ Doc.panicked = panicked
  BY DEF Doc
<1>5. /\ f.nodes \in Seq(Block) /\ Tree(f.nodes) /\ Pruned(nodes, f.nodes, current)
      /\ f.refs \in 0..MaxLines /\ f.panicked = (panicked \/ ~nodes[current].open)
  <2>1. Doc.nodes \in Seq(Block) /\ Tree(Doc.nodes) /\ Doc.refs \in 0..MaxLines /\ current \in DOMAIN Doc.nodes
    BY <1>1, <1>3, <1>4 DEF Typed
  <2>2. QED
    BY <1>4, <2>1, FinalizedCloses
<1>6. DocBecomes([f EXCEPT !.panicked = @ \/ current = Root])
  BY DEF CloseUnmatched
<1>7. nodes' = f.nodes /\ refs' = f.refs /\ panicked' = (f.panicked \/ current = Root)
  <2>1. f = [nodes |-> f.nodes, refs |-> f.refs, panicked |-> f.panicked]
    BY DEF Finalized
  <2> HIDE DEF f
  <2>2. QED
    BY <1>6, <2>1 DEF DocBecomes
<1> HIDE DEF f
<1>8. /\ current # scan.matched /\ UNCHANGED <<scan, lineNo>> /\ current' = nodes[current].parent
      /\ scan.pc = "close"
  BY DEF CloseUnmatched
<1>9. /\ nodes[current].open /\ current # Root /\ nodes[current].parent \in DOMAIN nodes
      /\ Mid(nodes', Q, U \ {current}, current', scan.matched, scan.container)
  BY <1>1, <1>2, <1>3, <1>5, <1>7, <1>8, ClosePending
<1>10. DOMAIN nodes' = DOMAIN nodes
  BY <1>5, <1>7 DEF Pruned
<1>11. Typed'
  <2>1. ~panicked' /\ panicked' \in BOOLEAN
    BY <1>1, <1>5, <1>7, <1>9 DEF Typed
  <2>2. {current', scan'.container, scan'.matched} \subseteq DOMAIN nodes'
    BY <1>3, <1>8, <1>9, <1>10
  <2>3. QED
    BY <1>1, <1>5, <1>7, <1>8, <2>1, <2>2, TypedStep DEF Typed
<1>12. PathOK'
  BY <1>8, <1>9 DEF PathOK
<1>13. QED
  BY <1>5, <1>7, <1>11, <1>12 DEF Inv

LEMMA AllClosedKeeps == ASSUME Inv, AllClosed PROVE Inv'
<1> DEFINE b == NewNode("Paragraph", "", 0, 0)
<1>1. Typed /\ Tree(nodes) /\ PathOK /\ current = scan.matched
  BY DEF Inv, AllClosed
<1>2. PICK Q, U : Mid(nodes, Q, U, current, scan.matched, scan.container)
  BY <1>1 DEF PathOK, AllClosed
<1>3. UNCHANGED <<nodes, refs, panicked, current, lineNo>>
  BY DEF AllClosed
<1>4. b \in Block /\ b.kind = "Paragraph" /\ b.open /\ b.kids = <<>>
  <2>1. "Paragraph" \in Kinds /\ "" \in Word
    BY DEF Kinds, Leaves, Word
  <2>2. lineNo \in Nat /\ 0 \in Nat
    BY <1>1, MaxLinesIsNat DEF Typed
  <2>3. QED
    BY <2>1, <2>2, NewNodeIsBlock
<1>5. \/ scan' = [scan EXCEPT !.pc = "store"]
      \/ scan' = [scan EXCEPT !.pc = "add", !.new = <<b>>]
  BY DEF AllClosed
<1> HIDE DEF b
<1>6. CASE scan' = [scan EXCEPT !.pc = "store"]
  <2>1. /\ scan' \in Scan /\ scan'.pc = "store" /\ scan'.container = scan.container
        /\ scan'.matched = scan.matched
    BY <1>1, <1>6 DEF Typed, Scan
  <2>2. Between(nodes, Q, scan.container)
    BY <1>1, <1>2, NothingPending
  <2>3. PathOK'
    <3>1. Between(nodes', Q, scan'.container)
      BY <1>3, <2>1, <2>2
    <3>2. QED
      BY <2>1, <3>1 DEF PathOK
  <2>4. Typed'
    BY <1>1, <1>3, <2>1, TypedStep DEF Typed
  <2>5. QED
    BY <1>1, <1>3, <2>3, <2>4 DEF Inv
<1>7. CASE scan' = [scan EXCEPT !.pc = "add", !.new = <<b>>]
  <2>1. <<b>> \in Seq(Block) /\ Len(<<b>>) = 1 /\ DOMAIN <<b>> = {1} /\ <<b>>[1] = b
    BY <1>4
  <2>2. /\ scan' \in Scan /\ scan'.pc = "add" /\ scan'.container = scan.container
        /\ scan'.matched = scan.matched /\ scan'.new = <<b>>
    BY <1>1, <1>7, <2>1 DEF Typed, Scan
  <2>3. NewOK'
    <3>1. "Paragraph" \in Leaves
      BY DEF Leaves
    <3>2. QED
      BY <1>1, <1>3, <1>4, <2>1, <2>2, <3>1 DEF NewOK
  <2>4. AddOK'
    BY <1>1, <1>3, <2>2, <2>3 DEF AddOK
  <2>5. Mid(nodes', Q, U, current', scan'.matched, scan'.container)
    BY <1>2, <1>3, <2>2
  <2>6. PathOK'
    BY <2>2, <2>4, <2>5 DEF PathOK
  <2>7. Typed'
    BY <1>1, <1>3, <2>2, TypedStep DEF Typed
  <2>8. QED
    BY <1>1, <1>3, <2>6, <2>7 DEF Inv
<1>8. QED
  BY <1>5, <1>6, <1>7

(***************************************************************************)
(* The end of the document                                                 *)
(***************************************************************************)
LEMMA CloseAtEndKeeps == ASSUME Inv, CloseAtEnd PROVE Inv'
<1> DEFINE f == Finalized(Doc, current)
<1>1. Typed /\ Tree(nodes) /\ PathOK /\ scan.pc = "eof"
  BY DEF Inv, CloseAtEnd
<1>2. PICK Q : Between(nodes, Q, current)
  BY <1>1 DEF PathOK
<1>3. nodes \in Seq(Block) /\ scan \in Scan /\ {current, scan.container, scan.matched} \subseteq DOMAIN nodes
  BY <1>1 DEF Typed
<1>4. Doc.nodes = nodes /\ Doc.refs = refs /\ Doc.panicked = panicked
  BY DEF Doc
<1>5. /\ f.nodes \in Seq(Block) /\ Tree(f.nodes) /\ Pruned(nodes, f.nodes, current)
      /\ f.refs \in 0..MaxLines /\ f.panicked = (panicked \/ ~nodes[current].open)
  <2>1. Doc.nodes \in Seq(Block) /\ Tree(Doc.nodes) /\ Doc.refs \in 0..MaxLines /\ current \in DOMAIN Doc.nodes
    BY <1>1, <1>3, <1>4 DEF Typed
  <2>2. QED
    BY <1>4, <2>1, FinalizedCloses
<1>6. nodes' = f.nodes /\ refs' = f.refs /\ panicked' = f.panicked /\ lineNo' = lineNo
  BY DEF CloseAtEnd, DocBecomes
<1> HIDE DEF f
<1>7. Path(nodes, Q, current) /\ Shut(nodes, {}) /\ nodes[current].open
  BY <1>2 DEF Between, Path
<1>8. DOMAIN nodes' = DOMAIN nodes /\ Root \in DOMAIN nodes
  BY <1>1, <1>5, <1>6 DEF Pruned, Tree, Rooted
<1>9. ~panicked' /\ panicked' \in BOOLEAN
  BY <1>1, <1>5, <1>6, <1>7 DEF Typed
<1>10. CASE current = Root
  <2>1. scan' = [Idle EXCEPT !.pc = "done"] /\ current' = current
    BY <1>10 DEF CloseAtEnd
  <2>2. scan' \in Scan /\ scan'.pc = "done" /\ scan'.container = Root /\ scan'.matched = Root
    BY <2>1, IdleIsScan DEF Idle, Scan
  <2>3. Typed'
    BY <1>1, <1>3, <1>5, <1>6, <1>8, <1>9, <2>1, <2>2, TypedStep DEF Typed
  <2>4. PathOK'
    BY <2>2 DEF PathOK
  <2>5. QED
    BY <1>5, <1>6, <2>3, <2>4 DEF Inv
<1>11. CASE current # Root
  <2>1. current' = nodes[current].parent /\ scan' = scan
    BY <1>11 DEF CloseAtEnd
  <2>2. Between(nodes', {m \in Q : m <= current'}, current')
    BY <1>1, <1>3, <1>5, <1>6, <1>7, <1>11, <2>1, CloseTip
  <2>3. current' \in DOMAIN nodes'
    BY <2>2 DEF Between, Path
  <2>4. Typed'
    BY <1>1, <1>3, <1>5, <1>6, <1>8, <1>9, <2>1, <2>3, TypedStep DEF Typed
  <2>5. PathOK'
    BY <1>1, <2>1, <2>2 DEF PathOK
  <2>6. QED
    BY <1>5, <1>6, <2>4, <2>5 DEF Inv
<1>12. QED
  BY <1>10, <1>11

(***************************************************************************)
(* The text goes to its block                                              *)
(***************************************************************************)
LEMMA WithLineKeeps ==
  ASSUME Typed, NEW n \in DOMAIN nodes, NEW r \in Seq(Word)
  PROVE  /\ WithLine(Doc, n, r).nodes \in Seq(Block)
         /\ SameShape(nodes, WithLine(Doc, n, r).nodes)
         /\ WithLine(Doc, n, r).refs = refs
         /\ WithLine(Doc, n, r).panicked = (panicked \/ ~nodes[n].open)
<1> DEFINE b == Written(nodes[n], r)
           u == [nodes EXCEPT ![n] = b]
<1>1. nodes \in Seq(Block) /\ nodes[n] \in Block /\ lineNo \in 0..MaxLines /\ lineNo \in Nat
  <2>1. nodes \in Seq(Block) /\ lineNo \in 0..MaxLines
    BY DEF Typed
  <2>2. QED
    BY <2>1, MaxLinesIsNat
<1>2. /\ b \in Block /\ b.kind = nodes[n].kind /\ b.parent = nodes[n].parent /\ b.kids = nodes[n].kids
      /\ b.open = nodes[n].open
  <2> DEFINE l == <<lineNo, Token(r)>>
             last == IF Blank(r) /\ nodes[n].tag # "fenced" THEN nodes[n].last ELSE lineNo
  <2>1. l \in (0..MaxLines) \X Word
    BY <1>1, LineIsSeq
  <2>2. b = [nodes[n] EXCEPT !.lines = Append(@, l), !.wrote = Append(@, l), !.last = last]
    BY DEF Written
  <2> HIDE DEF l, b
  <2>3. last \in Nat
    BY <1>1 DEF Block
  <2> HIDE DEF last
  <2>4. Append(nodes[n].lines, l) \in Content /\ Append(nodes[n].wrote, l) \in Content
    BY <1>1, <2>1 DEF Block, Content
  <2>5. QED
    BY <1>1, <2>2, <2>3, <2>4 DEF Block
<1>3. WithLine(Doc, n, r) = [nodes |-> u, refs |-> refs, panicked |-> panicked \/ ~nodes[n].open]
  BY DEF WithLine, Doc
<1> HIDE DEF b
<1>4. u \in Seq(Block) /\ SameShape(nodes, u)
  BY <1>1, <1>2, EditBlock DEF SameShape
<1>5. QED
  BY <1>3, <1>4

LEMMA StoreLineKeeps == ASSUME Inv, StoreLine PROVE Inv'
<1> DEFINE c == scan.container
           takes == ContainerKind \in Verbatim \/ ~Blank(scan.rest)
           d == IF takes THEN WithLine(Doc, c, scan.rest) ELSE Doc
           ends == EndsHtml(nodes[c], scan.rest)
           p == nodes[c].parent
<1>1. Typed /\ Tree(nodes) /\ PathOK
  BY DEF Inv
<1>2. PICK Q : Between(nodes, Q, c)
  BY <1>1 DEF PathOK, StoreLine
<1>3. nodes \in Seq(Block) /\ c \in DOMAIN nodes
  BY <1>1 DEF Typed
<1>4. nodes[c].open /\ Root \in DOMAIN nodes
  BY <1>2 DEF Between, Path
<1>5. /\ d.nodes \in Seq(Block) /\ SameShape(nodes, d.nodes) /\ d.refs = refs
      /\ ~d.panicked /\ d.panicked \in BOOLEAN
  <2>1. CASE takes
    BY <1>1, <1>3, <1>4, <2>1, RestIsLine, WithLineKeeps DEF Typed
  <2>2. CASE ~takes
    BY <1>1, <1>3, <2>2 DEF Typed, Doc, SameShape
  <2>3. QED
    BY <2>1, <2>2
<1>6. /\ DocBecomes(IF ends THEN Finalized(d, c) ELSE d) /\ current' = IF ends THEN p ELSE c
      /\ scan' = Idle /\ lineNo' = lineNo
  BY DEF StoreLine
<1> HIDE DEF d
<1>7. Tree(d.nodes) /\ Between(d.nodes, Q, c)
  BY <1>1, <1>2, <1>3, <1>5, SameShapeIsTree, SameShapeKeeps
<1>8. DOMAIN d.nodes = DOMAIN nodes /\ d.nodes[c].parent = p
  BY <1>3, <1>5 DEF SameShape
<1>9. scan' \in Scan /\ scan'.pc = "line" /\ scan'.container = Root /\ scan'.matched = Root
  BY <1>6, IdleIsScan DEF Idle
<1>10. CASE ends
  <2> DEFINE f == Finalized(d, c)
  <2>1. c # Root
    BY <1>1, <1>10 DEF EndsHtml, Tree, Rooted
  <2>2. /\ f.nodes \in Seq(Block) /\ Tree(f.nodes) /\ Pruned(d.nodes, f.nodes, c)
        /\ f.refs \in 0..MaxLines /\ f.panicked = (d.panicked \/ ~d.nodes[c].open)
    <3>1. d.refs \in 0..MaxLines /\ c \in DOMAIN d.nodes
      BY <1>1, <1>3, <1>5, <1>8 DEF Typed
    <3>2. QED
      BY <1>5, <1>7, <3>1, FinalizedCloses
  <2>3. DocBecomes(f) /\ current' = p
    BY <1>6, <1>10
  <2> HIDE DEF f
  <2>4. nodes' = f.nodes /\ refs' = f.refs /\ panicked' = f.panicked
    BY <2>3 DEF DocBecomes
  <2>5. Path(d.nodes, Q, c) /\ Shut(d.nodes, {}) /\ d.nodes[c].open
    BY <1>7 DEF Between, Path
  <2>6. Between(nodes', {m \in Q : m <= p}, p)
    BY <1>3, <1>5, <1>7, <1>8, <2>1, <2>2, <2>4, <2>5, CloseTip
  <2>7. p \in DOMAIN nodes' /\ Root \in DOMAIN nodes'
    BY <2>6 DEF Between, Path
  <2>8. ~panicked' /\ panicked' \in BOOLEAN
    BY <1>5, <2>2, <2>4, <2>5
  <2>9. Typed'
    BY <1>1, <1>6, <1>9, <2>2, <2>3, <2>4, <2>7, <2>8, TypedStep DEF Typed
  <2>10. PathOK'
    BY <1>9, <2>3, <2>6 DEF PathOK
  <2>11. QED
    BY <2>2, <2>4, <2>9, <2>10 DEF Inv
<1>11. CASE ~ends
  <2>1. nodes' = d.nodes /\ refs' = d.refs /\ panicked' = d.panicked /\ current' = c
    BY <1>6, <1>11 DEF DocBecomes
  <2>2. Typed'
    BY <1>1, <1>3, <1>4, <1>5, <1>6, <1>8, <1>9, <2>1, TypedStep DEF Typed
  <2>3. PathOK'
    BY <1>7, <1>9, <2>1 DEF PathOK
  <2>4. QED
    BY <1>7, <2>1, <2>2, <2>3 DEF Inv
<1>12. QED
  BY <1>10, <1>11

\* What is left of a line after the place of a token
LEMMA LineAfter ==
  ASSUME NEW r \in Seq(Word)
  PROVE  Drop(r, SelectInSeq(r, LAMBDA x : x = "%%")) \in Seq(Word)
<1> DEFINE I == {i \in 1..Len(r) : r[i] = "%%"}
           k == IF I # {} THEN Min(I) ELSE 0
<1>1. Len(r) \in Nat /\ I \in SUBSET (1..Len(r))
  OBVIOUS
<1>2. k \in 0..Len(r)
  BY <1>1, FirstPlace
<1>3. SelectInSeq(r, LAMBDA x : x = "%%") = k
  BY DEF SelectInSeq
<1> HIDE DEF k
<1>4. k \in Nat
  BY <1>1, <1>2
<1>5. QED
  BY <1>3, <1>4, DropIsSeq

LEMMA StoreCommentEndKeeps == ASSUME Inv, StoreCommentEnd PROVE Inv'
<1> DEFINE c == scan.container
           p == nodes[c].parent
           d == WithLine(Doc, c, scan.rest)
           f == Finalized(d, c)
           r == Drop(scan.rest, SelectInSeq(scan.rest, LAMBDA x : x = "%%"))
           P(Q) == {m \in Q : m <= p}
<1>1. Typed /\ Tree(nodes) /\ PathOK
  BY DEF Inv
<1>2. PICK Q : Between(nodes, Q, c)
  BY <1>1 DEF PathOK, StoreCommentEnd
<1>3. nodes \in Seq(Block) /\ scan \in Scan /\ c \in DOMAIN nodes
  BY <1>1 DEF Typed
<1>4. nodes[c].open /\ c # Root
  <2>1. nodes[c].kind = "Comment"
    BY DEF StoreCommentEnd, ContainerKind
  <2>2. QED
    BY <1>1, <1>2, <2>1 DEF Between, Path, Tree, Rooted
<1>5. r \in Seq(Word)
  BY RestIsLine, LineAfter
<1>6. /\ DocBecomes(f) /\ current' = p /\ lineNo' = lineNo
      /\ scan' = IF Blank(r) THEN Idle
                 ELSE [scan EXCEPT !.pc = "open", !.container = p, !.matched = p, !.all = TRUE,
                         !.lazy = FALSE, !.rest = r]
  BY DEF StoreCommentEnd
<1> HIDE DEF r
<1>7. /\ d.nodes \in Seq(Block) /\ SameShape(nodes, d.nodes) /\ d.refs \in 0..MaxLines
      /\ ~d.panicked /\ d.panicked \in BOOLEAN
  BY <1>1, <1>3, <1>4, RestIsLine, WithLineKeeps DEF Typed
<1> HIDE DEF d
<1>8. Tree(d.nodes) /\ Between(d.nodes, Q, c)
  BY <1>1, <1>2, <1>3, <1>7, SameShapeIsTree, SameShapeKeeps
<1>9. DOMAIN d.nodes = DOMAIN nodes /\ d.nodes[c].parent = p
  BY <1>3, <1>7 DEF SameShape
<1>10. /\ f.nodes \in Seq(Block) /\ Tree(f.nodes) /\ Pruned(d.nodes, f.nodes, c)
       /\ f.refs \in 0..MaxLines /\ f.panicked = (d.panicked \/ ~d.nodes[c].open)
  BY <1>3, <1>7, <1>8, <1>9, FinalizedCloses
<1> HIDE DEF f
<1>11. nodes' = f.nodes /\ refs' = f.refs /\ panicked' = f.panicked
  BY <1>6 DEF DocBecomes
<1>12. Path(d.nodes, Q, c) /\ Shut(d.nodes, {}) /\ d.nodes[c].open
  BY <1>8 DEF Between, Path
<1>13. Between(nodes', P(Q), p)
  BY <1>3, <1>4, <1>7, <1>8, <1>9, <1>10, <1>11, <1>12, CloseTip
<1>14. p \in DOMAIN nodes' /\ p \in P(Q) /\ Root \in DOMAIN nodes' /\ p \in Nat
  BY <1>10, <1>11, <1>13 DEF Between, Path
<1>15. ~panicked' /\ panicked' \in BOOLEAN
  BY <1>7, <1>10, <1>11, <1>12
<1>16. CASE Blank(r)
  <2>1. scan' \in Scan /\ scan'.pc = "line" /\ scan'.container = Root /\ scan'.matched = Root
    BY <1>6, <1>16, IdleIsScan DEF Idle
  <2>2. Typed'
    BY <1>1, <1>6, <1>10, <1>11, <1>14, <1>15, <2>1, TypedStep DEF Typed
  <2>3. PathOK'
    BY <1>6, <1>13, <2>1 DEF PathOK
  <2>4. QED
    BY <1>10, <1>11, <2>2, <2>3 DEF Inv
<1>17. CASE ~Blank(r)
  <2>1. scan' \in Scan /\ scan'.pc = "open" /\ scan'.container = p /\ scan'.matched = p
    BY <1>3, <1>5, <1>6, <1>14, <1>17 DEF Scan
  <2>2. Typed'
    BY <1>1, <1>6, <1>10, <1>11, <1>14, <1>15, <2>1, TypedStep DEF Typed
  <2>3. ~LastOpen(nodes', p)
    BY <1>10, <1>11, <1>13, TipHasNoOpen
  <2>4. Mid(nodes', P(Q), {}, p, p, p)
    BY <1>10, <1>11, <1>13, <1>14, <2>3, WholePath
  <2>5. OpenOK'
    BY <1>6, <2>1 DEF OpenOK
  <2>6. PathOK'
    BY <1>6, <2>1, <2>4, <2>5 DEF PathOK
  <2>7. QED
    BY <1>10, <1>11, <2>2, <2>6 DEF Inv
<1>18. QED
  BY <1>16, <1>17

(***************************************************************************)
(* add_child                                                               *)
(***************************************************************************)
\* The first of the blocks to add
LEMMA HeadOfNew ==
  ASSUME NewOK
  PROVE  /\ scan.new \in Seq(Block) /\ Len(scan.new) \in {1, 2}
         /\ Head(scan.new) = scan.new[1] /\ scan.new[1] \in Block
         /\ scan.new[1].open /\ scan.new[1].kids = <<>>
         /\ Len(scan.new) = 1 => Tail(scan.new) = <<>>
         /\ Len(scan.new) = 2 => /\ Tail(scan.new) = <<scan.new[2]>> /\ scan.new[2] \in Block
                                 /\ scan.new[2].open /\ scan.new[2].kids = <<>>
<1>1. scan.new \in Seq(Block) /\ Len(scan.new) \in {1, 2}
  BY DEF NewOK
<1>2. \A i \in DOMAIN scan.new : scan.new[i].open /\ scan.new[i].kids = <<>>
  BY DEF NewOK
<1>3. DOMAIN scan.new = 1..Len(scan.new)
  BY <1>1
<1> DEFINE s == scan.new
<1>4. s \in Seq(Block) /\ Len(s) \in {1, 2}
  BY <1>1
<1> HIDE DEF s
<1>5. Head(s) = s[1] /\ s[1] \in Block
  BY <1>4
<1>6. s # <<>> /\ Tail(s) \in Seq(Block) /\ Len(Tail(s)) = Len(s) - 1
      /\ \A i \in 1..Len(Tail(s)) : Tail(s)[i] = s[i + 1]
  BY <1>4, HeadTailProperties
<1>7. ASSUME Len(s) = 1 PROVE Tail(s) = <<>>
  <2>1. ASSUME NEW t \in Seq(Block), Len(t) = 0 PROVE t = <<>>
    BY <2>1, EmptySeq
  <2>2. Len(Tail(s)) = 0
    BY <1>6, <1>7
  <2>3. QED
    BY <1>6, <2>1, <2>2
<1>8. ASSUME Len(s) = 2 PROVE Tail(s) = <<s[2]>> /\ s[2] \in Block
  <2>1. s[2] \in Block
    BY <1>4, <1>8
  <2>2. Len(Tail(s)) = 1 /\ Tail(s)[1] = s[2]
    BY <1>6, <1>8
  <2>3. <<s[2]>> \in Seq(Block) /\ Len(<<s[2]>>) = 1 /\ <<s[2]>>[1] = s[2]
    BY <2>1
  <2>4. Len(Tail(s)) = Len(<<s[2]>>) /\ \A i \in 1..Len(Tail(s)) : Tail(s)[i] = <<s[2]>>[i]
    BY <2>2, <2>3
  <2>5. Tail(s) = <<s[2]>>
    BY <1>6, <2>3, <2>4, SeqEqual
  <2>6. QED
    BY <2>1, <2>5
<1>9. QED
  BY <1>1, <1>2, <1>3, <1>5, <1>7, <1>8 DEF s

LEMMA CloseToFitKeeps == ASSUME Inv, CloseToFit PROVE Inv'
<1> DEFINE c == scan.container
           p == nodes[c].parent
           f == Finalized(Doc, c)
           k == scan.new[1].kind
<1>1. Typed /\ Tree(nodes) /\ PathOK
  BY DEF Inv
<1>2. PICK Q, U : Mid(nodes, Q, U, current, scan.matched, c)
  BY <1>1 DEF PathOK, CloseToFit
<1>3. AddOK /\ NewOK
  BY <1>1 DEF PathOK, CloseToFit, AddOK
<1>4. /\ nodes \in Seq(Block) /\ scan \in Scan /\ c \in DOMAIN nodes /\ scan.matched \in DOMAIN nodes
      /\ current \in DOMAIN nodes
  BY <1>1 DEF Typed
<1>5. ~CanContain(ContainerKind, k)
  BY <1>3, HeadOfNew DEF CloseToFit
<1>6. k # "Item"
  <2>1. ASSUME k = "Item" PROVE ContainerKind = "List"
    BY <1>3, <2>1 DEF NewOK
  <2>2. CanContain("List", "Item")
    BY WhatHoldsWhat
  <2>3. QED
    BY <1>5, <2>1, <2>2
<1>7. c # Root
  <2>1. ASSUME c = Root PROVE ContainerKind \in General
    BY <1>1, <2>1 DEF Tree, Rooted, ContainerKind, General
  <2>2. QED
    BY <1>5, <1>6, <2>1, WhatHoldsWhat
<1>8. current # scan.matched => ~(scan.matched < c)
  BY <1>3, <1>5 DEF AddOK
<1>9. /\ DocBecomes(f) /\ scan' = [scan EXCEPT !.container = p]
      /\ UNCHANGED <<current, lineNo>> /\ scan.pc = "add"
  BY DEF CloseToFit
<1>10. /\ f.nodes \in Seq(Block) /\ Tree(f.nodes) /\ Pruned(nodes, f.nodes, c)
       /\ f.refs \in 0..MaxLines /\ f.panicked = (panicked \/ ~nodes[c].open)
  <2>1. Doc.nodes = nodes /\ Doc.refs = refs /\ Doc.panicked = panicked
    BY DEF Doc
  <2>2. Doc.nodes \in Seq(Block) /\ Tree(Doc.nodes) /\ Doc.refs \in 0..MaxLines /\ c \in DOMAIN Doc.nodes
    BY <1>1, <1>4, <2>1 DEF Typed
  <2>3. QED
    BY <2>1, <2>2, FinalizedCloses
<1> HIDE DEF f
<1>11. nodes' = f.nodes /\ refs' = f.refs /\ panicked' = f.panicked
  BY <1>9 DEF DocBecomes
<1>12. /\ nodes[c].open /\ p \in DOMAIN nodes
       /\ Mid(nodes', {m \in Q : m <= p}, U, current, scan.matched, p)
       /\ current # scan.matched => ~(scan.matched < p)
  <2>1. Pruned(nodes, nodes', c)
    BY <1>10, <1>11
  <2> HIDE DEF c
  <2>2. QED
    BY <1>1, <1>2, <1>4, <1>7, <1>8, <2>1, ClimbPath
<1>13. /\ scan' \in Scan /\ scan'.pc = "add" /\ scan'.container = p /\ scan'.matched = scan.matched
       /\ scan'.new = scan.new /\ scan'.rest = scan.rest
  <2>1. p \in Nat
    BY <1>4, <1>12
  <2> HIDE DEF p
  <2>2. QED
    BY <1>4, <1>9, <2>1 DEF Scan
<1>14. Typed'
  <2>1. ~panicked' /\ panicked' \in BOOLEAN
    BY <1>1, <1>10, <1>11, <1>12 DEF Typed
  <2>2. {current', scan'.container, scan'.matched} \subseteq DOMAIN nodes'
    BY <1>4, <1>9, <1>10, <1>11, <1>12, <1>13 DEF Pruned
  <2>3. QED
    BY <1>1, <1>9, <1>10, <1>11, <1>13, <2>1, <2>2, TypedStep DEF Typed
<1>15. NewOK'
  BY <1>3, <1>6, <1>9, <1>13 DEF NewOK, Blank
<1>16. AddOK'
  BY <1>9, <1>12, <1>13, <1>15 DEF AddOK
<1>17. Mid(nodes', {m \in Q : m <= p}, U, current', scan'.matched, scan'.container)
  BY <1>9, <1>12, <1>13
<1>18. PathOK'
  BY <1>13, <1>16, <1>17 DEF PathOK
<1>19. QED
  BY <1>10, <1>11, <1>14, <1>18 DEF Inv

LEMMA AddChildKeeps == ASSUME Inv, AddChild PROVE Inv'
<1> DEFINE c == scan.container
           n == Len(nodes) + 1
           b == scan.new[1]
           step == IF Len(scan.new) > 1 THEN "add"
                   ELSE IF b.kind = "Paragraph" THEN "store"
                   ELSE IF b.kind \in Leaves THEN "text" ELSE "open"
<1>1. Typed /\ Tree(nodes) /\ PathOK
  BY DEF Inv
<1>2. PICK Q, U : Mid(nodes, Q, U, current, scan.matched, c)
  BY <1>1 DEF PathOK, AddChild
<1>3. AddOK /\ NewOK
  BY <1>1 DEF PathOK, AddChild, AddOK
<1>4. /\ nodes \in Seq(Block) /\ scan \in Scan /\ c \in DOMAIN nodes /\ scan.matched \in DOMAIN nodes
      /\ current \in DOMAIN nodes
  BY <1>1 DEF Typed
<1>5. b \in Block /\ b.open /\ b.kids = <<>> /\ Head(scan.new) = b /\ Len(scan.new) \in {1, 2}
  BY <1>3, HeadOfNew
<1>6. CanContain(nodes[c].kind, b.kind)
  BY <1>5 DEF AddChild, ContainerKind
<1>7. /\ nodes' = AddTo(nodes, c, b) /\ UNCHANGED <<refs, panicked, current, lineNo>>
      /\ scan' = [scan EXCEPT !.container = n, !.new = Tail(@), !.lazy = FALSE, !.pc = step]
  BY <1>5 DEF AddChild
<1>8. /\ nodes' \in Seq(Block) /\ Grown(nodes, nodes', c, n)
      /\ nodes'[n].kind = b.kind /\ nodes'[n].open = b.open /\ nodes'[n].kids = b.kids
  BY <1>4, <1>5, <1>7, AddToGrows
<1>9. Tree(nodes')
  BY <1>1, <1>4, <1>5, <1>6, <1>8, GrownIsTree
<1>10. Path(nodes, Q, c) /\ Pending(nodes, Q, U, current, scan.matched, c) /\ Shut(nodes, U) /\ Slack(nodes, c, U)
  BY <1>2 DEF Mid
<1>11. Mid(nodes', Q \cup {n}, U, current, scan.matched, n)
  BY <1>1, <1>4, <1>5, <1>8, <1>10, GrownMid
<1>12. n \in Nat /\ n \in DOMAIN nodes' /\ DOMAIN nodes \subseteq DOMAIN nodes' /\ scan.matched < n
  BY <1>4, <1>8 DEF Grown
<1>13. /\ scan' \in Scan /\ scan'.pc = step /\ scan'.container = n /\ scan'.matched = scan.matched
       /\ scan'.new = Tail(scan.new) /\ scan'.rest = scan.rest
  <2>1. Tail(scan.new) \in Seq(Block)
    <3>1. <<>> \in Seq(Block)
      OBVIOUS
    <3>2. ASSUME NEW x \in Block PROVE <<x>> \in Seq(Block)
      OBVIOUS
    <3>3. QED
      BY <1>3, <1>5, <3>1, <3>2, HeadOfNew
  <2>2. step \in {"add", "store", "text", "open"}
    OBVIOUS
  <2> HIDE DEF step, n
  <2>3. QED
    BY <1>4, <1>7, <1>12, <2>1, <2>2 DEF Scan
<1>14. Typed'
  <2>1. {current', scan'.container, scan'.matched} \subseteq DOMAIN nodes'
    BY <1>4, <1>7, <1>12, <1>13
  <2>2. QED
    BY <1>1, <1>7, <1>8, <1>13, <2>1, TypedStep DEF Typed
<1>15. Mid(nodes', Q \cup {n}, U, current', scan'.matched, scan'.container)
  BY <1>7, <1>11, <1>13
<1>16. CASE Len(scan.new) > 1
  <2> DEFINE i == scan.new[2]
  <2>1. Len(scan.new) = 2 /\ b.kind = "List" /\ i.kind = "Item" /\ step = "add"
    BY <1>3, <1>5, <1>16 DEF NewOK
  <2>2. scan'.new = <<i>> /\ i \in Block /\ i.open /\ i.kids = <<>>
    BY <1>3, <1>13, <2>1, HeadOfNew
  <2>3. <<i>> \in Seq(Block) /\ Len(<<i>>) = 1 /\ DOMAIN <<i>> = {1} /\ <<i>>[1] = i
    BY <2>2
  <2> HIDE DEF i
  <2>4. ContainerKind' = "List"
    BY <1>8, <1>13, <2>1 DEF ContainerKind
  <2>5. NewOK'
    BY <2>1, <2>2, <2>3, <2>4 DEF NewOK, General
  <2>6. CanContain("List", "Item")
    BY WhatHoldsWhat
  <2>7. AddOK'
    BY <2>1, <2>2, <2>3, <2>4, <2>5, <2>6 DEF AddOK
  <2>8. PathOK'
    BY <1>13, <1>15, <2>1, <2>7 DEF PathOK
  <2>9. QED
    BY <1>9, <1>14, <2>8 DEF Inv
<1>17. CASE ~(Len(scan.new) > 1)
  <2>1. /\ Len(scan.new) = 1
        /\ b.kind \in General \cup Leaves \cup {"HtmlBlock", "ThematicBreak"}
        /\ b.kind = "Paragraph" => current = scan.matched
        /\ b.kind = "ThematicBreak" => Blank(scan.rest)
    BY <1>3, <1>5, <1>17 DEF NewOK
  <2>2. CASE b.kind = "Paragraph"
    <3>1. scan'.pc = "store"
      BY <1>13, <1>17, <2>2
    <3>2. Between(nodes', Q \cup {n}, scan'.container)
      BY <1>11, <1>13, <2>1, <2>2, NothingPending
    <3>3. PathOK'
      BY <3>1, <3>2 DEF PathOK
    <3>4. QED
      BY <1>9, <1>14, <3>3 DEF Inv
  <2>3. CASE b.kind # "Paragraph" /\ b.kind \in Leaves
    <3>1. scan'.pc = "text"
      BY <1>13, <1>17, <2>3
    <3>2. PathOK'
      BY <1>15, <3>1 DEF PathOK
    <3>3. QED
      BY <1>9, <1>14, <3>2 DEF Inv
  <2>4. CASE b.kind \notin Leaves
    <3>1. scan'.pc = "open"
      <4>1. "Paragraph" \in Leaves
        BY DEF Leaves
      <4>2. QED
        BY <1>13, <1>17, <2>4, <4>1
    <3>2. ContainerKind' = b.kind /\ nodes'[n].kids = <<>>
      BY <1>5, <1>8, <1>13 DEF ContainerKind
    <3>3. ContainerKind' \in General \cup Verbatim \/ Blank(scan.rest)
      BY <2>1, <2>4, <3>2 DEF Verbatim
    <3>4. scan'.matched < scan'.container /\ scan'.container # scan'.matched /\ nodes'[scan'.container].kids = <<>>
      BY <1>4, <1>12, <1>13, <3>2
    <3>5. OpenOK'
      BY <1>13, <3>3, <3>4 DEF OpenOK, Blank
    <3>6. PathOK'
      BY <1>15, <3>1, <3>5 DEF PathOK
    <3>7. QED
      BY <1>9, <1>14, <3>6 DEF Inv
  <2>5. QED
    BY <2>2, <2>3, <2>4
<1>18. QED
  BY <1>16, <1>17

(***************************************************************************)
(* Descriptions                                                            *)
(***************************************************************************)
\* A block is added to an open path, and the path goes on to it
Added(t, u, Q, U, cur, m0, c, b) ==
  LET n == Len(t) + 1
  IN /\ u \in Seq(Block) /\ Tree(u) /\ Len(u) = n /\ DOMAIN u = DOMAIN t \cup {n} /\ c < n
     /\ Mid(u, Q \cup {n}, U, cur, m0, n)
     /\ \A m \in DOMAIN t : u[m].kind = t[m].kind /\ u[m].parent = t[m].parent /\ m < n
     /\ u[n].kind = b.kind /\ u[n].kids = <<>> /\ LastKid(u, c) = n

LEMMA AddedMid ==
  ASSUME NEW t \in Seq(Block), Tree(t), NEW c \in DOMAIN t,
         NEW b \in Block, b.open, b.kids = <<>>, CanContain(t[c].kind, b.kind),
         NEW Q, NEW U, NEW cur, NEW m0 \in DOMAIN t,
         Path(t, Q, c), Pending(t, Q, U, cur, m0, c), Shut(t, U),
         t[c].kind \in Lists \/ Slack(t, c, U)
  PROVE  Added(t, AddTo(t, c, b), Q, U, cur, m0, c, b)
<1> DEFINE u == AddTo(t, c, b)
           n == Len(t) + 1
<1>1. /\ u \in Seq(Block) /\ Len(u) = n /\ Grown(t, u, c, n)
      /\ u[n].kind = b.kind /\ u[n].open = b.open /\ u[n].kids = b.kids
  BY AddToGrows
<1> HIDE DEF u, n
<1>2. Tree(u)
  BY <1>1, GrownIsTree
<1>3. Mid(u, Q \cup {n}, U, cur, m0, n)
  BY <1>1, GrownMid
<1>4. LastKid(u, c) = n
  BY <1>1, GrownKids
<1>5. /\ DOMAIN u = DOMAIN t \cup {n} /\ c < n
      /\ \A m \in DOMAIN t : u[m].kind = t[m].kind /\ u[m].parent = t[m].parent /\ m < n
  BY <1>1 DEF Grown
<1>6. QED
  BY <1>1, <1>2, <1>3, <1>4, <1>5 DEF Added, u, n

LEMMA NonePending ==
  ASSUME NEW t, NEW Q, NEW m0, NEW c
  PROVE  Pending(t, Q, {}, m0, m0, c)
BY DEF Pending

\* The container that holds what comes before a marker, and what comes before it
LEMMA DescribedBlock ==
  ASSUME Typed, Tree(nodes), OpensDescription(scan.rest), NEW Q, Path(nodes, Q, scan.container)
  PROVE  LET h == TermHolder
             k == LastKid(nodes, h)
         IN /\ h \in Q /\ k \in DOMAIN nodes /\ k # Root
            /\ \/ ContainerKind = "Paragraph" /\ k = scan.container
               \/ h = scan.container /\ nodes[scan.container].kids # <<>>
<1> DEFINE c == scan.container
<1>1. nodes \in Seq(Block) /\ c \in DOMAIN nodes /\ c \in Q /\ Q \subseteq DOMAIN nodes
  BY DEF Typed, Path
<1>2. CASE ContainerKind = "Paragraph"
  <2>1. nodes[c].kids = <<>>
    BY <1>1, <1>2, LeavesHoldNone DEF ContainerKind, General, Lists, Fenced
  <2>2. TermHolder = nodes[c].parent
    BY <2>1 DEF TermHolder
  <2>3. c # Root
    BY <1>2 DEF ContainerKind, Tree, Rooted
  <2>4. nodes[c].parent \in Q /\ LastKid(nodes, nodes[c].parent) = c
    BY <1>1, <2>3 DEF Path
  <2>5. QED
    BY <1>1, <1>2, <2>2, <2>3, <2>4
<1>3. CASE LastKid(nodes, c) # None
  <2>1. nodes[c].kids # <<>>
    BY <1>1, <1>3, KidsOf
  <2>2. TermHolder = c
    BY <2>1 DEF TermHolder
  <2>3. LastKid(nodes, c) \in DOMAIN nodes /\ nodes[LastKid(nodes, c)].parent = c
    BY <1>1, <1>3, KidsOf
  <2>4. LastKid(nodes, c) # Root
    BY <1>1, <2>3 DEF Tree, Rooted, None
  <2>5. QED
    BY <1>1, <2>1, <2>2, <2>3, <2>4
<1>4. QED
  BY <1>2, <1>3 DEF OpensDescription

LEMMA DescribeAgainKeeps == ASSUME Inv, DescribeAgain PROVE Inv'
<1> DEFINE c == scan.container
           item == Len(nodes) + 1
           b1 == NewNode("DescItem", "", Indent(scan.rest), 1)
           b2 == NewNode("DescDetails", "", 0, 0)
           t1 == AddTo(nodes, c, b1)
           rest == After(scan.rest)
<1>1. Typed /\ Tree(nodes) /\ PathOK
  BY DEF Inv
<1>2. scan.pc = "open" /\ OpensDescription(scan.rest) /\ nodes[LastKid(nodes, TermHolder)].kind = "DescItem"
  BY DEF DescribeAgain, Opening
<1>3. PICK Q, U : Mid(nodes, Q, U, current, scan.matched, c)
  BY <1>1, <1>2 DEF PathOK
<1>4. /\ nodes \in Seq(Block) /\ scan \in Scan /\ c \in DOMAIN nodes /\ scan.matched \in DOMAIN nodes
      /\ current \in DOMAIN nodes /\ lineNo \in Nat
  BY <1>1, MaxLinesIsNat DEF Typed
<1>5. Path(nodes, Q, c) /\ Pending(nodes, Q, U, current, scan.matched, c)
      /\ Shut(nodes, U) /\ Slack(nodes, c, U)
  BY <1>3 DEF Mid
<1>6. TermHolder = c /\ nodes[c].kids # <<>>
  BY <1>1, <1>2, <1>5, DescribedBlock DEF ContainerKind
<1>7. CanContain(nodes[c].kind, "DescItem")
  BY <1>1, <1>2, <1>4, <1>6, KidsOf
<1>8. scan.matched = c
  BY <1>1, <1>2, <1>6 DEF PathOK, OpenOK
<1>9. /\ b1 \in Block /\ b1.kind = "DescItem" /\ b1.open /\ b1.kids = <<>>
      /\ b2 \in Block /\ b2.kind = "DescDetails" /\ b2.open /\ b2.kids = <<>>
  <2>1. "DescItem" \in Kinds /\ "DescDetails" \in Kinds /\ "" \in Word
    BY DEF Kinds, Word
  <2>2. Indent(scan.rest) \in Nat /\ 1 \in Nat /\ 0 \in Nat
    BY RestIsLine, LineIsSeq
  <2>3. lineNo \in Nat
    BY <1>4
  <2>4. Fresh(b1, "DescItem")
    BY <2>1, <2>2, <2>3, NewNodeIsFresh
  <2>5. Fresh(b2, "DescDetails")
    BY <2>1, <2>2, <2>3, NewNodeIsFresh
  <2>6. QED
    BY <2>4, <2>5 DEF Fresh
<1>10. /\ nodes' = AddTo(t1, item, b2) /\ UNCHANGED <<refs, panicked, current, lineNo>>
       /\ scan' = [scan EXCEPT !.container = item + 1, !.lazy = FALSE, !.rest = rest]
  BY DEF DescribeAgain
<1> HIDE DEF b1, b2
<1>11. Added(nodes, t1, Q, U, current, scan.matched, c, b1)
  BY <1>1, <1>4, <1>5, <1>7, <1>9, AddedMid
<1> HIDE DEF t1
<1>12. /\ t1 \in Seq(Block) /\ Tree(t1) /\ Len(t1) = item /\ item \in DOMAIN t1 /\ c < item
       /\ Mid(t1, Q \cup {item}, U, current, scan.matched, item)
       /\ t1[item].kind = "DescItem" /\ DOMAIN nodes \subseteq DOMAIN t1
  BY <1>9, <1>11 DEF Added
<1>13. Added(t1, nodes', Q \cup {item}, U, current, scan.matched, item, b2)
  <2>1. "DescItem" \in Lists /\ CanContain("DescItem", "DescDetails")
    BY WhatHoldsWhat DEF Lists
  <2>2. Path(t1, Q \cup {item}, item) /\ Pending(t1, Q \cup {item}, U, current, scan.matched, item) /\ Shut(t1, U)
    BY <1>12 DEF Mid
  <2>3. QED
    BY <1>4, <1>9, <1>10, <1>12, <2>1, <2>2, AddedMid
<1> DEFINE n == item + 1
<1>14. /\ nodes' \in Seq(Block) /\ Tree(nodes') /\ n \in DOMAIN nodes' /\ item < n
       /\ Mid(nodes', (Q \cup {item}) \cup {n}, U, current, scan.matched, n)
       /\ nodes'[n].kind = "DescDetails" /\ nodes'[n].kids = <<>> /\ DOMAIN t1 \subseteq DOMAIN nodes'
  BY <1>9, <1>12, <1>13 DEF Added
<1>15. n \in Nat /\ c < n
  BY <1>4, <1>12
<1>16. /\ scan' \in Scan /\ scan'.pc = "open" /\ scan'.container = n /\ scan'.matched = scan.matched
  <2>1. rest \in Seq(Word)
    BY RestIsLine, LineIsSeq
  <2> HIDE DEF n, rest
  <2>2. QED
    BY <1>2, <1>4, <1>10, <1>15, <2>1 DEF Scan, n
<1> HIDE DEF n
<1>17. Typed'
  <2>1. {current', scan'.container, scan'.matched} \subseteq DOMAIN nodes'
    BY <1>4, <1>10, <1>12, <1>14, <1>16
  <2>2. QED
    BY <1>1, <1>10, <1>14, <1>16, <2>1, TypedStep DEF Typed
<1>18. OpenOK'
  <2>1. ContainerKind' = "DescDetails" /\ "DescDetails" \in General
    BY <1>14, <1>16 DEF ContainerKind, General
  <2>2. scan'.matched < scan'.container /\ scan'.container # scan'.matched /\ nodes'[scan'.container].kids = <<>>
    BY <1>4, <1>8, <1>14, <1>15, <1>16
  <2>3. QED
    BY <2>1, <2>2 DEF OpenOK
<1>19. PathOK'
  <2>1. Mid(nodes', (Q \cup {item}) \cup {n}, U, current', scan'.matched, scan'.container)
    BY <1>10, <1>14, <1>16
  <2>2. QED
    BY <1>16, <1>18, <2>1 DEF PathOK
<1>20. QED
  BY <1>14, <1>17, <1>19 DEF Inv

\* The paragraph at the end of a path is taken away: nothing open is left below
Taken(t, u, Q, h, k) ==
  /\ u \in Seq(Block) /\ Tree(u) /\ DOMAIN u = DOMAIN t
  /\ Path(u, Q, h) /\ Shut(u, {}) /\ Slack(u, h, {})
  /\ u[k].parent = None
  /\ \A m \in DOMAIN t : u[m].kind = t[m].kind

LEMMA TakeLast ==
  ASSUME NEW t \in Seq(Block), Tree(t), NEW Q, NEW h, Path(t, Q, h), Shut(t, {}),
         NEW k \in DOMAIN t, k = LastKid(t, h), k # None, t[k].kind = "Paragraph"
  PROVE  k \notin Q /\ t[h].kind \in General /\ Taken(t, Detached(t, k), Q, h, k)
<1> DEFINE u == Detached(t, k)
<1>1. h \in DOMAIN t /\ h \in Q /\ Q \subseteq DOMAIN t
  BY DEF Path
<1>2. t[k].parent = h /\ CanContain(t[h].kind, "Paragraph")
  BY <1>1, KidsOf
<1>3. t[h].kind \in General
  BY <1>2, WhatHoldsWhat
<1>4. k \notin Q
  <2>1. SUFFICES ASSUME k \in Q PROVE FALSE
    OBVIOUS
  <2>2. k # Root
    BY <1>1, <1>2 DEF Tree, Rooted, None
  <2>3. h < k
    BY <1>2, <2>1, <2>2 DEF Path
  <2>4. k <= h /\ k \in Nat /\ h \in Nat
    BY <1>1, <2>1, TipIsLast
  <2>5. QED
    BY <2>3, <2>4
<1>5. /\ u \in Seq(Block) /\ DOMAIN u = DOMAIN t /\ u[k].parent = None
      /\ \A m \in DOMAIN t : /\ u[m].kind = t[m].kind /\ u[m].open = t[m].open
                             /\ m # k => u[m].parent = t[m].parent
                             /\ u[m].kids = IF m = h THEN RemoveFirst(t[m].kids, k) ELSE t[m].kids
  BY <1>2, DetachedIsCut
<1> HIDE DEF u
<1>6. Cut(t, u, k)
  BY <1>2, <1>5 DEF Cut
<1>7. Tree(u)
  BY <1>5, <1>6, CutIsTree
<1>8. Path(u, Q, h)
  <2>1. \A m \in Q \ {h} : LastKid(u, m) = LastKid(t, m)
    BY <1>1, <1>5 DEF LastKid
  <2>2. \A m \in Q : u[m].open /\ u[m].parent = t[m].parent
    BY <1>1, <1>4, <1>5 DEF Path
  <2>3. QED
    BY <1>1, <1>5, <2>1, <2>2, KeepPath
<1>9. Shut(u, {})
  <2>1. \A m \in DOMAIN t : Earlier(u, m) \subseteq Earlier(t, m)
    BY <1>5, <1>6, CutKids
  <2>2. \A m \in DOMAIN t : Earlier(t, m) \subseteq DOMAIN t
    BY KidsOf
  <2>3. QED
    BY <1>5, <2>1, <2>2 DEF Shut
<1>10. Slack(u, h, {})
  <2>1. LastKid(u, h) \in Earlier(t, h) \cup {None}
    BY <1>1, <1>5, <1>6, CutKids
  <2>2. ASSUME NEW e \in Earlier(t, h) PROVE e \in DOMAIN t /\ ~t[e].open
    <3>1. t[h].kind \notin Lists
      BY <1>3 DEF General, Lists, Fenced
    <3>2. e \in DOMAIN t
      BY <1>1, KidsOf
    <3>3. QED
      BY <1>1, <3>1, <3>2 DEF Shut
  <2>3. QED
    BY <1>5, <2>1, <2>2 DEF Slack, LastOpen
<1>11. QED
  BY <1>3, <1>4, <1>5, <1>7, <1>8, <1>9, <1>10 DEF Taken, u

\* The list of descriptions below a path is open again
ReopenedAt(t, u, Q, h, l) ==
  /\ u \in Seq(Block) /\ Tree(u) /\ DOMAIN u = DOMAIN t
  /\ Path(u, Q \cup {l}, l) /\ Shut(u, {}) /\ LastKid(u, h) = l
  /\ \A m \in DOMAIN t : u[m].kind = t[m].kind /\ u[m].parent = t[m].parent

LEMMA ReopenList ==
  ASSUME NEW t \in Seq(Block), Tree(t), NEW Q, NEW h, Path(t, Q, h), Shut(t, {}),
         NEW l \in DOMAIN t, l = LastKid(t, h), l # None, t[l].kind = "DescList"
  PROVE  ReopenedAt(t, Reopened(t, l), Q, h, l)
<1> DEFINE u == Reopened(t, l)
           o == [m \in DOMAIN t |-> t[m].open \/ m \in Above(t, l)]
<1>1. h \in DOMAIN t /\ h \in Q /\ Q \subseteq DOMAIN t
  BY DEF Path
<1>2. t[l].parent = h /\ h < l /\ t[l].kind # "Paragraph"
  BY <1>1, KidsOf
<1>3. l \notin Q
  <2>1. l \in Nat /\ h \in Nat
    BY <1>1
  <2>2. QED
    BY <1>2, <2>1, TipIsLast
<1>4. l \in Above(t, l) /\ Above(t, l) \subseteq Q \cup {l}
  <2>1. \A m \in (Q \cup {l}) \cap DOMAIN t : t[m].parent \in (Q \cup {l}) \cup {None}
    BY <1>1, <1>2 DEF Path, Tree, Rooted
  <2>2. QED
    BY <2>1, AboveStays
<1>5. u = [m \in DOMAIN t |-> [t[m] EXCEPT !.open = o[m]]]
  BY DEF Reopened
<1>6. \A m \in DOMAIN t : o[m] \in BOOLEAN /\ (o[m] <=> t[m].open \/ m = l)
  BY <1>1, <1>4 DEF Path
<1> HIDE DEF o, u
<1>7. \A m \in DOMAIN t : /\ u[m] \in Block /\ u[m].kind = t[m].kind /\ u[m].parent = t[m].parent
                          /\ u[m].kids = t[m].kids /\ u[m].open = o[m]
  <2>1. \A m \in DOMAIN t : t[m] \in Block
    OBVIOUS
  <2>2. QED
    BY <1>5, <1>6, <2>1 DEF Block
<1>8. DOMAIN u = DOMAIN t
  BY <1>5
<1>9. u \in Seq(Block)
  <2>1. DOMAIN t = 1..Len(t) /\ Len(t) \in Nat
    OBVIOUS
  <2>2. u \in [DOMAIN t -> Block]
    BY <1>5, <1>7
  <2>3. QED
    BY <2>1, <2>2, SeqDef
<1>10. Tree(u)
  <2>1. Cut(t, u, l)
    BY <1>7, <1>8 DEF Cut
  <2>2. QED
    BY <1>9, <2>1, CutIsTree
<1>11. /\ \A m \in DOMAIN t : LastKid(u, m) = LastKid(t, m)
       /\ \A m \in DOMAIN t : Earlier(u, m) = Earlier(t, m)
  BY <1>7 DEF LastKid, Earlier
<1>12. Path(u, Q \cup {l}, l)
  <2>1. \A m \in Q : u[m].open /\ u[m].parent = t[m].parent
    BY <1>1, <1>6, <1>7 DEF Path
  <2>2. \A m \in Q \ {h} : LastKid(u, m) = LastKid(t, m)
    BY <1>1, <1>11
  <2>3. u[l].open /\ u[l].parent = h /\ LastKid(u, h) = l /\ l \in DOMAIN u /\ Q \subseteq DOMAIN u
    BY <1>1, <1>2, <1>6, <1>7, <1>8, <1>11
  <2>4. QED
    BY <1>2, <1>3, <2>1, <2>2, <2>3, LongerPath
<1>13. Shut(u, {})
  <2>1. SUFFICES ASSUME NEW n \in DOMAIN t, t[n].kind \notin Lists, NEW k \in Earlier(t, n), u[k].open
                 PROVE  FALSE
    BY <1>7, <1>8, <1>11 DEF Shut
  <2>2. k \in DOMAIN t /\ t[k].parent = n /\ k # LastKid(t, n)
    BY KidsOf
  <2>3. k # l
    BY <1>2, <2>2
  <2>4. t[k].open
    BY <1>6, <1>7, <2>1, <2>2, <2>3
  <2>5. QED
    BY <2>1, <2>4 DEF Shut
<1>14. QED
  BY <1>1, <1>7, <1>8, <1>9, <1>10, <1>11, <1>12, <1>13 DEF u, ReopenedAt

\* The paragraph k has become the child of the term
Moved(f, u, term, k) ==
  /\ u \in Seq(Block) /\ DOMAIN u = DOMAIN f
  /\ \A m \in DOMAIN f :
       /\ u[m].kind = f[m].kind /\ u[m].open = f[m].open
       /\ u[m].parent = IF m = k THEN term ELSE f[m].parent
       /\ u[m].kids = IF m = term THEN <<k>> ELSE f[m].kids

LEMMA MoveToTerm ==
  ASSUME NEW f \in Seq(Block), NEW term \in DOMAIN f, NEW k \in DOMAIN f, k # term
  PROVE  Moved(f, [f EXCEPT ![term].kids = <<k>>, ![k].parent = term], term, k)
<1> DEFINE x == [f[term] EXCEPT !.kids = <<k>>]
           y == [f[k] EXCEPT !.parent = term]
           v == [f EXCEPT ![term] = x]
           u == [f EXCEPT ![term].kids = <<k>>, ![k].parent = term]
<1>1. f[term] \in Block /\ f[k] \in Block /\ term \in Nat
  OBVIOUS
<1>2. x \in Block /\ x.kind = f[term].kind /\ x.open = f[term].open /\ x.parent = f[term].parent /\ x.kids = <<k>>
  <2>1. <<k>> \in Seq(Nat)
    OBVIOUS
  <2>2. QED
    BY <1>1, <2>1 DEF Block
<1>3. y \in Block /\ y.kind = f[k].kind /\ y.open = f[k].open /\ y.parent = term /\ y.kids = f[k].kids
  BY <1>1 DEF Block
<1>4. u = [v EXCEPT ![k] = y]
  OBVIOUS
<1> HIDE DEF x, y, u
<1>5. v \in Seq(Block) /\ DOMAIN v = DOMAIN f /\ \A m \in DOMAIN f : v[m] = IF m = term THEN x ELSE f[m]
  BY <1>2, EditBlock
<1> HIDE DEF v
<1>6. u \in Seq(Block) /\ DOMAIN u = DOMAIN v /\ \A m \in DOMAIN v : u[m] = IF m = k THEN y ELSE v[m]
  BY <1>3, <1>4, <1>5, EditBlock
<1>7. Moved(f, u, term, k)
  BY <1>2, <1>3, <1>5, <1>6 DEF Moved
<1>8. QED
  BY <1>7 DEF u

LEMMA TermTakes ==
  ASSUME NEW f \in Seq(Block), Tree(f), NEW P, NEW n \in DOMAIN f, Path(f, P, n), Shut(f, {}),
         f[n].kids = <<>>, NEW term \in DOMAIN f, term # n, term \notin P, f[term].kind = "DescTerm",
         NEW k \in DOMAIN f, f[k].kind = "Paragraph", f[k].parent = None,
         NEW u, Moved(f, u, term, k)
  PROVE  Tree(u) /\ Between(u, P, n) /\ u[n].kids = <<>>
<1>1. /\ u \in Seq(Block) /\ DOMAIN u = DOMAIN f
      /\ \A m \in DOMAIN f :
           /\ u[m].kind = f[m].kind /\ u[m].open = f[m].open
           /\ u[m].parent = IF m = k THEN term ELSE f[m].parent
           /\ u[m].kids = IF m = term THEN <<k>> ELSE f[m].kids
  BY DEF Moved
<1>2. CanContain("DescTerm", "Paragraph")
  BY DEF CanContain, Fenced
<1>3. k # Root /\ k # n /\ \A m \in DOMAIN f : m # None
  <2>1. \A m \in DOMAIN f : m # None
    BY DEF None
  <2>2. k # Root
    BY DEF Tree, Rooted
  <2>3. ASSUME k = n PROVE FALSE
    BY <2>1, <2>2, <2>3 DEF Path
  <2>4. QED
    BY <2>1, <2>2, <2>3
<1>4. k \notin P
  BY <1>3 DEF Path
<1>5. Tree(u)
  <2>1. Rooted(u)
    BY <1>1, <1>3 DEF Tree, Rooted
  <2>2. ParentsHold(u)
    <3>1. ASSUME NEW m \in DOMAIN f, u[m].parent # None
          PROVE  /\ u[m].parent \in DOMAIN u
                 /\ CanContain(u[u[m].parent].kind, u[m].kind)
                 /\ u[m].kind # "Paragraph" => u[m].parent < m
      <4>1. CASE m = k
        BY <1>1, <1>2, <4>1
      <4>2. CASE m # k
        <5>1. u[m].parent = f[m].parent
          BY <1>1, <4>2
        <5>2. /\ f[m].parent \in DOMAIN f
              /\ CanContain(f[f[m].parent].kind, f[m].kind)
              /\ f[m].kind # "Paragraph" => f[m].parent < m
          BY <3>1, <5>1 DEF Tree, ParentsHold
        <5>3. QED
          BY <1>1, <5>1, <5>2
      <4>3. QED
        BY <4>1, <4>2
    <3>2. QED
      BY <1>1, <3>1 DEF ParentsHold
  <2>3. KidsAgree(u)
    <3>1. ASSUME NEW m \in DOMAIN f, m # term
          PROVE  /\ Distinct(u[m].kids)
                 /\ \A i \in DOMAIN u[m].kids : u[m].kids[i] \in DOMAIN u /\ u[u[m].kids[i]].parent = m
      <4>1. u[m].kids = f[m].kids
        BY <1>1, <3>1
      <4>2. Distinct(f[m].kids)
        BY DEF Tree, KidsAgree
      <4>3. ASSUME NEW i \in DOMAIN f[m].kids
            PROVE  f[m].kids[i] \in DOMAIN f /\ f[f[m].kids[i]].parent = m /\ f[m].kids[i] # k
        <5>1. f[m].kids[i] \in DOMAIN f /\ f[f[m].kids[i]].parent = m
          BY DEF Tree, KidsAgree
        <5>2. QED
          BY <1>3, <5>1
      <4>4. QED
        BY <1>1, <4>1, <4>2, <4>3
    <3>2. /\ Distinct(u[term].kids)
          /\ \A i \in DOMAIN u[term].kids : u[term].kids[i] \in DOMAIN u /\ u[u[term].kids[i]].parent = term
      <4>1. u[term].kids = <<k>> /\ DOMAIN <<k>> = {1} /\ <<k>>[1] = k
        BY <1>1
      <4>2. QED
        BY <1>1, <4>1 DEF Distinct
    <3>3. QED
      BY <1>1, <3>1, <3>2 DEF KidsAgree
  <2>4. QED
    BY <2>1, <2>2, <2>3 DEF Tree
<1>6. P \subseteq DOMAIN f
  BY DEF Path
<1>7. Path(u, P, n)
  <2>1. \A m \in P : u[m].open /\ u[m].parent = f[m].parent
    BY <1>1, <1>4, <1>6 DEF Path
  <2>2. \A m \in P \ {n} : LastKid(u, m) = LastKid(f, m)
    BY <1>1, <1>6 DEF LastKid
  <2>3. QED
    BY <1>1, <1>6, <2>1, <2>2, KeepPath
<1>8. Shut(u, {})
  <2>1. Earlier(u, term) = {}
    <3>1. u[term].kids = <<k>> /\ Len(<<k>>) = 1
      BY <1>1
    <3>2. 1..(1 - 1) = {}
      OBVIOUS
    <3>3. QED
      BY <3>1, <3>2 DEF Earlier
  <2>2. \A m \in DOMAIN f \ {term} : Earlier(u, m) = Earlier(f, m)
    BY <1>1 DEF Earlier
  <2>3. \A m \in DOMAIN f : Earlier(f, m) \subseteq DOMAIN f
    BY KidsOf
  <2>4. QED
    BY <1>1, <2>1, <2>2, <2>3 DEF Shut
<1>9. u[n].kids = <<>>
  BY <1>1
<1>10. Between(u, P, n)
  <2>1. LastKid(u, n) = None
    BY <1>9 DEF LastKid
  <2>2. QED
    BY <1>7, <1>8, <2>1 DEF Between, Slack, LastOpen
<1>11. QED
  BY <1>5, <1>9, <1>10

\* f is t with an item below list, a term and details below the item
Itemized(t, f, P, item, term, n) ==
  /\ f \in Seq(Block) /\ Tree(f) /\ DOMAIN f = DOMAIN t \cup {item, term, n}
  /\ Path(f, P, n) /\ Shut(f, {})
  /\ f[term].kind = "DescTerm" /\ term \notin P
  /\ f[n].kids = <<>>
  /\ \A m \in DOMAIN t : f[m].kind = t[m].kind /\ f[m].parent = t[m].parent

LEMMA ItemAdded ==
  ASSUME NEW t \in Seq(Block), Tree(t), NEW Q, NEW list \in DOMAIN t, Path(t, Q, list), Shut(t, {}),
         t[list].kind = "DescList",
         NEW b1, Fresh(b1, "DescItem"), NEW b2, Fresh(b2, "DescTerm"), NEW b3, Fresh(b3, "DescDetails"),
         NEW item, item = Len(t) + 1
  PROVE  \E P : Itemized(t, AddTo(AddTo(AddTo(t, list, b1), item, b2), item, b3), P, item, item + 1, item + 2)
<1> DEFINE t1 == AddTo(t, list, b1)
           t2 == AddTo(t1, item, b2)
           f == AddTo(t2, item, b3)
           Q1 == Q \cup {item}
           Q2 == Q1 \cup {item + 1}
           Q3 == {m \in Q2 : m <= item}
           P == Q3 \cup {item + 2}
<1>1. /\ b1 \in Block /\ b1.kind = "DescItem" /\ b1.open /\ b1.kids = <<>>
      /\ b2 \in Block /\ b2.kind = "DescTerm" /\ b2.open /\ b2.kids = <<>>
      /\ b3 \in Block /\ b3.kind = "DescDetails" /\ b3.open /\ b3.kids = <<>>
  BY DEF Fresh
<1>2. /\ CanContain("DescList", "DescItem") /\ CanContain("DescItem", "DescTerm")
      /\ CanContain("DescItem", "DescDetails") /\ "DescList" \in Lists /\ "DescItem" \in Lists
  BY DEF CanContain, Lists
<1>3. item \in Nat
  OBVIOUS
<1>4. Added(t, t1, Q, {}, list, list, list, b1)
  BY <1>1, <1>2, NonePending, AddedMid
<1> HIDE DEF t1, Q1
<1>5. /\ t1 \in Seq(Block) /\ Tree(t1) /\ Len(t1) = item /\ DOMAIN t1 = DOMAIN t \cup {item}
      /\ Path(t1, Q1, item) /\ Shut(t1, {}) /\ t1[item].kind = "DescItem"
      /\ \A m \in DOMAIN t : t1[m].kind = t[m].kind /\ t1[m].parent = t[m].parent
  BY <1>1, <1>4 DEF Added, Mid, Q1
<1>6. Added(t1, t2, Q1, {}, item, item, item, b2)
  BY <1>1, <1>2, <1>5, NonePending, AddedMid
<1> HIDE DEF t2, Q2
<1>7. /\ t2 \in Seq(Block) /\ Tree(t2) /\ Len(t2) = item + 1 /\ DOMAIN t2 = DOMAIN t1 \cup {item + 1}
      /\ Path(t2, Q2, item + 1) /\ Shut(t2, {}) /\ t2[item].kind = "DescItem" /\ t2[item + 1].kind = "DescTerm"
      /\ \A m \in DOMAIN t1 : t2[m].kind = t1[m].kind /\ t2[m].parent = t1[m].parent
  BY <1>1, <1>5, <1>6 DEF Added, Mid, Q2
<1>8. Path(t2, Q3, item)
  <2>1. item \in Q2
    BY DEF Q1, Q2
  <2>2. QED
    BY <1>7, <2>1, CutPath
<1> HIDE DEF Q3
<1>9. Added(t2, f, Q3, {}, item, item, item, b3)
  <2>1. item \in DOMAIN t2
    BY <1>5, <1>7
  <2>2. QED
    BY <1>1, <1>2, <1>7, <1>8, <2>1, NonePending, AddedMid
<1> HIDE DEF f, P
<1>10. /\ f \in Seq(Block) /\ Tree(f) /\ DOMAIN f = DOMAIN t2 \cup {item + 2}
       /\ Path(f, P, item + 2) /\ Shut(f, {}) /\ f[item + 2].kids = <<>>
       /\ \A m \in DOMAIN t2 : f[m].kind = t2[m].kind /\ f[m].parent = t2[m].parent
  <2>1. (item + 1) + 1 = item + 2
    BY <1>3
  <2>2. QED
    BY <1>7, <1>9, <2>1 DEF Added, Mid, P
<1>11. item + 1 \notin P
  BY <1>3 DEF P, Q3
<1>12. DOMAIN f = DOMAIN t \cup {item, item + 1, item + 2}
  BY <1>5, <1>7, <1>10
<1>13. /\ f[item + 1].kind = "DescTerm"
       /\ \A m \in DOMAIN t : f[m].kind = t[m].kind /\ f[m].parent = t[m].parent
  BY <1>5, <1>7, <1>10
<1>14. Itemized(t, f, P, item, item + 1, item + 2)
  BY <1>10, <1>11, <1>12, <1>13 DEF Itemized
<1>15. QED
  BY <1>14 DEF f, t1, t2

\* Before a marker of descriptions that follows a paragraph no block is unmatched
LEMMA DescribedMatched ==
  ASSUME Typed, Tree(nodes), OpenOK, OpensDescription(scan.rest), NEW Q, NEW U,
         Mid(nodes, Q, U, current, scan.matched, scan.container),
         nodes[LastKid(nodes, TermHolder)].kind = "Paragraph"
  PROVE  current = scan.matched /\ Between(nodes, Q, scan.container)
<1> DEFINE c == scan.container
<1>1. nodes \in Seq(Block) /\ c \in DOMAIN nodes /\ scan.matched \in DOMAIN nodes
  BY DEF Typed
<1>2. ~Blank(scan.rest)
  BY DEF OpensDescription, AtMarker, Blank
<1>3. Path(nodes, Q, c)
  BY DEF Mid
<1>4. \/ ContainerKind = "Paragraph" /\ nodes[c].kids = <<>> /\ LastKid(nodes, c) = None
      \/ TermHolder = c /\ nodes[c].kids # <<>> /\ LastKid(nodes, c) # None
  <2>1. CASE ContainerKind = "Paragraph"
    <3>1. nodes[c].kids = <<>>
      BY <1>1, <2>1, LeavesHoldNone DEF ContainerKind, General, Lists, Fenced
    <3>2. QED
      BY <2>1, <3>1 DEF LastKid
  <2>2. CASE TermHolder = c /\ nodes[c].kids # <<>>
    BY <1>1, <2>2, KidsOf
  <2>3. QED
    BY <1>3, <2>1, <2>2, DescribedBlock
<1>5. SUFFICES ASSUME current # scan.matched PROVE FALSE
  BY NothingPending
<1>6. CASE c = scan.matched
  <2>1. LastKid(nodes, c) \in U /\ U \subseteq DOMAIN nodes
    BY <1>5, <1>6 DEF Mid, Pending
  <2>2. LastKid(nodes, c) # None
    BY <1>1, <2>1 DEF None
  <2>3. nodes[LastKid(nodes, c)].kind = "Paragraph"
    BY <1>4, <2>2
  <2>4. QED
    BY <1>2, <1>5, <1>6, <2>2, <2>3 DEF OpenOK
<1>7. CASE c # scan.matched
  <2>1. ContainerKind = "Paragraph"
    BY <1>4, <1>7 DEF OpenOK
  <2>2. QED
    BY <1>2, <1>5, <1>7, <2>1 DEF OpenOK, General, Verbatim, Fenced
<1>8. QED
  BY <1>6, <1>7

\* The path of u leads to the list of descriptions, with all that t has above it
Listed(t, u, P, list) ==
  /\ u \in Seq(Block) /\ Tree(u) /\ DOMAIN t \subseteq DOMAIN u
  /\ list \in DOMAIN u /\ u[list].kind = "DescList"
  /\ Path(u, P, list) /\ Shut(u, {})
  /\ \A m \in DOMAIN t : u[m].kind = t[m].kind /\ u[m].parent = t[m].parent

LEMMA ListFound ==
  ASSUME NEW t \in Seq(Block), Tree(t), NEW Q, NEW h, Path(t, Q, h), Shut(t, {}), Slack(t, h, {}),
         t[h].kind \in General, NEW b, Fresh(b, "DescList"), NEW l, l = LastKid(t, h), NEW u,
         u = IF l # None /\ t[l].kind = "DescList" THEN Reopened(t, l) ELSE AddTo(t, h, b)
  PROVE  \E P : Listed(t, u, P, LastKid(u, h))
<1>1. h \in DOMAIN t
  BY DEF Path
<1>2. CASE l # None /\ t[l].kind = "DescList"
  <2>1. u = Reopened(t, l) /\ l \in DOMAIN t
    BY <1>1, <1>2, KidsOf
  <2>2. ReopenedAt(t, Reopened(t, l), Q, h, l)
    BY <1>2, <2>1, ReopenList
  <2>3. Listed(t, u, Q \cup {l}, LastKid(u, h))
    BY <1>2, <2>1, <2>2 DEF Listed, ReopenedAt
  <2>4. QED
    BY <2>3
<1>3. CASE ~(l # None /\ t[l].kind = "DescList")
  <2> DEFINE n == Len(t) + 1
  <2>1. u = AddTo(t, h, b) /\ b \in Block /\ b.kind = "DescList" /\ b.open /\ b.kids = <<>>
    BY <1>3 DEF Fresh
  <2>2. CanContain(t[h].kind, b.kind)
    BY <2>1, WhatHoldsWhat
  <2>3. Added(t, u, Q, {}, h, h, h, b)
    BY <1>1, <2>1, <2>2, NonePending, AddedMid
  <2>4. /\ u \in Seq(Block) /\ Tree(u) /\ DOMAIN u = DOMAIN t \cup {n}
        /\ Path(u, Q \cup {n}, n) /\ Shut(u, {}) /\ u[n].kind = "DescList" /\ LastKid(u, h) = n
        /\ \A m \in DOMAIN t : u[m].kind = t[m].kind /\ u[m].parent = t[m].parent
    BY <2>1, <2>3 DEF Added, Mid
  <2>5. Listed(t, u, Q \cup {n}, LastKid(u, h))
    BY <2>4 DEF Listed
  <2>6. QED
    BY <2>5
<1>4. QED
  BY <1>2, <1>3

\* The tree after the marker, and the path to the details
Describes(t, P, old, n) ==
  /\ t \in Seq(Block) /\ Tree(t) /\ Between(t, P, n) /\ t[n].kids = <<>> /\ n \in DOMAIN t
  /\ DOMAIN old \subseteq DOMAIN t /\ \A m \in DOMAIN old : m < n

LEMMA DescribeParagraphKeeps == ASSUME Inv, DescribeParagraph PROVE Inv'
<1> DEFINE c == scan.container
           h == TermHolder
           para == LastKid(nodes, h)
           cut == Detached(nodes, para)
           l == LastKid(cut, h)
           b0 == NewNode("DescList", "", 0, 0)
           listed == IF l # None /\ cut[l].kind = "DescList" THEN Reopened(cut, l) ELSE AddTo(cut, h, b0)
           list == LastKid(listed, h)
           item == Len(listed) + 1
           b1 == NewNode("DescItem", "", Indent(scan.rest), 1)
           b2 == NewNode("DescTerm", "", 0, 0)
           b3 == NewNode("DescDetails", "", 0, 0)
           full == AddTo(AddTo(AddTo(listed, list, b1), item, b2), item, b3)
           rest == After(scan.rest)
<1>1. Typed /\ Tree(nodes) /\ PathOK
  BY DEF Inv
<1>2. scan.pc = "open" /\ OpensDescription(scan.rest) /\ nodes[para].kind = "Paragraph"
  BY DEF DescribeParagraph, Opening
<1>3. /\ nodes' = [full EXCEPT ![item + 1].kids = <<para>>, ![para].parent = item + 1]
      /\ scan' = [scan EXCEPT !.container = item + 2, !.lazy = FALSE, !.rest = rest]
      /\ UNCHANGED <<refs, panicked, current, lineNo>>
  BY DEF DescribeParagraph
<1>4. PICK Q, U : Mid(nodes, Q, U, current, scan.matched, c)
  BY <1>1, <1>2 DEF PathOK
<1>5. current = scan.matched /\ Between(nodes, Q, c)
  BY <1>1, <1>2, <1>4, DescribedMatched DEF PathOK
<1>6. /\ nodes \in Seq(Block) /\ scan \in Scan /\ c \in DOMAIN nodes /\ scan.matched \in DOMAIN nodes
      /\ current \in DOMAIN nodes /\ lineNo \in Nat
  BY <1>1, MaxLinesIsNat DEF Typed
<1>7. Path(nodes, Q, c) /\ Shut(nodes, {})
  BY <1>5 DEF Between
<1>8. h \in Q /\ para \in DOMAIN nodes /\ para # Root
  BY <1>1, <1>2, <1>7, DescribedBlock
<1>9. /\ Fresh(b0, "DescList") /\ Fresh(b1, "DescItem") /\ Fresh(b2, "DescTerm") /\ Fresh(b3, "DescDetails")
  <2>1. {"DescList", "DescItem", "DescTerm", "DescDetails"} \subseteq Kinds /\ "" \in Word
    BY DEF Kinds, Word
  <2>2. Indent(scan.rest) \in Nat /\ 1 \in Nat /\ 0 \in Nat
    BY <1>1, RestIsLine, LineIsSeq
  <2>3. lineNo \in Nat
    BY <1>6
  <2>4. Fresh(b0, "DescList")
    BY <2>1, <2>2, <2>3, NewNodeIsFresh
  <2>5. Fresh(b1, "DescItem")
    BY <2>1, <2>2, <2>3, NewNodeIsFresh
  <2>6. Fresh(b2, "DescTerm")
    BY <2>1, <2>2, <2>3, NewNodeIsFresh
  <2>7. Fresh(b3, "DescDetails")
    BY <2>1, <2>2, <2>3, NewNodeIsFresh
  <2>8. QED
    BY <2>4, <2>5, <2>6, <2>7
<1> HIDE DEF b0, b1, b2, b3
<1> DEFINE Q0 == {m \in Q : m <= h}
<1>10. Path(nodes, Q0, h)
  BY <1>6, <1>7, <1>8, CutPath
<1>11. nodes[h].kind \in General /\ Taken(nodes, cut, Q0, h, para)
  <2>1. para # None
    BY <1>6, <1>8 DEF None
  <2> HIDE DEF Q0, h
  <2>2. QED
    BY <1>1, <1>2, <1>6, <1>7, <1>8, <1>10, <2>1, TakeLast
<1> HIDE DEF Q0
<1>12. h \in DOMAIN nodes
  BY <1>10 DEF Path
<1> HIDE DEF h, para, cut
<1>13. /\ cut \in Seq(Block) /\ Tree(cut) /\ DOMAIN cut = DOMAIN nodes
       /\ Path(cut, Q0, h) /\ Shut(cut, {}) /\ Slack(cut, h, {}) /\ cut[h].kind \in General
       /\ cut[para].parent = None /\ cut[para].kind = "Paragraph"
  BY <1>2, <1>8, <1>11, <1>12 DEF Taken
<1>14. PICK P1 : Listed(cut, listed, P1, list)
  BY <1>9, <1>13, ListFound
<1> HIDE DEF l, listed, list
<1>15. /\ listed \in Seq(Block) /\ Tree(listed) /\ DOMAIN cut \subseteq DOMAIN listed
       /\ list \in DOMAIN listed /\ listed[list].kind = "DescList"
       /\ Path(listed, P1, list) /\ Shut(listed, {})
       /\ listed[para].kind = "Paragraph" /\ listed[para].parent = None
  BY <1>8, <1>13, <1>14 DEF Listed
<1>16. PICK P : Itemized(listed, full, P, item, item + 1, item + 2)
  BY <1>9, <1>15, ItemAdded
<1>17. /\ item \in Nat /\ \A m \in DOMAIN listed : m < item
  BY <1>15
<1> HIDE DEF item, full
<1>18. /\ full \in Seq(Block) /\ Tree(full) /\ DOMAIN full = DOMAIN listed \cup {item, item + 1, item + 2}
       /\ Path(full, P, item + 2) /\ Shut(full, {})
       /\ full[item + 1].kind = "DescTerm" /\ item + 1 \notin P /\ full[item + 2].kids = <<>>
       /\ full[para].kind = "Paragraph" /\ full[para].parent = None /\ para \in DOMAIN full
       /\ para # item + 1
  <2>1. para \in DOMAIN listed /\ para < item
    BY <1>8, <1>13, <1>15, <1>17
  <2>2. para # item + 1
    BY <1>17, <2>1
  <2>3. QED
    BY <1>15, <1>16, <2>1, <2>2 DEF Itemized
<1>19. Moved(full, nodes', item + 1, para)
  BY <1>3, <1>18, MoveToTerm
<1>20. Tree(nodes') /\ Between(nodes', P, item + 2) /\ nodes'[item + 2].kids = <<>>
  <2>1. item + 1 \in DOMAIN full /\ item + 2 \in DOMAIN full /\ item + 1 # item + 2
    BY <1>17, <1>18
  <2>2. QED
    BY <1>18, <1>19, <2>1, TermTakes
<1> DEFINE n == item + 2
<1>21. Describes(nodes', P, nodes, n)
  <2>1. nodes' \in Seq(Block) /\ DOMAIN nodes' = DOMAIN full
    BY <1>19 DEF Moved
  <2>2. DOMAIN nodes \subseteq DOMAIN listed
    BY <1>13, <1>15
  <2>3. \A m \in DOMAIN nodes : m < n
    BY <1>15, <1>17, <2>2
  <2>4. QED
    BY <1>18, <1>20, <2>1, <2>2, <2>3 DEF Describes
<1>22. n \in Nat
  BY <1>17
<1> HIDE DEF n
<1>23. /\ nodes' \in Seq(Block) /\ Tree(nodes') /\ Between(nodes', P, n) /\ nodes'[n].kids = <<>>
       /\ n \in DOMAIN nodes' /\ DOMAIN nodes \subseteq DOMAIN nodes' /\ scan.matched < n
  BY <1>6, <1>21 DEF Describes
<1>24. /\ scan' \in Scan /\ scan'.pc = "open" /\ scan'.container = n /\ scan'.matched = scan.matched
  <2>1. rest \in Seq(Word)
    BY <1>1, RestIsLine, LineIsSeq
  <2> HIDE DEF rest
  <2>2. scan' = [scan EXCEPT !.container = n, !.lazy = FALSE, !.rest = rest]
    BY <1>3 DEF n
  <2>3. QED
    BY <1>2, <1>6, <1>22, <2>1, <2>2 DEF Scan
<1>25. Typed'
  <2>1. {current', scan'.container, scan'.matched} \subseteq DOMAIN nodes'
    BY <1>3, <1>6, <1>23, <1>24
  <2>2. QED
    BY <1>1, <1>3, <1>23, <1>24, <2>1, TypedStep DEF Typed
<1>26. Mid(nodes', P, {}, current', scan'.matched, scan'.container)
  <2>1. Pending(nodes', P, {}, scan.matched, scan.matched, n)
    BY NonePending
  <2>2. Mid(nodes', P, {}, scan.matched, scan.matched, n)
    BY <1>23, <2>1 DEF Between, Mid
  <2>3. QED
    BY <1>3, <1>5, <1>24, <2>2
<1>27. OpenOK'
  <2>1. current' = scan'.matched
    BY <1>3, <1>5, <1>24
  <2>2. scan'.matched < scan'.container /\ nodes'[scan'.container].kids = <<>>
    BY <1>23, <1>24
  <2>3. QED
    BY <2>1, <2>2 DEF OpenOK
<1>28. PathOK'
  BY <1>24, <1>26, <1>27 DEF PathOK
<1>29. QED
  BY <1>23, <1>25, <1>28 DEF Inv

(***************************************************************************)
(* Every step                                                              *)
(***************************************************************************)
LEMMA StutterKeeps == ASSUME Inv, UNCHANGED vars PROVE Inv'
<1>1. UNCHANGED <<nodes, refs, panicked, current, scan, lineNo>>
  BY DEF vars
<1>2. Typed' /\ Tree(nodes)'
  BY <1>1 DEF Inv, Typed
<1>3. PathOK'
  BY <1>1 DEF Inv, PathOK, OpenOK, AddOK, NewOK, ContainerKind
<1>4. QED
  BY <1>2, <1>3 DEF Inv

LEMMA NextKeeps == Inv /\ [Next]_vars => Inv'
<1> SUFFICES ASSUME Inv, [Next]_vars PROVE Inv'
  OBVIOUS
<1>1. CASE \E line \in Lines : StartLine(line)
  BY <1>1, StartLineKeeps
<1>2. CASE EndOfInput
  BY <1>2, EndOfInputKeeps
<1>3. CASE Match
  BY <1>3, AllMatchedKeeps, MatchBlockKeeps, NotMatchedKeeps, CloseFenceKeeps DEF Match
<1>4. CASE OpenBlocks
  BY <1>4, OpenFenceKeeps, OpenBlockQuoteKeeps, OpenHeadingKeeps, OpenCommentKeeps,
     OpenHtmlBlockKeeps, SetextHeadingKeeps, OpenThematicBreakKeeps, OpenFootnoteKeeps,
     DescribeParagraphKeeps, DescribeAgainKeeps, OpenItemKeeps, OpenIndentedCodeKeeps,
     NothingOpensKeeps DEF OpenBlocks
<1>5. CASE AddBlock
  BY <1>5, CloseToFitKeeps, AddChildKeeps DEF AddBlock
<1>6. CASE AddText
  BY <1>6, MarkBlanksKeeps, CloseUnmatchedKeeps, AllClosedKeeps, StoreLineKeeps,
     StoreCommentEndKeeps DEF AddText
<1>7. CASE CloseAtEnd
  BY <1>7, CloseAtEndKeeps
<1>8. CASE UNCHANGED vars
  BY <1>8, StutterKeeps
<1>9. QED
  BY <1>1, <1>2, <1>3, <1>4, <1>5, <1>6, <1>7, <1>8 DEF Next, Step, Done

\* Whatever the lines: between any two steps of process_line the tree is one validate() accepts,
\* every block that finalize and add_line are given is still open, and no climb passes the root;
\* and between two lines the last open children lead from the root to the parser's current.
THEOREM StaysWellFormed == Spec => []WellFormed
<1>1. Init => Inv
  BY InitInv
<1>2. Inv /\ [Next]_vars => Inv'
  BY NextKeeps
<1>3. Inv => WellFormed
  BY InvIsWellFormed
<1>4. QED
  BY <1>1, <1>2, <1>3, PTL DEF Spec

(***************************************************************************)
(* What is open is in one piece                                            *)
(***************************************************************************)
\* Apart from the blocks of U, an open block is the last child of an open one
Snug(t, U) ==
  \A n \in DOMAIN t \ {Root} : t[n].open /\ n \notin U =>
    t[n].parent # None /\ t[t[n].parent].open /\ LastKid(t, t[n].parent) = n

LEMMA SnugMore ==
  ASSUME NEW t, NEW U, NEW V, Snug(t, U), U \subseteq V
  PROVE  Snug(t, V)
BY DEF Snug

LEMMA SameShapeSnug ==
  ASSUME NEW t \in Seq(Block), NEW u \in Seq(Block), Tree(t), SameShape(t, u), NEW U, Snug(t, U)
  PROVE  Snug(u, U)
<1>1. /\ DOMAIN u = DOMAIN t
      /\ \A m \in DOMAIN t : u[m].parent = t[m].parent /\ (u[m].open <=> t[m].open)
  BY DEF SameShape
<1>2. \A n \in DOMAIN t : LastKid(u, n) = LastKid(t, n)
  BY SameShapeKeeps
<1>3. \A n \in DOMAIN t : t[n].parent # None => t[n].parent \in DOMAIN t
  BY DEF Tree, ParentsHold
<1>4. QED
  BY <1>1, <1>2, <1>3 DEF Snug

LEMMA PrunedSnug ==
  ASSUME NEW t \in Seq(Block), Tree(t), NEW u, NEW n \in DOMAIN t, Pruned(t, u, n), NEW U, Snug(t, U),
         LastOpen(t, n) => LastKid(t, n) \in U
  PROVE  Snug(u, U \ {n})
<1> SUFFICES ASSUME NEW m \in DOMAIN u \ {Root}, u[m].open, m \notin U \ {n}
             PROVE  u[m].parent # None /\ u[u[m].parent].open /\ LastKid(u, u[m].parent) = m
  BY DEF Snug
<1>1. m \in DOMAIN t /\ t[m].open /\ m # n /\ u[m].parent = t[m].parent
  BY DEF Pruned
<1> DEFINE p == t[m].parent
<1>2. p # None /\ t[p].open /\ LastKid(t, p) = m
  BY <1>1 DEF Snug
<1>3. p \in DOMAIN t
  BY <1>1, <1>2 DEF Tree, ParentsHold
<1>4. p # n
  <2> SUFFICES ASSUME p = n PROVE FALSE
    OBVIOUS
  <2>0. m # None
    BY <1>1 DEF None
  <2>1. LastOpen(t, n) /\ LastKid(t, n) = m
    BY <1>1, <1>2, <2>0, KidsOf
  <2>2. QED
    BY <1>1, <2>1
<1> HIDE DEF p
<1>5. u[p].open /\ LastKid(u, p) = m
  BY <1>1, <1>2, <1>3, <1>4 DEF Pruned
<1>6. QED
  BY <1>1, <1>2, <1>5 DEF p

LEMMA GrownSnug ==
  ASSUME NEW t \in Seq(Block), Tree(t), NEW c \in DOMAIN t, NEW u \in Seq(Block), NEW n,
         Grown(t, u, c, n), u[n].kids = <<>>, t[c].open, NEW U, Slack(t, c, U), Snug(t, U)
  PROVE  Snug(u, U)
<1> SUFFICES ASSUME NEW m \in DOMAIN u \ {Root}, u[m].open, m \notin U
             PROVE  u[m].parent # None /\ u[u[m].parent].open /\ LastKid(u, u[m].parent) = m
  BY DEF Snug
<1>1. /\ DOMAIN u = DOMAIN t \cup {n} /\ u[n].parent = c /\ n \notin DOMAIN t
      /\ \A k \in DOMAIN t : u[k].parent = t[k].parent /\ u[k].open = t[k].open
  BY DEF Grown
<1>2. /\ \A k \in DOMAIN t \ {c} : LastKid(u, k) = LastKid(t, k)
      /\ LastKid(u, c) = n
  BY GrownKids
<1>3. c # None
  BY DEF None
<1>4. CASE m = n
  BY <1>1, <1>2, <1>3, <1>4
<1>5. CASE m # n
  <2> DEFINE p == t[m].parent
  <2>1. m \in DOMAIN t /\ t[m].open /\ u[m].parent = p
    BY <1>1, <1>5
  <2>2. p # None /\ t[p].open /\ LastKid(t, p) = m
    BY <2>1 DEF Snug
  <2>3. p \in DOMAIN t
    BY <2>1, <2>2 DEF Tree, ParentsHold
  <2> HIDE DEF p
  <2>4. p # c
    <3> SUFFICES ASSUME p = c PROVE FALSE
      OBVIOUS
    <3>0. m # None
      BY <2>1 DEF None
    <3>1. LastOpen(t, c) /\ LastKid(t, c) = m
      BY <2>1, <2>2, <2>3, <3>0, KidsOf
    <3>2. QED
      BY <3>1 DEF Slack
  <2>5. QED
    BY <1>1, <1>2, <2>1, <2>2, <2>3, <2>4
<1>6. QED
  BY <1>4, <1>5

\* What is unmatched below the container is in one piece with it
LEMMA JoinSnug ==
  ASSUME NEW t \in Seq(Block), NEW Q, NEW U, NEW cur, NEW c,
         Mid(t, Q, U, cur, c, c), Snug(t, U)
  PROVE  Snug(t, {})
<1> SUFFICES ASSUME NEW m \in DOMAIN t \ {Root}, t[m].open
             PROVE  t[m].parent # None /\ t[t[m].parent].open /\ LastKid(t, t[m].parent) = m
  BY DEF Snug
<1>1. CASE m \in U
  <2>1. t[m].parent \in U \cup {c} /\ LastKid(t, t[m].parent) = m /\ U \subseteq DOMAIN t
    BY <1>1 DEF Mid, Pending
  <2>2. t[c].open /\ c \in DOMAIN t /\ \A k \in U : t[k].open
    BY DEF Mid, Path, Pending
  <2>3. \A k \in DOMAIN t : k # None
    BY DEF None
  <2>4. QED
    BY <2>1, <2>2, <2>3
<1>2. CASE m \notin U
  BY <1>2 DEF Snug
<1>3. QED
  BY <1>1, <1>2

\* A set of blocks has a last one
LEMMA LastBlock ==
  ASSUME NEW t \in Seq(Block), NEW S \in SUBSET (DOMAIN t), S # {}
  PROVE  \E m \in S : \A k \in S : k <= m
<1>1. DOMAIN t = 1..Len(t) /\ Len(t) \in Nat
  OBVIOUS
<1>2. S \in SUBSET Nat /\ \A k \in S : k <= Len(t)
  BY <1>1
<1>3. QED
  BY <1>1, <1>2, LastExists

\* The blocks unmatched before a step are so after it, as long as they are where they were
LEMMA StillPending ==
  ASSUME NEW t \in Seq(Block), Tree(t), NEW u,
         NEW P, NEW Q, NEW U, NEW V, NEW cur, NEW m0, NEW c, NEW e,
         Pending(t, P, U, cur, m0, c), Pending(u, Q, V, cur, m0, e),
         \A k \in U : u[k].parent = t[k].parent
  PROVE  U \subseteq V
<1> SUFFICES ASSUME U \ V # {} PROVE FALSE
  OBVIOUS
<1>1. U \subseteq DOMAIN t
  BY DEF Pending
<1>2. PICK m \in U \ V : \A k \in U \ V : k <= m
  <2>1. U \ V \in SUBSET (DOMAIN t)
    BY <1>1
  <2>2. QED
    BY <2>1, LastBlock
<1>3. m # cur /\ m # m0
  BY <1>2 DEF Pending
<1> DEFINE k == LastKid(t, m)
<1>4. k \in U /\ m < k
  BY <1>2, <1>3 DEF Pending
<1>5. k \in V
  <2>1. ~(k <= m)
    BY <1>1, <1>2, <1>4
  <2>2. QED
    BY <1>2, <1>4, <2>1
<1>6. t[k].parent = m
  <2>1. m \in DOMAIN t /\ k # None
    BY <1>1, <1>2, <1>4 DEF None
  <2>2. QED
    BY <2>1, KidsOf
<1> HIDE DEF k
<1>7. u[k].parent \in V \cup {m0}
  BY <1>5 DEF Pending
<1>8. QED
  BY <1>2, <1>3, <1>4, <1>6, <1>7

\* The last of the unmatched blocks is closed
Climbs(t, u, U, cur, p, S) ==
  p = t[cur].parent /\ S = U \ {cur} /\ \A k \in S : u[k].parent = t[k].parent

LEMMA ClimbPending ==
  ASSUME NEW t \in Seq(Block), Tree(t), NEW u,
         NEW P, NEW Q, NEW U, NEW V, NEW cur, NEW m0, NEW c, NEW e,
         NEW p, NEW S, Climbs(t, u, U, cur, p, S), Pending(t, P, U, cur, m0, c),
         Pending(u, Q, V, p, m0, e)
  PROVE  S \subseteq V
<1>0. p = t[cur].parent /\ S = U \ {cur} /\ \A k \in S : u[k].parent = t[k].parent
  BY DEF Climbs
<1> SUFFICES ASSUME (U \ {cur}) \ V # {} PROVE FALSE
  BY <1>0
<1>1. U \subseteq DOMAIN t
  BY DEF Pending
<1>2. PICK m \in (U \ {cur}) \ V : \A k \in (U \ {cur}) \ V : k <= m
  <2>1. (U \ {cur}) \ V \in SUBSET (DOMAIN t)
    BY <1>1
  <2>2. QED
    BY <2>1, LastBlock
<1>3. m # cur /\ m # m0 /\ m # p
  BY <1>2 DEF Pending
<1> DEFINE k == LastKid(t, m)
<1>4. k \in U /\ m < k
  BY <1>2, <1>3 DEF Pending
<1>5. t[k].parent = m
  <2>1. m \in DOMAIN t /\ k # None
    BY <1>1, <1>2, <1>4 DEF None
  <2>2. QED
    BY <2>1, KidsOf
<1>6. k # cur
  BY <1>0, <1>3, <1>5
<1>7. k \in V
  <2>1. ~(k <= m)
    BY <1>1, <1>2, <1>4
  <2>2. QED
    BY <1>2, <1>4, <1>6, <2>1
<1> HIDE DEF k
<1>8. u[k].parent \in V \cup {m0}
  BY <1>7 DEF Pending
<1>9. QED
  BY <1>0, <1>2, <1>3, <1>4, <1>5, <1>6, <1>8

\* Every open block is on the path
LEMMA AllOnPath ==
  ASSUME NEW t \in Seq(Block), Tree(t), NEW Q, NEW tip, Path(t, Q, tip), Slack(t, tip, {}), Snug(t, {}),
         NEW n \in DOMAIN t, t[n].open
  PROVE  n \in Q
<1>1. Q \subseteq DOMAIN t /\ Root \in Q /\ tip \in Q /\ \A m \in Q \ {tip} : LastKid(t, m) \in Q
  BY DEF Path
<1>2. ASSUME NEW k \in DOMAIN t \ {Root}, t[k].open, t[k].parent \in Q
      PROVE  k \in Q
  <2> DEFINE p == t[k].parent
  <2>1. LastKid(t, p) = k
    BY <1>2 DEF Snug
  <2>2. p # tip
    <3> SUFFICES ASSUME p = tip PROVE FALSE
      OBVIOUS
    <3>1. LastOpen(t, tip)
      BY <1>1, <1>2, <2>1, KidsOf DEF None
    <3>2. QED
      BY <3>1 DEF Slack
  <2>3. QED
    BY <1>1, <1>2, <2>1, <2>2
<1>3. \A k \in DOMAIN t \ {Root} :
        t[k].open => /\ t[k].parent \in DOMAIN t /\ t[t[k].parent].open
                     /\ CanContain(t[t[k].parent].kind, t[k].kind)
                     /\ t[k].kind # "Paragraph" => t[k].parent < k
  BY DEF Snug, Tree, ParentsHold
<1>4. \A k \in DOMAIN t \ {Root} : t[k].open => t[t[k].parent].kind # "Paragraph"
  BY <1>3, WhatHoldsWhat DEF General, Lists, Fenced
<1> DEFINE S == {k \in DOMAIN t : t[k].open /\ t[k].kind # "Paragraph" /\ k \notin Q}
<1>5. S = {}
  <2> SUFFICES ASSUME S # {} PROVE FALSE
    OBVIOUS
  <2>1. S \in SUBSET Nat
    OBVIOUS
  <2>2. PICK k \in S : \A e \in S : k <= e
    BY <2>1, FirstExists
  <2>3. k # Root
    BY <1>1
  <2>4. t[k].parent \in DOMAIN t /\ t[t[k].parent].open /\ t[k].parent < k /\ t[t[k].parent].kind # "Paragraph"
    BY <1>3, <1>4, <2>3
  <2>5. ~(k <= t[k].parent)
    BY <2>1, <2>4
  <2>6. t[k].parent \in Q
    BY <2>2, <2>4, <2>5
  <2>7. QED
    BY <1>2, <2>3, <2>6
<1>6. CASE t[n].kind # "Paragraph"
  BY <1>5, <1>6
<1>7. CASE t[n].kind = "Paragraph"
  <2>1. n # Root
    BY <1>7 DEF Tree, Rooted
  <2>2. t[n].parent \in Q
    BY <1>3, <1>4, <1>5, <2>1
  <2>3. QED
    BY <1>2, <2>1, <2>2
<1>8. QED
  BY <1>6, <1>7

\* Once the root is closed everything is
LEMMA NoneOpen ==
  ASSUME NEW t \in Seq(Block), Tree(t), Snug(t, {}), ~t[Root].open
  PROVE  \A n \in DOMAIN t : ~t[n].open
<1>1. \A k \in DOMAIN t :
        t[k].open => /\ k # Root /\ t[k].parent \in DOMAIN t /\ t[t[k].parent].open
                     /\ CanContain(t[t[k].parent].kind, t[k].kind)
                     /\ t[k].kind # "Paragraph" => t[k].parent < k
  BY DEF Snug, Tree, ParentsHold
<1>2. \A k \in DOMAIN t : t[k].open => t[t[k].parent].kind # "Paragraph"
  BY <1>1, WhatHoldsWhat DEF General, Lists, Fenced
<1> DEFINE S == {k \in DOMAIN t : t[k].open /\ t[k].kind # "Paragraph"}
<1>3. S = {}
  <2> SUFFICES ASSUME S # {} PROVE FALSE
    OBVIOUS
  <2>1. S \in SUBSET Nat
    OBVIOUS
  <2>2. PICK k \in S : \A e \in S : k <= e
    BY <2>1, FirstExists
  <2>3. t[k].parent \in S /\ t[k].parent < k
    BY <1>1, <1>2
  <2>4. ~(k <= t[k].parent)
    BY <2>1, <2>3
  <2>5. QED
    BY <2>2, <2>3, <2>4
<1>4. QED
  BY <1>1, <1>2, <1>3

-----------------------------------------------------------------------------
(***************************************************************************)
(* Definitions                                                             *)
(***************************************************************************)
Begins(b) == Definitions(b.wrote) > 0

\* A block that can hold definitions, and one whose definitions are still to be resolved
IsText(b) == b.kind = "Paragraph" \/ b.tag = "setext"
Unread(b) == b.kind = "Paragraph" /\ b.open /\ b.tag # "setext"

\* Definitions at the beginning are seen in the first line
LEMMA FirstLineBegins ==
  ASSUME NEW w \in Content
  PROVE  Definitions(w) > 0 <=> w # <<>> /\ w[1][2] = "r"
<1> DEFINE I == {i \in 1..Len(w) : w[i][2] # "r"}
           k == IF I # {} THEN Min(I) ELSE 0
<1>1. Len(w) \in Nat /\ I \in SUBSET (1..Len(w)) /\ (w = <<>> <=> Len(w) = 0)
  BY DEF Content
<1>2. Definitions(w) = IF k = 0 THEN Len(w) ELSE k - 1
  BY DEF Definitions, SelectInSeq
<1>3. IF I # {} THEN k \in I /\ \A i \in I : k <= i ELSE k = 0
  <2>1. CASE I # {}
    <3>1. I \in SUBSET Nat
      BY <1>1
    <3> HIDE DEF I
    <3>2. \E d \in I : \A e \in I : d <= e
      BY <2>1, <3>1, FirstExists
    <3>3. k = Min(I)
      BY <2>1
    <3> HIDE DEF k
    <3>4. k \in I /\ \A i \in I : k <= i
      BY <3>2, <3>3 DEF Min
    <3>5. QED
      BY <2>1, <3>4
  <2>2. QED
    BY <2>1
<1> HIDE DEF k
<1>4. CASE I = {}
  <2>1. Definitions(w) = Len(w)
    BY <1>2, <1>3, <1>4
  <2>2. Len(w) > 0 => 1 \in 1..Len(w)
    BY <1>1
  <2>3. Len(w) > 0 => w[1][2] = "r"
    BY <1>4, <2>2
  <2>4. QED
    BY <1>1, <2>1, <2>3
<1>5. CASE I # {}
  <2>1. k \in 1..Len(w) /\ w[k][2] # "r" /\ Definitions(w) = k - 1
    BY <1>1, <1>2, <1>3, <1>5
  <2>2. 1 \in 1..Len(w)
    BY <1>1, <2>1
  <2>3. w[1][2] # "r" => k = 1
    BY <1>1, <1>3, <1>5, <2>1, <2>2
  <2>4. k = 1 => w[1][2] # "r"
    BY <2>1
  <2>5. QED
    BY <1>1, <2>1, <2>3, <2>4
<1>6. QED
  BY <1>4, <1>5

LEMMA NothingBegins == Definitions(<<>>) = 0 /\ <<>> \in Content
<1>1. <<>> \in Content
  BY DEF Content
<1>2. Definitions(<<>>) \in 0..Len(<<>>) /\ Len(<<>>) = 0
  BY <1>1, DefinitionsBegin
<1>3. QED
  BY <1>1, <1>2

\* One more line changes the first line only where there was none
LEMMA LongerBegins ==
  ASSUME NEW w \in Content, NEW x \in (0..MaxLines) \X Word
  PROVE  /\ Append(w, x) \in Content /\ Append(w, x) # <<>>
         /\ w # <<>> => Append(w, x)[1] = w[1] /\ (Definitions(Append(w, x)) > 0 <=> Definitions(w) > 0)
         /\ w = <<>> => Append(w, x)[1] = x
         /\ \A i \in DOMAIN Append(w, x) : Append(w, x)[i] = x \/ (i \in DOMAIN w /\ Append(w, x)[i] = w[i])
<1> DEFINE v == Append(w, x)
<1>1. v \in Content /\ Len(v) = Len(w) + 1 /\ Len(w) \in Nat
  BY DEF Content
<1>2. /\ \A i \in 1..Len(w) : v[i] = w[i]
      /\ v[Len(w) + 1] = x /\ DOMAIN v = 1..(Len(w) + 1) /\ DOMAIN w = 1..Len(w)
  BY DEF Content
<1>3. v # <<>> /\ (w = <<>> <=> Len(w) = 0)
  BY <1>1 DEF Content
<1> HIDE DEF v
<1>4. w # <<>> => v[1] = w[1]
  BY <1>1, <1>2, <1>3
<1>5. w = <<>> => v[1] = x
  BY <1>1, <1>2, <1>3
<1>6. w # <<>> => (Definitions(v) > 0 <=> Definitions(w) > 0)
  BY <1>1, <1>3, <1>4, FirstLineBegins
<1>7. ASSUME NEW i \in DOMAIN v PROVE v[i] = x \/ (i \in DOMAIN w /\ v[i] = w[i])
  BY <1>1, <1>2
<1>8. QED
  BY <1>1, <1>3, <1>4, <1>5, <1>6, <1>7 DEF v

\* The content of the blocks: l lines have been read, and the map holds the definition of line r
Numbered(t, l) == \A n \in DOMAIN t : \A i \in DOMAIN t[n].wrote : t[n].wrote[i][1] \in 1..l

OneOpen(t) ==
  \A n, m \in DOMAIN t :
    /\ t[n].kind = "Paragraph" /\ t[n].open /\ t[m].kind = "Paragraph" /\ t[m].open => n = m

Kept(t, r) ==
  \A n \in DOMAIN t :
    /\ Unread(t[n]) => t[n].lines = t[n].wrote
    /\ t[n].tag = "setext" => t[n].wrote # <<>> /\ (t[n].kind = "Paragraph" => r # None)
    /\ IsText(t[n]) /\ Begins(t[n]) /\ ~Unread(t[n]) => r # None

FirstOf(t, r) ==
  r # None =>
    /\ \A n \in DOMAIN t : IsText(t[n]) /\ Begins(t[n]) => r <= t[n].wrote[1][1]
    /\ \E n \in DOMAIN t : IsText(t[n]) /\ Begins(t[n]) /\ ~Unread(t[n]) /\ t[n].wrote[1][1] = r

Defined(t, r, l) == Numbered(t, l) /\ OneOpen(t) /\ Kept(t, r) /\ FirstOf(t, r)

\* Blocks with the same content
SameContent(b, e) ==
  /\ e.kind = b.kind /\ e.open = b.open /\ e.tag = b.tag /\ e.lines = b.lines /\ e.wrote = b.wrote

LEMMA SameDefined ==
  ASSUME NEW t, NEW u, NEW r, NEW l, Defined(t, r, l), DOMAIN u = DOMAIN t,
         \A m \in DOMAIN t : SameContent(t[m], u[m])
  PROVE  Defined(u, r, l)
<1>1. \A m \in DOMAIN t : /\ u[m].wrote = t[m].wrote /\ u[m].lines = t[m].lines /\ u[m].tag = t[m].tag
                          /\ u[m].kind = t[m].kind /\ u[m].open = t[m].open
                          /\ (IsText(u[m]) <=> IsText(t[m])) /\ (Begins(u[m]) <=> Begins(t[m]))
                          /\ (Unread(u[m]) <=> Unread(t[m]))
  BY DEF SameContent, IsText, Begins, Unread
<1>2. Numbered(u, l)
  BY <1>1 DEF Defined, Numbered
<1>3. OneOpen(u)
  BY <1>1 DEF Defined, OneOpen
<1>4. Kept(u, r)
  BY <1>1 DEF Defined, Kept
<1>5. FirstOf(u, r)
  BY <1>1 DEF Defined, FirstOf
<1>6. QED
  BY <1>2, <1>3, <1>4, <1>5 DEF Defined

\* The first line of a block that begins with definitions
LEMMA BeginsAt ==
  ASSUME NEW t \in Seq(Block), NEW l \in Nat, Numbered(t, l), NEW n \in DOMAIN t, Begins(t[n])
  PROVE  t[n].wrote[1][1] \in 1..l
<1>1. t[n] \in Block
  OBVIOUS
<1>2. t[n].wrote \in Content
  BY <1>1 DEF Block
<1>3. t[n].wrote # <<>>
  BY <1>2, FirstLineBegins DEF Begins
<1>4. 1 \in DOMAIN t[n].wrote
  BY <1>2, <1>3 DEF Content
<1>5. QED
  BY <1>4 DEF Numbered

\* What finalize does to content
Settles(t, u, n) ==
  /\ DOMAIN u = DOMAIN t
  /\ \A m \in DOMAIN t : u[m].kind = t[m].kind /\ u[m].tag = t[m].tag /\ u[m].wrote = t[m].wrote
  /\ \A m \in DOMAIN t \ {n} : u[m].open = t[m].open /\ u[m].lines = t[m].lines
  /\ ~u[n].open

LEMMA SettlesDefined ==
  ASSUME NEW t \in Seq(Block), NEW u, NEW r, NEW l \in Nat, Defined(t, r, l), NEW n \in DOMAIN t,
         t[n].open, Settles(t, u, n),
         NEW q, q = IF t[n].kind = "Paragraph" THEN Resolved(r, t[n].lines) ELSE r
  PROVE  Defined(u, q, l)
<1>1. \A m \in DOMAIN t : /\ u[m].wrote = t[m].wrote /\ u[m].kind = t[m].kind /\ u[m].tag = t[m].tag
                          /\ (IsText(u[m]) <=> IsText(t[m])) /\ (Begins(u[m]) <=> Begins(t[m]))
  BY DEF Settles, IsText, Begins
<1>2. \A m \in DOMAIN t \ {n} : /\ u[m].open = t[m].open /\ u[m].lines = t[m].lines
                                /\ (Unread(u[m]) <=> Unread(t[m]))
  BY <1>1 DEF Settles, Unread
<1>3. ~u[n].open /\ ~Unread(u[n]) /\ DOMAIN u = DOMAIN t
  BY DEF Settles, Unread
<1>4. Numbered(u, l)
  BY <1>1, <1>3 DEF Defined, Numbered
<1>5. OneOpen(u)
  <2> SUFFICES ASSUME NEW m \in DOMAIN u, NEW k \in DOMAIN u,
                      u[m].kind = "Paragraph", u[m].open, u[k].kind = "Paragraph", u[k].open
               PROVE  m = k
    BY DEF OneOpen
  <2>1. m # n /\ k # n
    BY <1>3
  <2>2. QED
    BY <1>1, <1>2, <1>3, <2>1 DEF Defined, OneOpen
<1>6. Kept(t, r) /\ FirstOf(t, r) /\ OneOpen(t) /\ Numbered(t, l)
  BY DEF Defined
<1>7. CASE Unread(t[n]) /\ Begins(t[n]) /\ r = None
  <2> DEFINE h == t[n].wrote[1][1]
  <2>1. h \in 1..l
    BY <1>6, <1>7, BeginsAt
  <2>2. t[n].kind = "Paragraph" /\ t[n].lines = t[n].wrote
    BY <1>6, <1>7 DEF Unread, Kept
  <2>3. q = h
    BY <1>7, <2>2 DEF Resolved, Begins
  <2> HIDE DEF h
  <2>4. q # None
    BY <2>1, <2>3 DEF None
  <2>5. ASSUME NEW m \in DOMAIN t, IsText(t[m]), Begins(t[m]) PROVE m = n
    <3>1. Unread(t[m])
      BY <1>6, <1>7, <2>5 DEF Kept
    <3>2. QED
      BY <1>6, <1>7, <3>1 DEF Unread, OneOpen
  <2>6. Kept(u, q)
    BY <1>1, <1>2, <1>3, <1>6, <2>4 DEF Kept
  <2>7. FirstOf(u, q)
    <3>1. \A m \in DOMAIN u : IsText(u[m]) /\ Begins(u[m]) => q <= u[m].wrote[1][1]
      <4>1. ASSUME NEW m \in DOMAIN u, IsText(u[m]), Begins(u[m]) PROVE q <= u[m].wrote[1][1]
        <5>1. m = n
          BY <1>1, <1>3, <2>5, <4>1
        <5>2. u[m].wrote[1][1] = h
          BY <1>1, <5>1 DEF h
        <5>3. QED
          BY <2>1, <2>3, <5>2
      <4>2. QED
        BY <4>1
    <3>2. IsText(u[n]) /\ Begins(u[n]) /\ u[n].wrote[1][1] = q
      BY <1>1, <1>7, <2>2, <2>3 DEF IsText, h
    <3>3. QED
      BY <1>3, <3>1, <3>2 DEF FirstOf
  <2>8. QED
    BY <1>4, <1>5, <2>6, <2>7 DEF Defined
<1>8. CASE ~(Unread(t[n]) /\ Begins(t[n]) /\ r = None)
  <2>1. q = r
    <3>1. CASE t[n].kind = "Paragraph" /\ r = None
      <4>1. Unread(t[n])
        BY <1>6, <3>1 DEF Unread, Kept
      <4>2. t[n].lines = t[n].wrote /\ ~Begins(t[n])
        BY <1>6, <1>8, <3>1, <4>1 DEF Kept
      <4>3. QED
        BY <3>1, <4>2 DEF Resolved, Begins
    <3>2. CASE r # None
      BY <3>2 DEF Resolved
    <3>3. CASE t[n].kind # "Paragraph"
      BY <3>3
    <3>4. QED
      BY <3>1, <3>2, <3>3
  <2>2. r = None => ~(Unread(t[n]) /\ Begins(t[n]))
    BY <1>8
  <2>3. Kept(u, r)
    <3> SUFFICES ASSUME NEW m \in DOMAIN u
                 PROVE  /\ Unread(u[m]) => u[m].lines = u[m].wrote
                        /\ u[m].tag = "setext" => u[m].wrote # <<>> /\ (u[m].kind = "Paragraph" => r # None)
                        /\ IsText(u[m]) /\ Begins(u[m]) /\ ~Unread(u[m]) => r # None
      BY DEF Kept
    <3>1. CASE m = n
      BY <1>1, <1>3, <1>6, <2>2, <3>1 DEF Kept
    <3>2. CASE m # n
      BY <1>1, <1>2, <1>3, <1>6, <3>2 DEF Kept
    <3>3. QED
      BY <3>1, <3>2
  <2>4. FirstOf(u, r)
    <3> SUFFICES ASSUME r # None
                 PROVE  /\ \A m \in DOMAIN u : IsText(u[m]) /\ Begins(u[m]) => r <= u[m].wrote[1][1]
                        /\ \E m \in DOMAIN u : IsText(u[m]) /\ Begins(u[m]) /\ ~Unread(u[m]) /\ u[m].wrote[1][1] = r
      BY DEF FirstOf
    <3>1. PICK m \in DOMAIN t : IsText(t[m]) /\ Begins(t[m]) /\ ~Unread(t[m]) /\ t[m].wrote[1][1] = r
      BY <1>6 DEF FirstOf
    <3>2. ~Unread(u[m])
      BY <1>2, <1>3, <3>1
    <3>3. QED
      BY <1>1, <1>3, <1>6, <3>1, <3>2 DEF FirstOf
  <2>5. QED
    BY <1>4, <1>5, <2>1, <2>3, <2>4 DEF Defined
<1>9. QED
  BY <1>7, <1>8

LEMMA DetachedContent ==
  ASSUME NEW v \in Seq(Block), NEW n \in DOMAIN v
  PROVE  /\ DOMAIN Detached(v, n) = DOMAIN v
         /\ \A m \in DOMAIN v : SameContent(v[m], Detached(v, n)[m])
<1>1. \A m \in DOMAIN v : v[m] \in Block
  OBVIOUS
<1>2. DOMAIN Detached(v, n) = DOMAIN v
  BY DEF Detached
<1>3. ASSUME NEW m \in DOMAIN v PROVE SameContent(v[m], Detached(v, n)[m])
  BY <1>1 DEF Detached, SameContent, Block
<1>4. QED
  BY <1>2, <1>3

LEMMA FinalizedSettles ==
  ASSUME NEW d, d.nodes \in Seq(Block), NEW n \in DOMAIN d.nodes
  PROVE  /\ Settles(d.nodes, Finalized(d, n).nodes, n)
         /\ Finalized(d, n).refs = IF d.nodes[n].kind = "Paragraph" THEN Resolved(d.refs, d.nodes[n].lines) ELSE d.refs
<1> DEFINE b == d.nodes[n]
           s == d.nodes
           t == [d.nodes EXCEPT ![n].open = FALSE]
           rest == SubSeq(b.lines, Definitions(b.lines) + 1, Len(b.lines))
           lit == IF b.tag = "fenced" THEN SubSeq(b.lines, 2, Len(b.lines)) ELSE Trimmed(b.lines)
           settled ==
             CASE b.kind = "Paragraph" /\ rest = <<>> ->
                    Detached([t EXCEPT ![n].lines = <<>>], n)
               [] b.kind = "Paragraph" /\ rest # <<>> -> [t EXCEPT ![n].lines = rest]
               [] b.kind = "Spoiler" /\ b.kids = <<>> -> Detached(t, n)
               [] b.kind = "CodeBlock" -> [t EXCEPT ![n].lines = <<>>, ![n].literal = lit]
               [] b.kind \in {"HtmlBlock", "Comment"} ->
                    [t EXCEPT ![n].lines = <<>>, ![n].literal = b.lines]
               [] b.kind = "List" -> [t EXCEPT ![n].tight = Tight(t, n)]
               [] OTHER -> t
<1>1. b \in Block /\ b.lines \in Content /\ \A m \in DOMAIN s : s[m] \in Block
  <2>1. \A m \in DOMAIN s : s[m] \in Block
    OBVIOUS
  <2>2. QED
    BY <2>1 DEF Block
<1>2. /\ Finalized(d, n).nodes = settled
      /\ Finalized(d, n).refs = IF b.kind = "Paragraph" THEN Resolved(d.refs, b.lines) ELSE d.refs
  BY DEF Finalized
<1>3. <<>> \in Content
  BY DEF Content
<1>4. t \in Seq(Block) /\ [t EXCEPT ![n].lines = <<>>] \in Seq(Block)
  <2>1. [b EXCEPT !.open = FALSE] \in Block /\ [b EXCEPT !.open = FALSE, !.lines = <<>>] \in Block
    BY <1>1, <1>3 DEF Block
  <2>2. /\ t = [s EXCEPT ![n] = [b EXCEPT !.open = FALSE]]
        /\ [t EXCEPT ![n].lines = <<>>] = [s EXCEPT ![n] = [b EXCEPT !.open = FALSE, !.lines = <<>>]]
    OBVIOUS
  <2>3. QED
    BY <2>1, <2>2, EditBlock
<1> DEFINE Edits(v) ==
      /\ DOMAIN v = DOMAIN s
      /\ \A m \in DOMAIN s \ {n} : v[m] = s[m]
      /\ v[n].kind = b.kind /\ v[n].tag = b.tag /\ v[n].wrote = b.wrote /\ ~v[n].open
<1>5. \A v : Edits(v) => Settles(s, v, n)
  BY DEF Settles
<1>6. Edits(t) /\ Edits([t EXCEPT ![n].lines = <<>>])
  BY <1>1 DEF Block
<1> DEFINE tight == Tight(t, n)
<1>7. Edits([t EXCEPT ![n].tight = tight])
  <2> HIDE DEF tight
  <2>1. QED
    BY <1>1 DEF Block
<1> HIDE DEF lit, rest
<1>8. Edits([t EXCEPT ![n].lines = rest])
  BY <1>1 DEF Block
<1>9. Edits([t EXCEPT ![n].lines = <<>>, ![n].literal = lit])
  BY <1>1 DEF Block
<1>10. Edits([t EXCEPT ![n].lines = <<>>, ![n].literal = b.lines])
  BY <1>1 DEF Block
<1>11. ASSUME NEW v \in Seq(Block), Edits(v) PROVE Settles(s, Detached(v, n), n)
  <2>1. DOMAIN Detached(v, n) = DOMAIN v /\ \A m \in DOMAIN v : SameContent(v[m], Detached(v, n)[m])
    BY <1>11, DetachedContent
  <2>2. QED
    BY <1>11, <2>1 DEF Settles, SameContent
<1>12. Settles(s, settled, n)
  <2> HIDE DEF Edits, t, s, b
  <2>1. CASE b.kind = "Paragraph" /\ rest = <<>>
    <3>1. settled = Detached([t EXCEPT ![n].lines = <<>>], n)
      BY <2>1
    <3>2. QED
      BY <1>4, <1>6, <1>11, <3>1
  <2>2. CASE b.kind = "Paragraph" /\ rest # <<>>
    <3>1. settled = [t EXCEPT ![n].lines = rest]
      BY <2>2
    <3>2. QED
      BY <1>5, <1>8, <3>1
  <2>3. CASE b.kind = "Spoiler" /\ b.kids = <<>>
    <3>1. settled = Detached(t, n)
      BY <2>3
    <3>2. QED
      BY <1>4, <1>6, <1>11, <3>1
  <2>4. CASE b.kind = "CodeBlock"
    <3>1. settled = [t EXCEPT ![n].lines = <<>>, ![n].literal = lit]
      BY <2>4
    <3>2. QED
      BY <1>5, <1>9, <3>1
  <2>5. CASE b.kind \in {"HtmlBlock", "Comment"}
    <3>1. settled = [t EXCEPT ![n].lines = <<>>, ![n].literal = b.lines]
      BY <2>5
    <3>2. QED
      BY <1>5, <1>10, <3>1
  <2>6. CASE b.kind = "List"
    <3>1. settled = [t EXCEPT ![n].tight = tight]
      BY <2>6 DEF tight
    <3>2. QED
      BY <1>5, <1>7, <3>1
  <2>7. CASE /\ b.kind \notin {"Paragraph", "CodeBlock", "HtmlBlock", "Comment", "List"}
             /\ ~(b.kind = "Spoiler" /\ b.kids = <<>>)
    <3>1. settled = t
      BY <2>7
    <3>2. QED
      BY <1>5, <1>6, <3>1
  <2>8. QED
    BY <2>1, <2>2, <2>3, <2>4, <2>5, <2>6, <2>7
<1>13. QED
  BY <1>2, <1>12

\* finalize keeps the first of the definitions
LEMMA FinalizedDefined ==
  ASSUME NEW d, d.nodes \in Seq(Block), NEW n \in DOMAIN d.nodes, d.nodes[n].open,
         NEW l \in Nat, Defined(d.nodes, d.refs, l)
  PROVE  Defined(Finalized(d, n).nodes, Finalized(d, n).refs, l)
BY FinalizedSettles, SettlesDefined

\* A line is added to a block
LEMMA WrittenDefined ==
  ASSUME NEW t \in Seq(Block), NEW u, NEW r, NEW l \in Nat \ {0}, l <= MaxLines, Defined(t, r, l), NEW n \in DOMAIN t,
         t[n].open, NEW w \in Word, DOMAIN u = DOMAIN t,
         \A m \in DOMAIN t \ {n} : SameContent(t[m], u[m]),
         u[n].kind = t[n].kind, u[n].open = t[n].open, u[n].tag = t[n].tag,
         u[n].lines = Append(t[n].lines, <<l, w>>), u[n].wrote = Append(t[n].wrote, <<l, w>>)
  PROVE  Defined(u, r, l)
<1> DEFINE x == <<l, w>>
           v == t[n].wrote
<1>1. x \in (0..MaxLines) \X Word /\ x[1] = l
  BY MaxLinesIsNat
<1>2. v \in Content
  <2>1. t[n] \in Block
    OBVIOUS
  <2>2. QED
    BY <2>1 DEF Block
<1>3. u[n].wrote = Append(v, x) /\ u[n].lines = Append(t[n].lines, x)
  OBVIOUS
<1> HIDE DEF x, v
<1>4. /\ u[n].wrote \in Content /\ u[n].wrote # <<>>
      /\ v # <<>> => u[n].wrote[1] = v[1] /\ (Definitions(u[n].wrote) > 0 <=> Definitions(v) > 0)
      /\ v = <<>> => u[n].wrote[1] = x
      /\ \A i \in DOMAIN u[n].wrote : u[n].wrote[i] = x \/ (i \in DOMAIN v /\ u[n].wrote[i] = v[i])
  <2>1. /\ Append(v, x) \in Content /\ Append(v, x) # <<>>
        /\ v # <<>> => Append(v, x)[1] = v[1] /\ (Definitions(Append(v, x)) > 0 <=> Definitions(v) > 0)
        /\ v = <<>> => Append(v, x)[1] = x
        /\ \A i \in DOMAIN Append(v, x) : Append(v, x)[i] = x \/ (i \in DOMAIN v /\ Append(v, x)[i] = v[i])
    BY <1>1, <1>2, LongerBegins
  <2>2. QED
    BY <1>3, <2>1
<1>5. \A m \in DOMAIN t \ {n} : /\ u[m].wrote = t[m].wrote /\ u[m].lines = t[m].lines /\ u[m].tag = t[m].tag
                                /\ u[m].kind = t[m].kind /\ u[m].open = t[m].open
                                /\ (IsText(u[m]) <=> IsText(t[m])) /\ (Begins(u[m]) <=> Begins(t[m]))
                                /\ (Unread(u[m]) <=> Unread(t[m]))
  BY DEF SameContent, IsText, Begins, Unread
<1>6. (IsText(u[n]) <=> IsText(t[n])) /\ (Unread(u[n]) <=> Unread(t[n]))
  BY DEF IsText, Unread
<1>7. Kept(t, r) /\ FirstOf(t, r) /\ OneOpen(t) /\ Numbered(t, l)
  BY DEF Defined
<1>8. Begins(t[n]) => v # <<>> /\ Begins(u[n])
  BY <1>2, <1>4, FirstLineBegins DEF Begins, v
<1>9. v # <<>> => u[n].wrote[1] = v[1] /\ (Begins(u[n]) <=> Begins(t[n]))
  BY <1>4 DEF Begins, v
<1>10. Numbered(u, l)
  <2>1. ASSUME NEW i \in DOMAIN u[n].wrote PROVE u[n].wrote[i][1] \in 1..l
    BY <1>1, <1>4, <1>7 DEF Numbered, v
  <2>2. QED
    BY <1>5, <1>7, <2>1 DEF Numbered
<1>11. OneOpen(u)
  <2>1. \A m \in DOMAIN t : u[m].kind = t[m].kind /\ u[m].open = t[m].open
    BY <1>5
  <2>2. QED
    BY <1>7, <2>1 DEF OneOpen
<1>12. Kept(u, r)
  <2>1. Unread(u[n]) => u[n].lines = u[n].wrote
    BY <1>3, <1>6, <1>7 DEF Kept, v
  <2>2. u[n].tag = "setext" => u[n].wrote # <<>> /\ (u[n].kind = "Paragraph" => r # None)
    BY <1>4, <1>7 DEF Kept
  <2>3. ASSUME IsText(u[n]), Begins(u[n]), ~Unread(u[n]) PROVE r # None
    <3>1. IsText(t[n]) /\ ~Unread(t[n])
      BY <1>6, <2>3
    <3>2. t[n].tag = "setext"
      BY <3>1 DEF IsText, Unread
    <3>3. v # <<>>
      BY <1>7, <3>2 DEF Kept, v
    <3>4. QED
      BY <1>7, <1>9, <2>3, <3>1, <3>3 DEF Kept
  <2>4. QED
    BY <1>5, <1>7, <2>1, <2>2, <2>3 DEF Kept
<1>13. FirstOf(u, r)
  <2> SUFFICES ASSUME r # None
               PROVE  /\ \A m \in DOMAIN u : IsText(u[m]) /\ Begins(u[m]) => r <= u[m].wrote[1][1]
                      /\ \E m \in DOMAIN u : IsText(u[m]) /\ Begins(u[m]) /\ ~Unread(u[m]) /\ u[m].wrote[1][1] = r
    BY DEF FirstOf
  <2>1. PICK k \in DOMAIN t : IsText(t[k]) /\ Begins(t[k]) /\ ~Unread(t[k]) /\ t[k].wrote[1][1] = r
    BY <1>7 DEF FirstOf
  <2>2. r \in 1..l
    BY <1>7, <2>1, BeginsAt
  <2>3. IsText(u[k]) /\ Begins(u[k]) /\ ~Unread(u[k]) /\ u[k].wrote[1][1] = r
    <3>1. CASE k = n
      BY <1>6, <1>8, <1>9, <2>1, <3>1 DEF v
    <3>2. CASE k # n
      BY <1>5, <2>1, <3>2
    <3>3. QED
      BY <3>1, <3>2
  <2>4. ASSUME IsText(u[n]), Begins(u[n]) PROVE r <= u[n].wrote[1][1]
    <3>1. CASE v = <<>>
      BY <1>1, <1>4, <2>2, <3>1
    <3>2. CASE v # <<>>
      BY <1>6, <1>7, <1>9, <2>4, <3>2 DEF FirstOf, v
    <3>3. QED
      BY <3>1, <3>2
  <2>5. \A m \in DOMAIN u : IsText(u[m]) /\ Begins(u[m]) => r <= u[m].wrote[1][1]
    BY <1>5, <1>7, <2>4 DEF FirstOf
  <2>6. QED
    BY <2>3, <2>5
<1>14. QED
  BY <1>10, <1>11, <1>12, <1>13 DEF Defined

\* A new block has no content
LEMMA GrownDefined ==
  ASSUME NEW t, NEW u, NEW r, NEW l, Defined(t, r, l), NEW n, n \notin DOMAIN t,
         DOMAIN u = DOMAIN t \cup {n}, \A m \in DOMAIN t : SameContent(t[m], u[m]),
         u[n].lines = <<>>, u[n].wrote = <<>>, u[n].tag # "setext", u[n].open,
         u[n].kind = "Paragraph" => \A m \in DOMAIN t : ~(t[m].kind = "Paragraph" /\ t[m].open)
  PROVE  Defined(u, r, l)
<1>1. \A m \in DOMAIN t : /\ u[m].wrote = t[m].wrote /\ u[m].lines = t[m].lines /\ u[m].tag = t[m].tag
                          /\ u[m].kind = t[m].kind /\ u[m].open = t[m].open
                          /\ (IsText(u[m]) <=> IsText(t[m])) /\ (Begins(u[m]) <=> Begins(t[m]))
                          /\ (Unread(u[m]) <=> Unread(t[m]))
  BY DEF SameContent, IsText, Begins, Unread
<1>2. ~Begins(u[n]) /\ DOMAIN u[n].wrote = {}
  BY NothingBegins DEF Begins
<1>3. Numbered(u, l)
  BY <1>1, <1>2 DEF Defined, Numbered
<1>4. OneOpen(u)
  BY <1>1 DEF Defined, OneOpen
<1>5. Kept(u, r)
  BY <1>1, <1>2 DEF Defined, Kept
<1>6. FirstOf(u, r)
  BY <1>1, <1>2 DEF Defined, FirstOf
<1>7. QED
  BY <1>3, <1>4, <1>5, <1>6 DEF Defined

\* A paragraph is read for definitions before the underline that follows it
LEMMA SetextDefined ==
  ASSUME NEW t \in Seq(Block), NEW u, NEW r, NEW l \in Nat, Defined(t, r, l), NEW n \in DOMAIN t,
         t[n].kind = "Paragraph", t[n].open, t[n].lines # <<>>, DOMAIN u = DOMAIN t,
         \A m \in DOMAIN t \ {n} : u[m] = t[m],
         u[n].tag = "setext", u[n].wrote = t[n].wrote, u[n].open,
         u[n].kind = IF Drop(t[n].lines, Definitions(t[n].lines)) = <<>> THEN "Paragraph" ELSE "Heading"
  PROVE  Defined(u, Resolved(r, t[n].lines), l)
<1> DEFINE q == Resolved(r, t[n].lines)
<1>1. Kept(t, r) /\ FirstOf(t, r) /\ OneOpen(t) /\ Numbered(t, l)
  BY DEF Defined
<1>2. t[n].lines \in Content
  <2>1. t[n] \in Block
    OBVIOUS
  <2>2. QED
    BY <2>1 DEF Block
<1>3. IsText(u[n]) /\ ~Unread(u[n]) /\ (Begins(u[n]) <=> Begins(t[n])) /\ IsText(t[n])
  BY DEF IsText, Unread, Begins
<1>4. u[n].kind = "Paragraph" => Definitions(t[n].lines) > 0
  <2> SUFFICES ASSUME Drop(t[n].lines, Definitions(t[n].lines)) = <<>> PROVE Definitions(t[n].lines) > 0
    OBVIOUS
  <2> DEFINE s == t[n].lines
             k == Definitions(s)
  <2>0. k \in 0..Len(s)
    BY <1>2, DefinitionsBegin
  <2> HIDE DEF k
  <2>1. k \in 0..Len(s) /\ Len(s) \in Nat /\ Len(s) # 0
    BY <1>2, <2>0 DEF Content
  <2>2. CASE k = 0
    <3>1. Drop(s, 0) = SubSeq(s, 1, Len(s))
      BY DEF Drop
    <3>2. Len(SubSeq(s, 1, Len(s))) = Len(s)
      BY <1>2, <2>1 DEF Content
    <3>3. Drop(s, k) = <<>> /\ Len(<<>>) = 0
      BY DEF k
    <3>4. QED
      BY <2>1, <2>2, <3>1, <3>2, <3>3
  <2>3. QED
    BY <2>1, <2>2 DEF k
<1>5. CASE t[n].tag = "setext" \/ r # None
  <2>1. r # None
    BY <1>1, <1>5 DEF Kept
  <2>2. q = r
    BY <2>1 DEF Resolved
  <2>3. t[n].wrote # <<>>
    BY <1>1 DEF Kept, Unread
  <2>4. Numbered(u, l)
    BY <1>1 DEF Numbered
  <2>5. OneOpen(u)
    BY <1>1 DEF OneOpen
  <2>6. Kept(u, r)
    BY <1>1, <1>3, <2>1, <2>3 DEF Kept
  <2>7. \A m \in DOMAIN u : IsText(u[m]) /\ Begins(u[m]) => r <= u[m].wrote[1][1]
    BY <1>1, <1>3, <2>1 DEF FirstOf
  <2>8. PICK k \in DOMAIN t : IsText(t[k]) /\ Begins(t[k]) /\ ~Unread(t[k]) /\ t[k].wrote[1][1] = r
    BY <1>1, <2>1 DEF FirstOf
  <2>9. IsText(u[k]) /\ Begins(u[k]) /\ ~Unread(u[k]) /\ u[k].wrote[1][1] = r
    BY <1>3, <2>8
  <2>10. FirstOf(u, r)
    BY <2>7, <2>8, <2>9 DEF FirstOf
  <2>11. QED
    BY <2>2, <2>4, <2>5, <2>6, <2>10 DEF Defined
<1>6. CASE t[n].tag # "setext" /\ r = None
  <2>1. Unread(t[n]) /\ t[n].lines = t[n].wrote
    BY <1>1, <1>6 DEF Kept, Unread
  <2>2. ASSUME NEW m \in DOMAIN t, IsText(t[m]), Begins(t[m]) PROVE m = n
    <3>1. Unread(t[m])
      BY <1>1, <1>6, <2>2 DEF Kept
    <3>2. QED
      BY <1>1, <3>1 DEF Unread, OneOpen
  <2>3. Numbered(u, l)
    BY <1>1 DEF Numbered
  <2>4. OneOpen(u)
    BY <1>1 DEF OneOpen
  <2>5. CASE Begins(t[n])
    <3>1. q = t[n].wrote[1][1] /\ q \in 1..l
      BY <1>1, <1>6, <2>1, <2>5, BeginsAt DEF Resolved, Begins
    <3>2. q # None
      BY <3>1 DEF None
    <3>3. Kept(u, q)
      BY <1>1, <1>3, <2>1, <3>2 DEF Kept
    <3>4. ASSUME NEW m \in DOMAIN u, IsText(u[m]), Begins(u[m]) PROVE q <= u[m].wrote[1][1]
      <4>1. m = n
        BY <2>2, <3>4
      <4>2. QED
        BY <3>1, <4>1
    <3>5. FirstOf(u, q)
      BY <1>3, <2>5, <3>1, <3>4 DEF FirstOf
    <3>6. QED
      BY <2>3, <2>4, <3>3, <3>5 DEF Defined
  <2>6. CASE ~Begins(t[n])
    <3>1. q = None /\ u[n].kind # "Paragraph"
      BY <1>4, <1>6, <2>1, <2>6 DEF Resolved, Begins
    <3>2. Kept(u, q)
      BY <1>1, <1>3, <1>6, <2>1, <2>6, <3>1 DEF Kept
    <3>3. FirstOf(u, q)
      BY <3>1 DEF FirstOf
    <3>4. QED
      BY <2>3, <2>4, <3>2, <3>3 DEF Defined
  <2>7. QED
    BY <2>5, <2>6
<1>7. QED
  BY <1>5, <1>6

-----------------------------------------------------------------------------
(***************************************************************************)
(* Lines without the markers of the extensions that close what is above    *)
(***************************************************************************)
LEMMA CalmRest ==
  ASSUME NEW r \in Seq(Word), Calm(r)
  PROVE  /\ Token(r) \notin {":::", "::::", ">>>", ">>>>", ":"}
         /\ Calm(After(r)) /\ Calm(<<>>)
         /\ \A k \in Nat : Calm(Drop(r, k))
<1> DEFINE I == {i \in 1..Len(r) : r[i] # "in"}
           k0 == IF I # {} THEN Min(I) ELSE 0
<1>1. Len(r) \in Nat /\ I \in SUBSET (1..Len(r)) /\ DOMAIN r = 1..Len(r)
  OBVIOUS
<1>2. k0 \in 0..Len(r)
  BY <1>1, FirstPlace
<1>3. Indent(r) = IF k0 = 0 THEN Len(r) ELSE k0 - 1
  BY DEF Indent, SelectInSeq
<1> HIDE DEF k0
<1> DEFINE d == Indent(r)
<1>4. d \in 0..Len(r)
  BY <1>1, <1>2, <1>3
<1> HIDE DEF d, I
<1>5. Token(r) \notin {":::", "::::", ">>>", ">>>>", ":"}
  <2>1. CASE d = Len(r)
    BY <2>1 DEF Token, d
  <2>2. CASE d # Len(r)
    <3>1. d + 1 \in DOMAIN r
      <4>1. Len(r) \in Nat /\ DOMAIN r = 1..Len(r)
        OBVIOUS
      <4>2. \A n \in Nat : \A e \in 0..n : e # n => e + 1 \in 1..n
        OBVIOUS
      <4>3. d + 1 \in 1..Len(r)
        BY <1>4, <2>2, <4>1, <4>2
      <4>4. QED
        BY <4>1, <4>3
    <3>2. Token(r) = r[d + 1]
      BY <2>2 DEF Token, d
    <3>3. QED
      BY <3>1, <3>2 DEF Calm
  <2>3. QED
    BY <2>1, <2>2
<1>6. ASSUME NEW k \in Nat PROVE Calm(Drop(r, k))
  <2> SUFFICES ASSUME NEW i \in DOMAIN Drop(r, k) PROVE Drop(r, k)[i] \notin {":::", "::::", ">>>", ">>>>", ":"}
    BY DEF Calm
  <2>1. i \in Nat /\ Drop(r, k)[i] = r[k + i] /\ k + i \in 1..Len(r)
    BY <1>1 DEF Drop
  <2> DEFINE j == k + i
  <2>2. Drop(r, k)[i] = r[j] /\ j \in DOMAIN r
    BY <1>1, <2>1
  <2> HIDE DEF j
  <2>3. QED
    BY <2>2 DEF Calm
<1>7. Calm(After(r))
  <2>1. d + 1 \in Nat
    BY <1>1, <1>4
  <2>2. After(r) = Drop(r, d + 1)
    BY DEF After, d
  <2>3. QED
    BY <1>6, <2>1, <2>2
<1>8. Calm(<<>>)
  BY DEF Calm
<1>9. QED
  BY <1>5, <1>6, <1>7, <1>8

LEMMA CalmContinued ==
  ASSUME NEW b \in Block, NEW r \in Seq(Word), Calm(r), NEW q \in Continued(b, r)
  PROVE  Calm(q)
<1>1. Indent(r) \in Nat
  BY LineIsSeq
<1>2. b.off \in Nat /\ b.pad \in Nat /\ b.off + b.pad \in Nat
  BY DEF Block
<1>3. Calm(After(r)) /\ Calm(Drop(r, 2)) /\ Calm(Drop(r, b.off + b.pad)) /\ Calm(<<>>)
  BY <1>2, CalmRest
<1>4. Calm(Drop(r, Least(b.off, Indent(r))))
  <2>1. Least(b.off, Indent(r)) \in Nat
    BY <1>1, <1>2 DEF Least
  <2>2. QED
    BY <2>1, CalmRest
<1>5. PastQuote(r) = After(r)
  BY CalmRest DEF PastQuote
<1>6. q \in {r, <<>>, PastQuote(r), Drop(r, 2), Drop(r, b.off + b.pad), Drop(r, Least(b.off, Indent(r)))}
  BY DEF Continued
<1>7. QED
  BY <1>3, <1>4, <1>5, <1>6

(***************************************************************************)
(* The invariant                                                           *)
(***************************************************************************)
\* A paragraph is without lines only between its beginning and its first line
Filled(t, gap) ==
  \A n \in DOMAIN t \ gap : t[n].kind = "Paragraph" /\ t[n].open => t[n].lines # <<>>

Gap(s) == IF s.pc \in {"text", "close", "store"} /\ ~Blank(s.rest) THEN {s.container} ELSE {}

\* Nothing is written in a block that is to be added, and a paragraph is added for a text
Unwritten(b, r) ==
  b.wrote = <<>> /\ b.lines = <<>> /\ b.tag # "setext" /\ (b.kind = "Paragraph" => ~Blank(r))

SnugAt(t, s, cur) ==
  /\ s.pc \in {"line", "match", "store", "eof", "done"} => Snug(t, {})
  /\ s.pc \in {"open", "add", "text", "close"} =>
       \A Q, U : Mid(t, Q, U, cur, s.matched, s.container) => Snug(t, U)
  /\ s.pc = "done" => ~t[Root].open

ScanOK(s, l) ==
  /\ Calm(s.rest)
  /\ s.pc = "add" => \A i \in DOMAIN s.new : Unwritten(s.new[i], s.rest)
  /\ s.pc \notin {"line", "eof", "done"} => l # 0

Whole(t, r, s, cur, l) ==
  SnugAt(t, s, cur) /\ Defined(t, r, l) /\ Filled(t, Gap(s)) /\ ScanOK(s, l)

SInv == Inv /\ CalmInput /\ Whole(nodes, refs, scan, current, lineNo)

LEMMA SameVocabulary == ASSUME [Next]_vars PROVE vocabulary' = vocabulary
BY DEF Next, Step, StartLine, EndOfInput, Done, vars

\* What a step has to show
LEMMA WholeKeeps ==
  ASSUME SInv, [Next]_vars, NEW t, NEW r, NEW s, NEW c, NEW l,
         nodes' = t, refs' = r, scan' = s, current' = c, lineNo' = l, Whole(t, r, s, c, l)
  PROVE  SInv'
<1>1. Inv'
  BY NextKeeps DEF SInv
<1>2. Whole(nodes', refs', scan', current', lineNo')
  OBVIOUS
<1>3. CalmInput'
  BY SameVocabulary DEF SInv, CalmInput
<1>4. QED
  BY <1>1, <1>2, <1>3 DEF SInv

LEMMA SInvGives ==
  ASSUME SInv
  PROVE  /\ Typed /\ Tree(nodes) /\ PathOK /\ nodes \in Seq(Block) /\ lineNo \in Nat
         /\ scan \in Scan /\ scan.rest \in Seq(Word) /\ scan.container \in DOMAIN nodes
         /\ current \in DOMAIN nodes /\ scan.matched \in DOMAIN nodes
         /\ SnugAt(nodes, scan, current) /\ Defined(nodes, refs, lineNo)
         /\ Filled(nodes, Gap(scan)) /\ ScanOK(scan, lineNo) /\ CalmInput
<1>1. Inv /\ Typed /\ Tree(nodes) /\ PathOK
  BY DEF SInv, Inv
<1>2. lineNo \in Nat
  BY <1>1, MaxLinesIsNat DEF Typed
<1>3. QED
  BY <1>1, <1>2, RestIsLine DEF SInv, Whole, Typed

\* Nothing is pending between lines
LEMMA InitWhole == CalmInput /\ Init => SInv
<1> SUFFICES ASSUME CalmInput, Init PROVE SInv
  OBVIOUS
<1> DEFINE b == NewNode("Document", "", 0, 0)
<1>1. Inv
  BY InitInv
<1>2. b.wrote = <<>> /\ b.lines = <<>> /\ b.tag = "" /\ b.kind = "Document"
  BY DEF NewNode
<1>3. nodes = <<b>> /\ refs = None /\ lineNo = 0 /\ scan = Idle
  BY DEF Init
<1> HIDE DEF b
<1>4. DOMAIN nodes = {1} /\ nodes[1] = b
  BY <1>3
<1>5. scan.pc = "line" /\ scan.rest = <<>>
  BY <1>3 DEF Idle
<1>6. SnugAt(nodes, scan, current)
  BY <1>4, <1>5 DEF SnugAt, Snug, Root
<1>7. Defined(nodes, refs, lineNo)
  <2>1. ~Begins(b)
    <3>1. Definitions(b.wrote) = 0
      BY <1>2, NothingBegins
    <3>2. QED
      BY <3>1 DEF Begins
  <2>2. ~IsText(b) /\ ~Unread(b)
    BY <1>2 DEF IsText, Unread
  <2>3. DOMAIN b.wrote = {}
    <3>1. DOMAIN <<>> = {}
      OBVIOUS
    <3>2. QED
      BY <1>2, <3>1
  <2>4. Numbered(nodes, lineNo) /\ OneOpen(nodes)
    BY <1>2, <1>4, <2>3 DEF Numbered, OneOpen
  <2>5. Kept(nodes, refs)
    BY <1>2, <1>4, <2>1, <2>2 DEF Kept
  <2>6. FirstOf(nodes, refs)
    BY <1>3 DEF FirstOf
  <2>7. QED
    BY <2>4, <2>5, <2>6 DEF Defined
<1>8. Filled(nodes, Gap(scan))
  BY <1>2, <1>4, <1>5 DEF Filled, Gap
<1>9. ScanOK(scan, lineNo)
  BY <1>5 DEF ScanOK, Calm
<1>10. QED
  BY <1>1, <1>6, <1>7, <1>8, <1>9 DEF SInv, Whole

LEMMA MoreLines ==
  ASSUME NEW t, NEW r, NEW l \in Nat, NEW k \in Nat, l <= k, Defined(t, r, l)
  PROVE  Defined(t, r, k)
<1>1. \A x \in 1..l : x \in 1..k
  OBVIOUS
<1>2. Numbered(t, k)
  BY <1>1 DEF Defined, Numbered
<1>3. QED
  BY <1>2 DEF Defined

LEMMA FilledMore ==
  ASSUME NEW t, NEW gap, NEW more, Filled(t, gap), gap \subseteq more
  PROVE  Filled(t, more)
BY DEF Filled

LEMMA SameFilled ==
  ASSUME NEW t, NEW u, NEW gap, Filled(t, gap), DOMAIN u = DOMAIN t,
         \A m \in DOMAIN t : SameContent(t[m], u[m])
  PROVE  Filled(u, gap)
BY DEF Filled, SameContent

\* What finalize leaves
LEMMA FinalizedWhole ==
  ASSUME NEW d, d.nodes \in Seq(Block), Tree(d.nodes), d.refs \in 0..MaxLines,
         NEW n \in DOMAIN d.nodes, d.nodes[n].open,
         NEW l \in Nat, Defined(d.nodes, d.refs, l), NEW gap, Filled(d.nodes, gap),
         NEW U, Snug(d.nodes, U), LastOpen(d.nodes, n) => LastKid(d.nodes, n) \in U
  PROVE  /\ Pruned(d.nodes, Finalized(d, n).nodes, n)
         /\ Defined(Finalized(d, n).nodes, Finalized(d, n).refs, l)
         /\ Filled(Finalized(d, n).nodes, gap)
         /\ Snug(Finalized(d, n).nodes, U \ {n})
         /\ ~Finalized(d, n).nodes[n].open
<1> DEFINE u == Finalized(d, n).nodes
<1>1. Pruned(d.nodes, u, n)
  BY FinalizedCloses
<1>2. Defined(u, Finalized(d, n).refs, l)
  BY FinalizedDefined
<1>3. Settles(d.nodes, u, n)
  BY FinalizedSettles
<1> HIDE DEF u
<1>4. Filled(u, gap)
  BY <1>3 DEF Settles, Filled
<1>5. Snug(u, U \ {n})
  BY <1>1, PrunedSnug
<1>6. ~u[n].open
  BY <1>3 DEF Settles
<1>7. QED
  BY <1>1, <1>2, <1>4, <1>5, <1>6 DEF u

(***************************************************************************)
(* A line begins, and the open blocks it matches                           *)
(***************************************************************************)
LEMMA StartLineWhole ==
  ASSUME SInv, [Next]_vars, NEW line \in Lines, StartLine(line)
  PROVE  SInv'
<1> DEFINE s == [Idle EXCEPT !.pc = "match", !.whole = line, !.rest = line]
<1>1. /\ scan.pc = "line" /\ lineNo' = lineNo + 1 /\ scan' = s /\ UNCHANGED <<nodes, refs, panicked, current>>
      /\ line \in vocabulary
  BY DEF StartLine
<1>2. s.pc = "match" /\ s.rest = line
  BY DEF Idle
<1> HIDE DEF s
<1>3. lineNo \in Nat /\ lineNo + 1 \in Nat /\ lineNo <= lineNo + 1 /\ lineNo + 1 # 0
  BY SInvGives
<1> DEFINE l == lineNo + 1
<1>4. l \in Nat /\ lineNo <= l /\ l # 0 /\ lineNo' = l
  BY <1>1, <1>3
<1> HIDE DEF l
<1>5. SnugAt(nodes, s, current)
  BY <1>1, <1>2, SInvGives DEF SnugAt
<1>6. Defined(nodes, refs, l)
  BY <1>3, <1>4, SInvGives, MoreLines
<1>7. Filled(nodes, Gap(s))
  BY <1>1, SInvGives, FilledMore DEF Gap
<1>8. ScanOK(s, l)
  BY <1>1, <1>2, <1>4, SInvGives DEF ScanOK, CalmInput
<1>9. QED
  BY <1>1, <1>4, <1>5, <1>6, <1>7, <1>8, WholeKeeps DEF Whole

LEMMA EndOfInputWhole == ASSUME SInv, [Next]_vars, EndOfInput PROVE SInv'
<1> DEFINE s == [Idle EXCEPT !.pc = "eof"]
<1>1. scan.pc = "line" /\ scan' = s /\ UNCHANGED <<nodes, refs, panicked, current, lineNo>>
  BY DEF EndOfInput
<1>2. s.pc = "eof" /\ s.rest = <<>>
  BY DEF Idle
<1> HIDE DEF s
<1>3. SnugAt(nodes, s, current)
  BY <1>1, <1>2, SInvGives DEF SnugAt
<1>4. Filled(nodes, Gap(s))
  BY <1>1, SInvGives, FilledMore DEF Gap
<1>5. ScanOK(s, lineNo)
  BY <1>2, SInvGives, CalmRest DEF ScanOK
<1>6. QED
  BY <1>1, <1>3, <1>4, <1>5, SInvGives, WholeKeeps DEF Whole

\* The blocks of the line's containers have been matched
LEMMA MatchedWhole ==
  ASSUME SInv, [Next]_vars, scan.pc = "match", UNCHANGED <<nodes, refs, current, lineNo>>,
         scan'.pc = "open", scan'.rest = scan.rest
  PROVE  SInv'
<1> DEFINE s == scan'
<1>1. SnugAt(nodes, s, current)
  <2>1. Snug(nodes, {})
    BY SInvGives DEF SnugAt
  <2>2. \A U : Snug(nodes, U)
    BY <2>1, SnugMore
  <2>3. QED
    BY <2>2 DEF SnugAt
<1>2. Filled(nodes, Gap(s))
  BY SInvGives, FilledMore DEF Gap
<1>3. ScanOK(s, lineNo)
  BY SInvGives DEF ScanOK
<1>4. QED
  BY <1>1, <1>2, <1>3, SInvGives, WholeKeeps DEF Whole

LEMMA AllMatchedWhole == ASSUME SInv, [Next]_vars, AllMatched PROVE SInv'
<1>1. scan'.pc = "open" /\ scan'.rest = scan.rest
  BY SInvGives DEF AllMatched, Scan
<1>2. QED
  BY <1>1, MatchedWhole DEF AllMatched

LEMMA NotMatchedWhole == ASSUME SInv, [Next]_vars, NotMatched PROVE SInv'
<1>1. scan'.pc = "open" /\ scan'.rest = scan.rest
  BY SInvGives DEF NotMatched, Scan
<1>2. QED
  BY <1>1, MatchedWhole DEF NotMatched

LEMMA TouchedSame ==
  ASSUME NEW t \in Seq(Block), NEW k \in DOMAIN t, NEW l \in Nat, NEW u, u = [t EXCEPT ![k].last = l]
  PROVE  DOMAIN u = DOMAIN t /\ \A m \in DOMAIN t : SameContent(t[m], u[m])
<1>1. \A m \in DOMAIN t : t[m] \in Block
  OBVIOUS
<1>2. ASSUME NEW m \in DOMAIN t PROVE SameContent(t[m], u[m])
  BY <1>1 DEF Block, SameContent
<1>3. QED
  BY <1>2

LEMMA MatchBlockWhole == ASSUME SInv, [Next]_vars, MatchBlock PROVE SInv'
<1> DEFINE k == Candidate
<1>1. scan.pc = "match" /\ LastOpen(nodes, scan.container) /\ UNCHANGED <<refs, panicked, current, lineNo>>
  BY DEF MatchBlock
<1>2. k \in DOMAIN nodes
  BY <1>1, SInvGives, KidsOf DEF Candidate
<1>3. nodes[k] \in Block
  BY <1>2, SInvGives
<1>4. PICK q \in Continued(nodes[k], scan.rest) : scan' = [scan EXCEPT !.container = k, !.rest = q]
  BY DEF MatchBlock
<1>5. Calm(q)
  BY <1>3, SInvGives, CalmContinued DEF ScanOK
<1>6. nodes' \in {nodes, [nodes EXCEPT ![k].last = lineNo]}
  BY DEF MatchBlock
<1> HIDE DEF k
<1>7. /\ nodes' \in Seq(Block) /\ SameShape(nodes, nodes')
      /\ DOMAIN nodes' = DOMAIN nodes /\ \A m \in DOMAIN nodes : SameContent(nodes[m], nodes'[m])
  <2>1. CASE nodes' = nodes
    BY <2>1, SInvGives DEF SameShape, SameContent
  <2>2. CASE nodes' = [nodes EXCEPT ![k].last = lineNo]
    BY <1>2, <2>2, SInvGives, TouchedKeeps, TouchedSame
  <2>3. QED
    BY <1>6, <2>1, <2>2
<1> DEFINE t == nodes'
           s == scan'
<1>8. s.pc = "match" /\ s.rest = q
  BY <1>1, <1>4, SInvGives DEF Scan
<1>9. SnugAt(t, s, current)
  BY <1>1, <1>7, <1>8, SInvGives, SameShapeSnug DEF SnugAt
<1>10. Defined(t, refs, lineNo)
  BY <1>7, SInvGives, SameDefined
<1>11. Filled(t, Gap(s))
  BY <1>1, <1>7, SInvGives, SameFilled, FilledMore DEF Gap
<1>12. ScanOK(s, lineNo)
  BY <1>1, <1>5, <1>8, SInvGives DEF ScanOK
<1>13. QED
  BY <1>1, <1>9, <1>10, <1>11, <1>12, WholeKeeps DEF Whole

\* Only a code block is closed by its fence
LEMMA CloseFenceWhole == ASSUME SInv, [Next]_vars, CloseFence PROVE SInv'
<1> DEFINE c == Candidate
           t == [nodes EXCEPT ![c].last = lineNo]
           d == [Doc EXCEPT !.nodes[c].last = lineNo]
           f == Finalized(d, c)
<1>1. /\ scan.pc = "match" /\ LastOpen(nodes, scan.container) /\ ClosesFence(nodes[c], scan.rest)
      /\ scan' = Idle /\ lineNo' = lineNo
  BY DEF CloseFence
<1>2. c \in DOMAIN nodes /\ nodes[c].open
  BY <1>1, SInvGives, KidsOf DEF Candidate
<1>3. nodes[c].kind = "CodeBlock"
  <2>1. Token(scan.rest) \notin {":::", "::::", ">>>", ">>>>"}
    BY SInvGives, CalmRest DEF ScanOK
  <2>2. FencesOf(nodes[c]) # {} /\ Token(scan.rest) \in FencesOf(nodes[c])
    BY <1>1 DEF ClosesFence, AloneOnLine, AtMarker
  <2>3. QED
    BY <2>1, <2>2 DEF FencesOf
<1>4. DocBecomes(f)
  BY <1>3 DEF CloseFence
<1>5. d.nodes = t /\ d.refs = refs
  BY DEF Doc
<1> HIDE DEF c, t, d
<1>6. /\ t \in Seq(Block) /\ SameShape(nodes, t)
      /\ DOMAIN t = DOMAIN nodes /\ \A m \in DOMAIN nodes : SameContent(nodes[m], t[m])
  BY <1>2, SInvGives, TouchedKeeps, TouchedSame DEF t
<1>7. Tree(t) /\ Snug(t, {})
  BY <1>1, <1>6, SInvGives, SameShapeIsTree, SameShapeSnug DEF SnugAt
<1>8. ~LastOpen(t, c) /\ c \in DOMAIN t /\ t[c].open
  <2>1. t[c].kind = "CodeBlock" /\ t[c].open /\ c \in DOMAIN t
    BY <1>2, <1>3, <1>6 DEF SameContent
  <2>2. LastKid(t, c) = None
    BY <1>6, <1>7, <2>1, LeavesHoldNone DEF General, Lists, Fenced
  <2>3. QED
    BY <2>1, <2>2 DEF LastOpen
<1>9. Defined(t, refs, lineNo) /\ Filled(t, {})
  BY <1>1, <1>6, SInvGives, SameDefined, SameFilled DEF Gap
<1>10. refs \in 0..MaxLines
  BY SInvGives DEF Typed
<1>11. Defined(f.nodes, f.refs, lineNo) /\ Filled(f.nodes, {}) /\ Snug(f.nodes, {} \ {c})
  BY <1>5, <1>6, <1>7, <1>8, <1>9, <1>10, SInvGives, FinalizedWhole
<1>12. nodes' = f.nodes /\ refs' = f.refs
  BY <1>4 DEF DocBecomes
<1> HIDE DEF f
<1> DEFINE s == Idle
<1>13. s.pc = "line" /\ s.rest = <<>>
  BY DEF Idle
<1> HIDE DEF s
<1>14. SnugAt(f.nodes, s, current')
  BY <1>11, <1>13 DEF SnugAt
<1>15. Filled(f.nodes, Gap(s))
  BY <1>11, <1>13 DEF Gap
<1>16. ScanOK(s, lineNo)
  BY <1>13, SInvGives, CalmRest DEF ScanOK
<1>17. scan' = s
  BY <1>1 DEF s
<1>18. QED
  BY <1>1, <1>11, <1>12, <1>14, <1>15, <1>16, <1>17, WholeKeeps DEF Whole

(***************************************************************************)
(* A handler opens blocks                                                  *)
(***************************************************************************)
LEMMA OpenWhole ==
  ASSUME SInv, [Next]_vars, Opening, NEW blocks, NEW r, Open(blocks, r), Calm(r),
         \A i \in DOMAIN blocks : Unwritten(blocks[i], r)
  PROVE  SInv'
<1> DEFINE s == scan'
<1>1. UNCHANGED <<nodes, refs, panicked, current, lineNo>> /\ scan.pc = "open"
  BY DEF Open, Opening
<1>2. /\ s.pc = "add" /\ s.rest = r /\ s.new = blocks /\ s.container = scan.container
      /\ s.matched = scan.matched
  BY SInvGives DEF Open, Scan
<1> HIDE DEF s
<1>3. SnugAt(nodes, s, current)
  BY <1>1, <1>2, SInvGives DEF SnugAt
<1>4. Filled(nodes, Gap(s))
  BY <1>1, SInvGives, FilledMore DEF Gap
<1>5. ScanOK(s, lineNo)
  BY <1>1, <1>2, SInvGives DEF ScanOK
<1>6. QED
  BY <1>1, <1>3, <1>4, <1>5, SInvGives, WholeKeeps DEF Whole, s

LEMMA OpenOneWhole ==
  ASSUME SInv, [Next]_vars, Opening, NEW kind, NEW tag, NEW off, NEW pad, NEW r,
         kind # "Paragraph", tag # "setext", Open(<<NewNode(kind, tag, off, pad)>>, r), Calm(r)
  PROVE  SInv'
<1> DEFINE b == NewNode(kind, tag, off, pad)
           s == <<b>>
<1>1. Unwritten(b, r)
  BY DEF NewNode, Unwritten
<1>2. Open(s, r)
  OBVIOUS
<1> HIDE DEF b
<1>3. \A i \in DOMAIN s : s[i] = b
  OBVIOUS
<1> HIDE DEF s
<1>4. \A i \in DOMAIN s : Unwritten(s[i], r)
  BY <1>1, <1>3
<1>5. QED
  BY <1>2, <1>4, OpenWhole

LEMMA CalmHere ==
  ASSUME SInv
  PROVE  /\ Calm(scan.rest) /\ Calm(After(scan.rest)) /\ Calm(<<>>) /\ Calm(Drop(scan.rest, 2))
         /\ Token(scan.rest) \notin {":::", "::::", ">>>", ">>>>", ":"}
BY SInvGives, CalmRest DEF ScanOK

LEMMA OpenFenceWhole == ASSUME SInv, [Next]_vars, OpenFence PROVE SInv'
<1> DEFINE k == FenceOf[Token(scan.rest)]
           tag == IF k = "CodeBlock" THEN "fenced" ELSE ""
           size == FenceLength(Token(scan.rest))
<1>1. Opening /\ Open(<<NewNode(k, tag, Indent(scan.rest), size)>>, <<>>) /\ OpensFence(scan.rest)
  BY DEF OpenFence
<1>2. Token(scan.rest) \in {":::", "::::", ":::s", ">>>", ">>>>", "~~~", "~~~~"}
  BY <1>1 DEF OpensFence, FenceOf
<1>3. k \in {"Directive", "Spoiler", "Multiline", "CodeBlock"}
  BY <1>2 DEF FenceOf
<1>4. k # "Paragraph" /\ tag # "setext"
  BY <1>3
<1> HIDE DEF k, tag, size
<1>5. QED
  BY <1>1, <1>4, CalmHere, OpenOneWhole

LEMMA OpenBlockQuoteWhole == ASSUME SInv, [Next]_vars, OpenBlockQuote PROVE SInv'
<1>1. Opening /\ Open(<<NewNode("BlockQuote", "", 0, 0)>>, PastQuote(scan.rest))
  BY DEF OpenBlockQuote
<1>2. PastQuote(scan.rest) = After(scan.rest)
  BY CalmHere DEF PastQuote
<1>3. QED
  BY <1>1, <1>2, CalmHere, OpenOneWhole

LEMMA OpenHeadingWhole == ASSUME SInv, [Next]_vars, OpenHeading PROVE SInv'
<1>1. Opening /\ Open(<<NewNode("Heading", "", 0, 0)>>, After(scan.rest))
  BY DEF OpenHeading
<1>2. QED
  BY <1>1, CalmHere, OpenOneWhole

LEMMA OpenCommentWhole == ASSUME SInv, [Next]_vars, OpenComment PROVE SInv'
<1>1. Opening /\ Open(<<NewNode("Comment", "", 0, 0)>>, After(scan.rest))
  BY DEF OpenComment
<1>2. QED
  BY <1>1, CalmHere, OpenOneWhole

LEMMA OpenHtmlBlockWhole == ASSUME SInv, [Next]_vars, OpenHtmlBlock PROVE SInv'
<1> DEFINE tag == IF Token(scan.rest) = "<!" THEN "comment" ELSE "tag"
<1>1. Opening /\ Open(<<NewNode("HtmlBlock", tag, 0, 0)>>, scan.rest) /\ tag # "setext"
  BY DEF OpenHtmlBlock
<1> HIDE DEF tag
<1>2. QED
  BY <1>1, CalmHere, OpenOneWhole

LEMMA OpenThematicBreakWhole == ASSUME SInv, [Next]_vars, OpenThematicBreak PROVE SInv'
<1>1. Opening /\ Open(<<NewNode("ThematicBreak", "", 0, 0)>>, <<>>)
  BY DEF OpenThematicBreak
<1>2. QED
  BY <1>1, CalmHere, OpenOneWhole

LEMMA OpenFootnoteWhole == ASSUME SInv, [Next]_vars, OpenFootnote PROVE SInv'
<1>1. Opening /\ Open(<<NewNode("Footnote", "", 0, 0)>>, After(scan.rest))
  BY DEF OpenFootnote
<1>2. QED
  BY <1>1, CalmHere, OpenOneWhole

LEMMA OpenIndentedCodeWhole == ASSUME SInv, [Next]_vars, OpenIndentedCode PROVE SInv'
<1>1. Opening /\ Open(<<NewNode("CodeBlock", "indented", 0, 0)>>, Drop(scan.rest, 2))
  BY DEF OpenIndentedCode
<1>2. QED
  BY <1>1, CalmHere, OpenOneWhole

LEMMA OpenItemWhole == ASSUME SInv, [Next]_vars, OpenItem PROVE SInv'
<1> DEFINE marker == Token(scan.rest)
           text == After(scan.rest)
           gap == IF Indent(text) = 1 /\ ~Blank(text) THEN 1 ELSE 0
           off == Indent(scan.rest)
           item == NewNode("Item", marker, off, 1 + gap)
           list == NewNode("List", marker, 0, 0)
           matches == ContainerKind = "List" /\ nodes[scan.container].tag = marker
           r == Drop(text, gap)
           blocks == IF matches THEN <<item>> ELSE <<list, item>>
<1>1. Opening /\ Open(blocks, r) /\ marker \in {"-", "1"}
  BY DEF OpenItem, OpensItem
<1>2. text \in Seq(Word) /\ Calm(text) /\ gap \in Nat
  BY SInvGives, LineIsSeq, CalmHere
<1> HIDE DEF text, gap
<1>3. Calm(r)
  BY <1>2, CalmRest
<1> HIDE DEF r, off, matches
<1>4. Unwritten(item, r) /\ Unwritten(list, r)
  BY <1>1 DEF NewNode, Unwritten
<1> HIDE DEF item, list, marker
<1>5. \A i \in DOMAIN blocks : blocks[i] \in {item, list}
  OBVIOUS
<1> HIDE DEF blocks
<1>6. \A i \in DOMAIN blocks : Unwritten(blocks[i], r)
  BY <1>4, <1>5
<1>7. QED
  BY <1>1, <1>3, <1>6, OpenWhole

\* Nothing describes the paragraph before
LEMMA NoDescription == ASSUME SInv PROVE ~DescribeParagraph /\ ~DescribeAgain
BY CalmHere DEF DescribeParagraph, DescribeAgain, OpensDescription, AtMarker

LEMMA NothingOpensWhole == ASSUME SInv, [Next]_vars, NothingOpens PROVE SInv'
<1> DEFINE s == scan'
<1>1. UNCHANGED <<nodes, refs, panicked, current, lineNo>> /\ scan.pc = "open"
  BY DEF NothingOpens
<1>2. /\ s.pc = "text" /\ s.rest = scan.rest /\ s.container = scan.container
      /\ s.matched = scan.matched
  BY SInvGives DEF NothingOpens, Scan
<1> HIDE DEF s
<1>3. SnugAt(nodes, s, current)
  BY <1>1, <1>2, SInvGives DEF SnugAt
<1>4. Filled(nodes, Gap(s))
  BY <1>1, SInvGives, FilledMore DEF Gap
<1>5. ScanOK(s, lineNo)
  BY <1>1, <1>2, SInvGives DEF ScanOK
<1>6. QED
  BY <1>1, <1>3, <1>4, <1>5, SInvGives, WholeKeeps DEF Whole, s

\* The underline of a paragraph
LEMMA SetextHeadingWhole == ASSUME SInv, [Next]_vars, SetextHeading PROVE SInv'
<1> DEFINE c == scan.container
           b == nodes[c]
           rest == Drop(b.lines, Definitions(b.lines))
           kind == IF rest = <<>> THEN b.kind ELSE "Heading"
           h == [b EXCEPT !.lines = rest, !.kind = kind, !.tag = "setext"]
           t == [nodes EXCEPT ![c] = h]
           s == [scan EXCEPT !.pc = "text", !.rest = IF rest = <<>> THEN @ ELSE <<>>]
           q == Resolved(refs, b.lines)
<1>1. scan.pc = "open" /\ UNCHANGED <<panicked, current, lineNo>> /\ refs' = q /\ scan' = s
  BY DEF SetextHeading, Opening
<1>2. nodes' = t
  BY DEF SetextHeading
<1>3. PICK Q, U : Mid(nodes, Q, U, current, scan.matched, c)
  BY <1>1, SInvGives DEF PathOK
<1>4. b \in Block /\ b.lines \in Content
  <2>1. b \in Block
    BY SInvGives
  <2>2. QED
    BY <2>1 DEF Block
<1>5. b.kind = "Paragraph" /\ ~Blank(scan.rest)
  BY DEF SetextHeading, OpensSetext, ContainerKind, AloneOnLine, AtMarker, Blank
<1>6. b.open /\ b.parent < c
  <2>1. Path(nodes, Q, c)
    BY <1>3 DEF Mid
  <2>2. c # Root
    BY <1>5, SInvGives DEF Tree, Rooted
  <2>3. QED
    BY <2>1, <2>2 DEF Path
<1>7. b.lines # <<>>
  BY <1>1, <1>5, <1>6, SInvGives DEF Filled, Gap
<1>8. rest \in Content
  BY <1>4, DefinitionsBegin
<1>9. s.pc = "text" /\ s.container = c /\ s.matched = scan.matched /\ s.rest = IF rest = <<>> THEN scan.rest ELSE <<>>
  BY SInvGives DEF Scan
<1> HIDE DEF s
<1>10. /\ h \in Block /\ h.parent = b.parent /\ h.kids = b.kids /\ h.open = b.open /\ h.kind = kind
       /\ h.tag = "setext" /\ h.wrote = b.wrote /\ h.lines = rest
  <2>1. "setext" \in Word /\ "Heading" \in Kinds
    BY DEF Word, Kinds, Leaves
  <2> HIDE DEF rest
  <2>2. QED
    BY <1>4, <1>8, <2>1 DEF Block
<1> HIDE DEF h
<1>11. /\ t \in Seq(Block) /\ DOMAIN t = DOMAIN nodes
       /\ \A m \in DOMAIN nodes : t[m] = IF m = c THEN h ELSE nodes[m]
  BY <1>10, SInvGives, EditBlock
<1> HIDE DEF t
<1>12. SameShape(nodes, t)
  BY <1>5, <1>6, <1>10, <1>11 DEF SameShape
<1>13. Defined(t, q, lineNo)
  <2>1. c \in DOMAIN nodes /\ t[c] = h
    BY <1>11, SInvGives
  <2>2. /\ t[c].tag = "setext" /\ t[c].wrote = nodes[c].wrote /\ t[c].open
        /\ t[c].kind = IF Drop(nodes[c].lines, Definitions(nodes[c].lines)) = <<>> THEN "Paragraph" ELSE "Heading"
    BY <1>5, <1>6, <1>10, <2>1
  <2>3. QED
    BY <1>5, <1>6, <1>7, <1>11, <2>1, <2>2, SInvGives, SetextDefined
<1>14. Filled(t, Gap(s))
  <2>1. Filled(nodes, {})
    BY <1>1, SInvGives DEF Gap
  <2>2. Filled(t, {c})
    BY <1>11, <2>1 DEF Filled
  <2>3. CASE rest = <<>>
    <3>1. Gap(s) = {c}
      BY <1>5, <1>9, <2>3 DEF Gap
    <3>2. QED
      BY <2>2, <3>1
  <2>4. CASE rest # <<>>
    <3>1. t[c].kind = "Heading"
      BY <1>10, <1>11, <2>4, SInvGives
    <3>2. Filled(t, {})
      BY <2>2, <3>1 DEF Filled
    <3>3. QED
      BY <3>2, FilledMore
  <2>5. QED
    BY <2>3, <2>4
<1>15. SnugAt(t, s, current)
  <2> SUFFICES ASSUME NEW P, NEW V, Mid(t, P, V, current, scan.matched, c)
               PROVE  Snug(t, V)
    BY <1>9 DEF SnugAt
  <2>1. Snug(nodes, U)
    BY <1>1, <1>3, SInvGives DEF SnugAt
  <2>2. Snug(t, U)
    BY <1>11, <1>12, <2>1, SInvGives, SameShapeSnug
  <2>3. Pending(nodes, Q, U, current, scan.matched, c) /\ Pending(t, P, V, current, scan.matched, c)
    BY <1>3 DEF Mid
  <2>4. \A k \in U : t[k].parent = nodes[k].parent
    BY <1>12, <2>3 DEF SameShape, Pending
  <2>5. U \subseteq V
    BY <2>3, <2>4, SInvGives, StillPending
  <2>6. QED
    BY <2>2, <2>5, SnugMore
<1>16. ScanOK(s, lineNo)
  BY <1>1, <1>9, CalmHere, SInvGives DEF ScanOK
<1>17. QED
  BY <1>1, <1>2, <1>13, <1>14, <1>15, <1>16, WholeKeeps DEF Whole

(***************************************************************************)
(* add_child                                                               *)
(***************************************************************************)
LEMMA CloseToFitWhole == ASSUME SInv, [Next]_vars, CloseToFit PROVE SInv'
<1> DEFINE c == scan.container
           p == nodes[c].parent
           f == Finalized(Doc, c)
           s == [scan EXCEPT !.container = p]
<1>1. scan.pc = "add" /\ UNCHANGED <<current, lineNo>> /\ DocBecomes(f) /\ scan' = s
  BY DEF CloseToFit
<1>2. PICK Q, U : Mid(nodes, Q, U, current, scan.matched, c)
  BY <1>1, SInvGives DEF PathOK
<1>3. Pending(nodes, Q, U, current, scan.matched, c) /\ c \in Q /\ nodes[c].open /\ U \subseteq DOMAIN nodes /\ c \notin U
  BY <1>2 DEF Mid, Path, Pending
<1>4. Doc.nodes = nodes /\ Doc.refs = refs /\ refs \in 0..MaxLines
  BY SInvGives DEF Doc, Typed
<1>5. Snug(nodes, U) /\ (LastOpen(nodes, c) => LastKid(nodes, c) \in U)
  BY <1>1, <1>2, SInvGives DEF SnugAt, Mid, Slack
<1>6. Filled(nodes, {}) /\ c \in DOMAIN nodes
  BY <1>1, SInvGives DEF Gap
<1>7. /\ Pruned(nodes, f.nodes, c) /\ Defined(f.nodes, f.refs, lineNo) /\ Filled(f.nodes, {})
      /\ Snug(f.nodes, U \ {c})
  BY <1>3, <1>4, <1>5, <1>6, SInvGives, FinalizedWhole
<1>8. nodes' = f.nodes /\ refs' = f.refs
  BY <1>1 DEF DocBecomes
<1> HIDE DEF f
<1>9. s.pc = "add" /\ s.new = scan.new /\ s.rest = scan.rest /\ s.matched = scan.matched /\ s.container = p
  BY <1>1, SInvGives DEF Scan
<1> HIDE DEF s
<1>10. SnugAt(f.nodes, s, current)
  <2> SUFFICES ASSUME NEW P, NEW V, Mid(f.nodes, P, V, current, scan.matched, p)
               PROVE  Snug(f.nodes, V)
    BY <1>9 DEF SnugAt
  <2>1. Pending(f.nodes, P, V, current, scan.matched, p)
    BY DEF Mid
  <2>2. \A k \in U : f.nodes[k].parent = nodes[k].parent
    BY <1>3, <1>7 DEF Pruned
  <2>3. U \subseteq V
    BY <1>3, <2>1, <2>2, SInvGives, StillPending
  <2>4. QED
    BY <1>7, <2>3, SnugMore
<1>11. Filled(f.nodes, Gap(s))
  BY <1>7, <1>9 DEF Gap
<1>12. ScanOK(s, lineNo)
  BY <1>1, <1>9, SInvGives DEF ScanOK
<1>13. QED
  BY <1>1, <1>7, <1>8, <1>10, <1>11, <1>12, WholeKeeps DEF Whole

LEMMA AddToContent ==
  ASSUME NEW t \in Seq(Block), NEW c \in DOMAIN t, NEW b \in Block, NEW u, u = AddTo(t, c, b),
         NEW n, n = Len(t) + 1
  PROVE  SameContent(b, u[n]) /\ \A m \in DOMAIN t : SameContent(t[m], u[m])
<1> DEFINE k == Append(t[c].kids, n)
           v == [t EXCEPT ![c].kids = k]
           e == [b EXCEPT !.parent = c]
<1>1. u = Append(v, e)
  BY DEF AddTo
<1>2. \A m \in DOMAIN t : t[m] \in Block
  OBVIOUS
<1>3. v = [m \in DOMAIN t |-> v[m]] /\ \A m \in DOMAIN t : SameContent(t[m], v[m])
  <2> HIDE DEF k
  <2>1. QED
    BY <1>2 DEF Block, SameContent
<1>4. SameContent(b, e)
  BY DEF Block, SameContent
<1>5. DOMAIN v = 1..Len(t) /\ Len(t) \in Nat /\ Len(v) = Len(t)
  OBVIOUS
<1> HIDE DEF v, e
<1>6. u[n] = e /\ \A m \in DOMAIN t : u[m] = v[m]
  BY <1>1, <1>5
<1>7. QED
  BY <1>3, <1>4, <1>6

LEMMA AddChildWhole == ASSUME SInv, [Next]_vars, AddChild PROVE SInv'
<1> DEFINE c == scan.container
           n == Len(nodes) + 1
           b == scan.new[1]
           t == AddTo(nodes, c, b)
           step == IF Len(scan.new) > 1 THEN "add"
                   ELSE IF b.kind = "Paragraph" THEN "store"
                   ELSE IF b.kind \in Leaves THEN "text" ELSE "open"
           s == [scan EXCEPT !.container = n, !.new = Tail(@), !.lazy = FALSE, !.pc = step]
<1>1. scan.pc = "add" /\ UNCHANGED <<refs, panicked, current, lineNo>>
  BY DEF AddChild
<1>2. PICK Q, U : Mid(nodes, Q, U, current, scan.matched, c)
  BY <1>1, SInvGives DEF PathOK
<1>3. NewOK
  BY <1>1, SInvGives DEF PathOK, AddOK
<1>4. /\ b \in Block /\ b.open /\ b.kids = <<>> /\ Head(scan.new) = b /\ Len(scan.new) \in {1, 2}
      /\ Len(scan.new) = 1 => Tail(scan.new) = <<>>
      /\ Len(scan.new) = 2 => Tail(scan.new) = <<scan.new[2]>>
  BY <1>3, HeadOfNew
<1>5. CanContain(nodes[c].kind, b.kind) /\ nodes' = t /\ scan' = s
  BY <1>4 DEF AddChild, ContainerKind
<1>6. \A i \in DOMAIN scan.new : Unwritten(scan.new[i], scan.rest)
  BY <1>1, SInvGives DEF ScanOK
<1>7. 1 \in DOMAIN scan.new /\ (Len(scan.new) = 2 => 2 \in DOMAIN scan.new)
  BY <1>3, <1>4 DEF NewOK
<1>8. Unwritten(b, scan.rest)
  BY <1>6, <1>7
<1>9. /\ t \in Seq(Block) /\ Grown(nodes, t, c, n)
      /\ t[n].kind = b.kind /\ t[n].open = b.open /\ t[n].kids = b.kids
      /\ SameContent(b, t[n]) /\ \A m \in DOMAIN nodes : SameContent(nodes[m], t[m])
  BY <1>4, SInvGives, AddToGrows, AddToContent
<1>10. n \in Nat
  BY SInvGives
<1> HIDE DEF n, t, step
<1>11. s.pc = step /\ s.container = n /\ s.matched = scan.matched /\ s.rest = scan.rest /\ s.new = Tail(scan.new)
  BY SInvGives DEF Scan
<1> HIDE DEF s
<1>12. c \in DOMAIN nodes /\ n \notin DOMAIN nodes /\ DOMAIN t = DOMAIN nodes \cup {n}
       /\ \A m \in DOMAIN nodes : t[m].parent = nodes[m].parent
  BY <1>9, SInvGives DEF Grown
<1>13. /\ Path(nodes, Q, c) /\ Pending(nodes, Q, U, current, scan.matched, c) /\ Slack(nodes, c, U)
       /\ nodes[c].open /\ U \subseteq DOMAIN nodes
  BY <1>2 DEF Mid, Path, Pending
<1>14. Snug(nodes, U)
  BY <1>1, <1>2, SInvGives DEF SnugAt
<1>15. Snug(t, U)
  BY <1>4, <1>9, <1>12, <1>13, <1>14, SInvGives, GrownSnug
<1>16. b.kind = "Paragraph" => /\ U = {} /\ step = "store" /\ ~Blank(scan.rest)
  <2> SUFFICES ASSUME b.kind = "Paragraph" PROVE U = {} /\ step = "store" /\ ~Blank(scan.rest)
    OBVIOUS
  <2>1. Len(scan.new) = 1 /\ current = scan.matched
    BY <1>3 DEF NewOK
  <2>2. U = {}
    BY <1>2, <2>1, NothingPending
  <2>3. QED
    BY <1>8, <2>1, <2>2 DEF step, Unwritten
<1>17. b.kind = "Paragraph" => \A m \in DOMAIN nodes : ~(nodes[m].kind = "Paragraph" /\ nodes[m].open)
  <2> SUFFICES ASSUME b.kind = "Paragraph", NEW m \in DOMAIN nodes, nodes[m].kind = "Paragraph", nodes[m].open
               PROVE  FALSE
    OBVIOUS
  <2>1. m \in Q
    BY <1>13, <1>14, <1>16, SInvGives, AllOnPath
  <2>2. nodes[m].kind \notin General \cup Lists
    BY DEF General, Lists, Fenced
  <2>3. LastKid(nodes, m) = None
    BY <2>2, SInvGives, LeavesHoldNone
  <2>4. m = c
    <3>1. None \notin DOMAIN nodes
      BY SInvGives DEF None
    <3>2. QED
      BY <1>13, <2>1, <2>3, <3>1 DEF Path
  <2>5. QED
    BY <1>5, <2>2, <2>4, WhatHoldsWhat
<1>18. Defined(t, refs, lineNo)
  BY <1>4, <1>8, <1>9, <1>12, <1>17, SInvGives, GrownDefined DEF SameContent, Unwritten
<1>19. Filled(t, Gap(s))
  <2>1. Filled(nodes, {})
    BY <1>1, SInvGives DEF Gap
  <2>2. Filled(t, {n})
    BY <1>9, <1>12, <2>1 DEF Filled, SameContent
  <2>3. CASE b.kind = "Paragraph"
    <3>1. Gap(s) = {n}
      BY <1>11, <1>16, <2>3 DEF Gap
    <3>2. QED
      BY <2>2, <3>1
  <2>4. CASE b.kind # "Paragraph"
    <3>1. Filled(t, {})
      BY <1>9, <2>2, <2>4 DEF Filled
    <3>2. QED
      BY <3>1, FilledMore
  <2>5. QED
    BY <2>3, <2>4
<1>20. SnugAt(t, s, current)
  <2>1. step \in {"add", "text", "open"} \/ (step = "store" /\ b.kind = "Paragraph")
    BY DEF step
  <2>2. step = "store" => Snug(t, {})
    BY <1>15, <1>16, <2>1
  <2>3. ASSUME NEW P, NEW V, Mid(t, P, V, current, scan.matched, n)
        PROVE  Snug(t, V)
    <3>1. Pending(t, P, V, current, scan.matched, n)
      BY <2>3 DEF Mid
    <3>2. \A k \in U : t[k].parent = nodes[k].parent
      BY <1>12, <1>13
    <3>3. U \subseteq V
      BY <1>13, <3>1, <3>2, SInvGives, StillPending
    <3>4. QED
      BY <1>15, <3>3, SnugMore
  <2>4. QED
    BY <1>11, <2>1, <2>2, <2>3 DEF SnugAt
<1>21. ScanOK(s, lineNo)
  <2>1. lineNo # 0 /\ Calm(scan.rest)
    BY <1>1, SInvGives DEF ScanOK
  <2>2. ASSUME step = "add" PROVE \A i \in DOMAIN s.new : Unwritten(s.new[i], scan.rest)
    <3> DEFINE x == scan.new[2]
               y == <<x>>
    <3>1. Len(scan.new) = 2
      <4>1. Len(scan.new) > 1
        BY <2>2 DEF step
      <4>2. Len(scan.new) \in {1, 2}
        BY <1>4
      <4>3. \A k \in {1, 2} : k > 1 => k = 2
        OBVIOUS
      <4>4. QED
        BY <4>1, <4>2, <4>3
    <3>2. s.new = y /\ Unwritten(x, scan.rest)
      BY <1>4, <1>6, <1>7, <1>11, <3>1
    <3> HIDE DEF x
    <3>3. \A i \in DOMAIN y : y[i] = x
      OBVIOUS
    <3> HIDE DEF y
    <3>4. QED
      BY <3>2, <3>3
  <2>3. QED
    BY <1>11, <2>1, <2>2 DEF ScanOK
<1>22. QED
  BY <1>1, <1>5, <1>18, <1>19, <1>20, <1>21, WholeKeeps DEF Whole

(***************************************************************************)
(* add_text_to_container                                                   *)
(***************************************************************************)
LEMMA MarkedContent ==
  ASSUME NEW t \in Seq(Block), NEW c, NEW blank, NEW u, u = MarkedBlank(t, c, blank)
  PROVE  DOMAIN u = DOMAIN t /\ \A m \in DOMAIN t : SameContent(t[m], u[m])
<1> DEFINE comment == t[c].kind = "Comment" /\ t[c].start # lineNo /\ (blank \/ t[c].blank)
           v == [m \in DOMAIN t |-> IF m = c THEN comment \/ (blank /\ KeepsBlank(t[c]))
                                    ELSE IF m \in Above(t, c) THEN FALSE
                                    ELSE t[m].blank \/ (blank /\ m = LastKid(t, c))]
<1>1. u = [m \in DOMAIN t |-> [t[m] EXCEPT !.blank = v[m]]]
  BY DEF MarkedBlank
<1> HIDE DEF v
<1>2. \A m \in DOMAIN t : t[m] \in Block
  OBVIOUS
<1>3. QED
  BY <1>1, <1>2 DEF SameContent, Block

LEMMA MarkBlanksWhole == ASSUME SInv, [Next]_vars, MarkBlanks PROVE SInv'
<1> DEFINE c == scan.container
           t == nodes'
           s == scan'
<1>1. scan.pc = "text" /\ UNCHANGED <<refs, panicked, current, lineNo>>
      /\ nodes' = MarkedBlank(nodes, c, Blank(scan.rest))
  BY DEF MarkBlanks
<1>2. PICK Q, U : Mid(nodes, Q, U, current, scan.matched, c)
  BY <1>1, SInvGives DEF PathOK
<1>3. /\ t \in Seq(Block) /\ SameShape(nodes, t)
      /\ DOMAIN t = DOMAIN nodes /\ \A m \in DOMAIN nodes : SameContent(nodes[m], t[m])
  BY <1>1, SInvGives, MarkedKeeps, MarkedContent
<1>4. /\ s.matched = scan.matched /\ s.rest = scan.rest
      /\ IsLazy => s.pc = "store" /\ s.container = current
      /\ ~IsLazy => s.pc = "close" /\ s.container = c
  <2>1. CASE IsLazy
    BY <2>1, SInvGives DEF MarkBlanks, Scan
  <2>2. CASE ~IsLazy
    BY <2>2, SInvGives DEF MarkBlanks, Scan
  <2>3. QED
    BY <2>1, <2>2
<1> HIDE DEF t, s
<1>5. Snug(nodes, U)
  BY <1>1, <1>2, SInvGives DEF SnugAt
<1>6. Defined(t, refs, lineNo) /\ Filled(t, Gap(scan))
  BY <1>3, SInvGives, SameDefined, SameFilled
<1>7. ScanOK(s, lineNo)
  BY <1>1, <1>4, SInvGives DEF ScanOK
<1>8. CASE IsLazy
  <2>1. Mid(nodes, Q, U, current, c, c) /\ current # c /\ ~Blank(scan.rest)
    BY <1>2, <1>8 DEF IsLazy
  <2>2. Snug(nodes, {})
    BY <1>5, <2>1, SInvGives, JoinSnug
  <2>3. SnugAt(t, s, current)
    BY <1>3, <1>4, <1>8, <2>2, SInvGives, SameShapeSnug DEF SnugAt
  <2>4. nodes[c].kind # "Paragraph"
    <3>1. LastKid(nodes, c) \in U /\ U \subseteq DOMAIN nodes
      BY <2>1 DEF Mid, Pending
    <3>2. LastKid(nodes, c) # None
      BY <3>1, SInvGives DEF None
    <3>3. QED
      BY <3>2, SInvGives, LeavesHoldNone DEF General, Lists, Fenced
  <2>5. Filled(t, {})
    <3>1. Filled(t, {c})
      BY <1>1, <1>6, <2>1 DEF Gap
    <3>2. c \in DOMAIN nodes => t[c].kind # "Paragraph"
      BY <1>3, <2>4 DEF SameContent
    <3>3. QED
      BY <1>3, <3>1, <3>2 DEF Filled
  <2>6. Filled(t, Gap(s))
    BY <2>5, FilledMore
  <2>7. QED
    BY <1>1, <1>6, <1>7, <2>3, <2>6, WholeKeeps DEF Whole, t, s
<1>9. CASE ~IsLazy
  <2>1. Snug(t, U)
    BY <1>3, <1>5, SInvGives, SameShapeSnug
  <2>2. ASSUME NEW P, NEW V, Mid(t, P, V, current, scan.matched, c)
        PROVE  Snug(t, V)
    <3>1. Pending(nodes, Q, U, current, scan.matched, c) /\ Pending(t, P, V, current, scan.matched, c)
      BY <1>2, <2>2 DEF Mid
    <3>2. \A k \in U : t[k].parent = nodes[k].parent
      BY <1>3, <3>1 DEF SameShape, Pending
    <3>3. U \subseteq V
      BY <3>1, <3>2, SInvGives, StillPending
    <3>4. QED
      BY <2>1, <3>3, SnugMore
  <2>3. SnugAt(t, s, current)
    BY <1>4, <1>9, <2>2 DEF SnugAt
  <2>4. Gap(s) = Gap(scan)
    BY <1>1, <1>4, <1>9 DEF Gap
  <2>5. QED
    BY <1>1, <1>6, <1>7, <2>3, <2>4, WholeKeeps DEF Whole, t, s
<1>10. QED
  BY <1>8, <1>9

LEMMA CloseUnmatchedWhole == ASSUME SInv, [Next]_vars, CloseUnmatched PROVE SInv'
<1> DEFINE f == Finalized(Doc, current)
           p == nodes[current].parent
<1>1. /\ scan.pc = "close" /\ current # scan.matched /\ UNCHANGED <<scan, lineNo>> /\ current' = p
      /\ DocBecomes([f EXCEPT !.panicked = @ \/ current = Root])
  BY DEF CloseUnmatched
<1>2. PICK Q, U : Mid(nodes, Q, U, current, scan.matched, scan.container)
  BY <1>1, SInvGives DEF PathOK
<1>3. nodes' = f.nodes /\ refs' = f.refs
  <2>1. f = [nodes |-> f.nodes, refs |-> f.refs, panicked |-> f.panicked]
    BY DEF Finalized
  <2> HIDE DEF f
  <2>2. QED
    BY <1>1, <2>1 DEF DocBecomes
<1>4. Pending(nodes, Q, U, current, scan.matched, scan.container) /\ U \subseteq DOMAIN nodes
      /\ ~LastOpen(nodes, current) /\ nodes[current].open
  BY <1>1, <1>2 DEF Mid, Pending
<1>5. Snug(nodes, U) /\ current \in DOMAIN nodes
  BY <1>1, <1>2, SInvGives DEF SnugAt
<1>6. Doc.nodes = nodes /\ Doc.refs = refs /\ refs \in 0..MaxLines
  BY SInvGives DEF Doc, Typed
<1>7. /\ Pruned(nodes, f.nodes, current) /\ Defined(f.nodes, f.refs, lineNo)
      /\ Filled(f.nodes, Gap(scan)) /\ Snug(f.nodes, U \ {current})
  BY <1>4, <1>5, <1>6, SInvGives, FinalizedWhole
<1> HIDE DEF f
<1>8. SnugAt(f.nodes, scan, p)
  <2> SUFFICES ASSUME NEW P, NEW V, Mid(f.nodes, P, V, p, scan.matched, scan.container)
               PROVE  Snug(f.nodes, V)
    BY <1>1 DEF SnugAt
  <2>1. Pending(f.nodes, P, V, p, scan.matched, scan.container)
    BY DEF Mid
  <2>2. \A k \in U \ {current} : f.nodes[k].parent = nodes[k].parent
    BY <1>4, <1>7 DEF Pruned
  <2>3. U \ {current} \subseteq V
    <3>1. nodes \in Seq(Block) /\ Tree(nodes) /\ Pending(nodes, Q, U, current, scan.matched, scan.container)
      BY <1>4, SInvGives
    <3> DEFINE S == U \ {current}
    <3>2. Climbs(nodes, f.nodes, U, current, p, S)
      BY <2>2 DEF Climbs
    <3> HIDE DEF p, S
    <3>3. S \subseteq V
      BY <2>1, <3>1, <3>2, ClimbPending
    <3>4. QED
      BY <3>3 DEF S
  <2>4. QED
    BY <1>7, <2>3, SnugMore
<1>9. QED
  BY <1>1, <1>3, <1>7, <1>8, SInvGives, WholeKeeps DEF Whole

LEMMA AllClosedWhole == ASSUME SInv, [Next]_vars, AllClosed PROVE SInv'
<1> DEFINE b == NewNode("Paragraph", "", 0, 0)
           y == <<b>>
           s == scan'
<1>1. scan.pc = "close" /\ current = scan.matched /\ UNCHANGED <<nodes, refs, panicked, current, lineNo>>
  BY DEF AllClosed
<1>2. PICK Q, U : Mid(nodes, Q, U, current, scan.matched, scan.container)
  BY <1>1, SInvGives DEF PathOK
<1>3. CASE ContainerKind \in Leaves \cup Verbatim \/ Blank(scan.rest)
  <2>1. s.pc = "store" /\ s.rest = scan.rest /\ s.container = scan.container /\ s.matched = scan.matched
    BY <1>3, SInvGives DEF AllClosed, Scan
  <2> HIDE DEF s
  <2>2. Snug(nodes, {})
    BY <1>1, <1>2, SInvGives, NothingPending DEF SnugAt
  <2>3. SnugAt(nodes, s, current)
    BY <2>1, <2>2 DEF SnugAt
  <2>4. Gap(s) = Gap(scan)
    BY <1>1, <2>1 DEF Gap
  <2>5. ScanOK(s, lineNo)
    BY <1>1, <2>1, SInvGives DEF ScanOK
  <2>6. QED
    BY <1>1, <2>3, <2>4, <2>5, SInvGives, WholeKeeps DEF Whole, s
<1>4. CASE ~(ContainerKind \in Leaves \cup Verbatim \/ Blank(scan.rest))
  <2>1. Unwritten(b, scan.rest)
    BY <1>4 DEF NewNode, Unwritten
  <2> HIDE DEF b
  <2>2. /\ s.pc = "add" /\ s.rest = scan.rest /\ s.container = scan.container /\ s.matched = scan.matched
        /\ s.new = y
    BY <1>4, SInvGives DEF AllClosed, Scan, b
  <2> HIDE DEF s
  <2>3. SnugAt(nodes, s, current)
    BY <1>1, <2>2, SInvGives DEF SnugAt
  <2>4. Filled(nodes, {})
    <3>1. Filled(nodes, {scan.container})
      BY <1>1, <1>4, SInvGives DEF Gap
    <3>2. nodes[scan.container].kind # "Paragraph"
      BY <1>4 DEF ContainerKind, Leaves
    <3>3. QED
      BY <3>1, <3>2 DEF Filled
  <2>5. Filled(nodes, Gap(s))
    BY <2>4, FilledMore
  <2>6. \A i \in DOMAIN y : y[i] = b
    OBVIOUS
  <2> HIDE DEF y
  <2>7. ScanOK(s, lineNo)
    BY <1>1, <2>1, <2>2, <2>6, SInvGives DEF ScanOK
  <2>8. QED
    BY <1>1, <2>3, <2>5, <2>7, SInvGives, WholeKeeps DEF Whole, s
<1>5. QED
  BY <1>3, <1>4

(***************************************************************************)
(* The text goes to its block                                              *)
(***************************************************************************)
LEMMA WithLineWhole ==
  ASSUME SInv, scan.pc = "store", NEW c, c = scan.container, nodes[c].open,
         NEW d, d = WithLine(Doc, c, scan.rest)
  PROVE  /\ d.nodes \in Seq(Block) /\ Tree(d.nodes) /\ SameShape(nodes, d.nodes) /\ d.refs = refs
         /\ Snug(d.nodes, {}) /\ Defined(d.nodes, refs, lineNo) /\ Filled(d.nodes, {})
         /\ d.nodes[c].kind = nodes[c].kind
<1> DEFINE w == Token(scan.rest)
           x == <<lineNo, w>>
           b == nodes[c]
           lines == Append(b.lines, x)
           wrote == Append(b.wrote, x)
           last == IF Blank(scan.rest) /\ b.tag # "fenced" THEN b.last ELSE lineNo
           h == [b EXCEPT !.lines = lines, !.wrote = wrote, !.last = last]
           u == [nodes EXCEPT ![c] = h]
<1>1. c \in DOMAIN nodes /\ b \in Block /\ w \in Word
  BY SInvGives, LineIsSeq
<1>2. d.nodes \in Seq(Block) /\ SameShape(nodes, d.nodes) /\ d.refs = refs
  BY <1>1, SInvGives, WithLineKeeps
<1>3. d.nodes = u
  BY DEF WithLine, Doc, Written
<1>4. x[1] = lineNo
  OBVIOUS
<1>5. lines # <<>>
  <2>1. b.lines \in Content /\ x \in (0..MaxLines) \X Word
    BY <1>1, SInvGives DEF Block, Typed
  <2> HIDE DEF x
  <2>2. QED
    BY <2>1, LongerBegins
<1> HIDE DEF lines, wrote, last
<1>6. h.kind = b.kind /\ h.open = b.open /\ h.tag = b.tag /\ h.lines = lines /\ h.wrote = wrote
  BY <1>1 DEF Block
<1> HIDE DEF h
<1>7. DOMAIN u = DOMAIN nodes /\ u[c] = h /\ \A m \in DOMAIN nodes \ {c} : u[m] = nodes[m]
  BY <1>1
<1> HIDE DEF u
<1>8. \A m \in DOMAIN nodes \ {c} : SameContent(nodes[m], u[m])
  BY <1>7 DEF SameContent
<1>9. Defined(u, refs, lineNo)
  <2>1. lineNo \in Nat \ {0} /\ lineNo <= MaxLines
    BY SInvGives DEF ScanOK, Typed
  <2>2. u[c].kind = nodes[c].kind /\ u[c].open = nodes[c].open /\ u[c].tag = nodes[c].tag
    BY <1>6, <1>7
  <2>3. u[c].lines = Append(nodes[c].lines, <<lineNo, w>>) /\ u[c].wrote = Append(nodes[c].wrote, <<lineNo, w>>)
    BY <1>6, <1>7 DEF lines, wrote
  <2> HIDE DEF w
  <2>4. QED
    BY <1>1, <1>7, <1>8, <2>1, <2>2, <2>3, SInvGives, WrittenDefined
<1>10. Filled(u, {})
  <2>1. Filled(nodes, {c})
    BY SInvGives, FilledMore DEF Gap
  <2>2. u[c].lines # <<>>
    BY <1>5, <1>6, <1>7
  <2>3. QED
    BY <1>7, <2>1, <2>2 DEF Filled
<1>11. Tree(d.nodes) /\ Snug(d.nodes, {})
  BY <1>2, SInvGives, SameShapeIsTree, SameShapeSnug DEF SnugAt
<1>12. d.nodes[c].kind = nodes[c].kind
  BY <1>3, <1>6, <1>7
<1>13. QED
  BY <1>2, <1>3, <1>9, <1>10, <1>11, <1>12

\* Between two lines
LEMMA IdleWhole ==
  ASSUME SInv, NEW t, NEW cur, Snug(t, {}), Filled(t, {})
  PROVE  SnugAt(t, Idle, cur) /\ Filled(t, Gap(Idle)) /\ ScanOK(Idle, lineNo)
<1> DEFINE s == Idle
<1>1. s.pc = "line" /\ s.rest = <<>>
  BY DEF Idle
<1> HIDE DEF s
<1>2. SnugAt(t, s, cur) /\ Filled(t, Gap(s)) /\ ScanOK(s, lineNo)
  BY <1>1, CalmHere, FilledMore DEF SnugAt, ScanOK
<1>3. QED
  BY <1>2 DEF s

\* A leaf is closed
LEMMA LeafCloses ==
  ASSUME NEW d, d.nodes \in Seq(Block), Tree(d.nodes), d.refs \in 0..MaxLines,
         NEW n \in DOMAIN d.nodes, d.nodes[n].open, d.nodes[n].kind \notin General \cup Lists,
         NEW l \in Nat, Defined(d.nodes, d.refs, l), Filled(d.nodes, {}), Snug(d.nodes, {}),
         NEW f, f = Finalized(d, n)
  PROVE  Defined(f.nodes, f.refs, l) /\ Filled(f.nodes, {}) /\ Snug(f.nodes, {})
<1>1. ~LastOpen(d.nodes, n)
  BY LeavesHoldNone DEF LastOpen
<1>2. {} \ {n} = {}
  OBVIOUS
<1>3. QED
  BY <1>1, <1>2, FinalizedWhole

LEMMA StoreLineWhole == ASSUME SInv, [Next]_vars, StoreLine PROVE SInv'
<1> DEFINE c == scan.container
           takes == ContainerKind \in Verbatim \/ ~Blank(scan.rest)
           w == WithLine(Doc, c, scan.rest)
           d == IF takes THEN w ELSE Doc
           ends == EndsHtml(nodes[c], scan.rest)
           p == nodes[c].parent
           f == Finalized(d, c)
<1>1. /\ scan.pc = "store" /\ scan' = Idle /\ lineNo' = lineNo
      /\ DocBecomes(IF ends THEN f ELSE d) /\ current' = IF ends THEN p ELSE c
  BY DEF StoreLine
<1>2. PICK Q : Between(nodes, Q, c)
  BY <1>1, SInvGives DEF PathOK
<1>3. nodes[c].open /\ c \in DOMAIN nodes /\ Snug(nodes, {}) /\ refs \in 0..MaxLines
  BY <1>1, <1>2, SInvGives DEF Between, Path, SnugAt, Typed
<1>4. /\ d.nodes \in Seq(Block) /\ Tree(d.nodes) /\ SameShape(nodes, d.nodes) /\ d.refs = refs
      /\ Snug(d.nodes, {}) /\ Defined(d.nodes, refs, lineNo) /\ Filled(d.nodes, {})
      /\ d.nodes[c].kind = nodes[c].kind
  <2>1. CASE takes
    <3>1. d = w
      BY <2>1
    <3> HIDE DEF d, w
    <3>2. QED
      BY <1>1, <1>3, <3>1, WithLineWhole DEF w
  <2>2. CASE ~takes
    <3>1. d.nodes = nodes /\ d.refs = refs /\ Blank(scan.rest)
      BY <2>2 DEF Doc
    <3> HIDE DEF d
    <3>2. Filled(nodes, {})
      BY <3>1, SInvGives DEF Gap
    <3>3. SameShape(nodes, nodes)
      BY DEF SameShape
    <3>4. QED
      BY <1>3, <3>1, <3>2, <3>3, SInvGives
  <2>3. QED
    BY <2>1, <2>2
<1> HIDE DEF d
<1>5. CASE ends
  <2>1. nodes' = f.nodes /\ refs' = f.refs
    BY <1>1, <1>5 DEF DocBecomes
  <2>2. c \in DOMAIN d.nodes /\ d.nodes[c].open
    BY <1>3, <1>4 DEF SameShape
  <2>3. d.nodes[c].kind \notin General \cup Lists
    BY <1>4, <1>5 DEF EndsHtml, General, Lists, Fenced
  <2>4. Defined(f.nodes, f.refs, lineNo) /\ Filled(f.nodes, {}) /\ Snug(f.nodes, {})
    BY <1>3, <1>4, <2>2, <2>3, SInvGives, LeafCloses
  <2> HIDE DEF f
  <2>5. QED
    BY <1>1, <2>1, <2>4, IdleWhole, WholeKeeps DEF Whole
<1>6. CASE ~ends
  <2>1. nodes' = d.nodes /\ refs' = refs
    BY <1>1, <1>4, <1>6 DEF DocBecomes
  <2>2. QED
    BY <1>1, <1>4, <2>1, IdleWhole, WholeKeeps DEF Whole
<1>7. QED
  BY <1>5, <1>6

LEMMA CalmAfter ==
  ASSUME NEW r \in Seq(Word), Calm(r)
  PROVE  Calm(Drop(r, SelectInSeq(r, LAMBDA x : x = "%%")))
<1> DEFINE I == {i \in 1..Len(r) : r[i] = "%%"}
           k == IF I # {} THEN Min(I) ELSE 0
<1>1. Len(r) \in Nat /\ I \in SUBSET (1..Len(r))
  OBVIOUS
<1>2. k \in 0..Len(r)
  BY <1>1, FirstPlace
<1>3. SelectInSeq(r, LAMBDA x : x = "%%") = k
  BY DEF SelectInSeq
<1> HIDE DEF k
<1>4. k \in Nat
  BY <1>1, <1>2
<1>5. QED
  BY <1>3, <1>4, CalmRest

LEMMA StoreCommentEndWhole == ASSUME SInv, [Next]_vars, StoreCommentEnd PROVE SInv'
<1> DEFINE c == scan.container
           d == WithLine(Doc, c, scan.rest)
           f == Finalized(d, c)
           p == nodes[c].parent
           r == Drop(scan.rest, SelectInSeq(scan.rest, LAMBDA x : x = "%%"))
           s == IF Blank(r) THEN Idle
                ELSE [scan EXCEPT !.pc = "open", !.container = p, !.matched = p, !.all = TRUE,
                        !.lazy = FALSE, !.rest = r]
<1>1. /\ scan.pc = "store" /\ scan' = s /\ lineNo' = lineNo /\ DocBecomes(f) /\ current' = p
      /\ nodes[c].kind = "Comment"
  BY DEF StoreCommentEnd, ContainerKind
<1>2. PICK Q : Between(nodes, Q, c)
  BY <1>1, SInvGives DEF PathOK
<1>3. nodes[c].open /\ c \in DOMAIN nodes /\ refs \in 0..MaxLines
  BY <1>2, SInvGives DEF Between, Path, Typed
<1>4. /\ d.nodes \in Seq(Block) /\ Tree(d.nodes) /\ SameShape(nodes, d.nodes) /\ d.refs = refs
      /\ Snug(d.nodes, {}) /\ Defined(d.nodes, refs, lineNo) /\ Filled(d.nodes, {})
      /\ d.nodes[c].kind = "Comment"
  BY <1>1, <1>3, WithLineWhole
<1>5. Calm(r)
  BY SInvGives, CalmAfter DEF ScanOK
<1> HIDE DEF d, r
<1>6. c \in DOMAIN d.nodes /\ d.nodes[c].open
  BY <1>3, <1>4 DEF SameShape
<1>7. d.nodes[c].kind \notin General \cup Lists
  BY <1>4 DEF General, Lists, Fenced
<1>8. Defined(f.nodes, f.refs, lineNo) /\ Filled(f.nodes, {}) /\ Snug(f.nodes, {})
  BY <1>3, <1>4, <1>6, <1>7, SInvGives, LeafCloses
<1>9. nodes' = f.nodes /\ refs' = f.refs
  BY <1>1 DEF DocBecomes
<1> HIDE DEF f
<1>10. CASE Blank(r)
  <2>1. s = Idle
    BY <1>10
  <2> HIDE DEF s, p
  <2>2. QED
    BY <1>1, <1>8, <1>9, <2>1, IdleWhole, WholeKeeps DEF Whole
<1>11. CASE ~Blank(r)
  <2>1. s.pc = "open" /\ s.rest = r
    BY <1>11, SInvGives DEF Scan
  <2> HIDE DEF s, p
  <2>2. \A V : Snug(f.nodes, V)
    BY <1>8, SnugMore
  <2>3. SnugAt(f.nodes, s, p)
    BY <2>1, <2>2 DEF SnugAt
  <2>4. Filled(f.nodes, Gap(s))
    BY <1>8, FilledMore
  <2>5. ScanOK(s, lineNo)
    BY <1>1, <1>5, <2>1, SInvGives DEF ScanOK
  <2>6. QED
    BY <1>1, <1>8, <1>9, <2>3, <2>4, <2>5, WholeKeeps DEF Whole
<1>12. QED
  BY <1>10, <1>11

(***************************************************************************)
(* The end of the document                                                 *)
(***************************************************************************)
LEMMA CloseAtEndWhole == ASSUME SInv, [Next]_vars, CloseAtEnd PROVE SInv'
<1> DEFINE f == Finalized(Doc, current)
           s == scan'
<1>1. scan.pc = "eof" /\ DocBecomes(f) /\ lineNo' = lineNo
  BY DEF CloseAtEnd
<1>2. PICK Q : Between(nodes, Q, current)
  BY <1>1, SInvGives DEF PathOK
<1>3. nodes[current].open /\ current \in DOMAIN nodes /\ ~LastOpen(nodes, current)
  BY <1>2, SInvGives DEF Between, Path, Slack
<1>4. Doc.nodes = nodes /\ Doc.refs = refs /\ refs \in 0..MaxLines
  BY SInvGives DEF Doc, Typed
<1>5. Snug(nodes, {}) /\ Filled(nodes, {})
  BY <1>1, SInvGives DEF SnugAt, Gap
<1>6. /\ Defined(f.nodes, f.refs, lineNo) /\ Filled(f.nodes, {}) /\ Snug(f.nodes, {} \ {current})
      /\ ~f.nodes[current].open
  BY <1>3, <1>4, <1>5, SInvGives, FinalizedWhole
<1>7. Snug(f.nodes, {})
  BY <1>6, SnugMore
<1>8. nodes' = f.nodes /\ refs' = f.refs
  BY <1>1 DEF DocBecomes
<1> HIDE DEF f
<1>9. /\ s.pc \in {"eof", "done"} /\ (s.pc = "done" => current = Root) /\ Calm(s.rest)
  <2>1. CASE current = Root
    <3>1. s = [Idle EXCEPT !.pc = "done"]
      BY <2>1 DEF CloseAtEnd
    <3>2. s.pc = "done" /\ s.rest = <<>>
      BY <3>1 DEF Idle
    <3>3. QED
      BY <2>1, <3>2, CalmHere
  <2>2. CASE current # Root
    <3>1. s = scan
      BY <2>2 DEF CloseAtEnd
    <3>2. QED
      BY <1>1, <3>1, CalmHere
  <2>3. QED
    BY <2>1, <2>2
<1> HIDE DEF s
<1>10. SnugAt(f.nodes, s, current')
  BY <1>6, <1>7, <1>9 DEF SnugAt
<1>11. Filled(f.nodes, Gap(s)) /\ ScanOK(s, lineNo)
  BY <1>6, <1>9, FilledMore DEF ScanOK
<1>12. QED
  BY <1>1, <1>6, <1>8, <1>10, <1>11, WholeKeeps DEF Whole, s

LEMMA NextWhole == SInv /\ [Next]_vars => SInv'
<1> SUFFICES ASSUME SInv, [Next]_vars PROVE SInv'
  OBVIOUS
<1>1. CASE \E line \in Lines : StartLine(line)
  BY <1>1, StartLineWhole
<1>2. CASE EndOfInput
  BY <1>2, EndOfInputWhole
<1>3. CASE Match
  BY <1>3, AllMatchedWhole, MatchBlockWhole, NotMatchedWhole, CloseFenceWhole DEF Match
<1>4. CASE OpenBlocks
  BY <1>4, OpenFenceWhole, OpenBlockQuoteWhole, OpenHeadingWhole, OpenCommentWhole,
     OpenHtmlBlockWhole, SetextHeadingWhole, OpenThematicBreakWhole, OpenFootnoteWhole,
     NoDescription, OpenItemWhole, OpenIndentedCodeWhole, NothingOpensWhole DEF OpenBlocks
<1>5. CASE AddBlock
  BY <1>5, CloseToFitWhole, AddChildWhole DEF AddBlock
<1>6. CASE AddText
  BY <1>6, MarkBlanksWhole, CloseUnmatchedWhole, AllClosedWhole, StoreLineWhole,
     StoreCommentEndWhole DEF AddText
<1>7. CASE CloseAtEnd
  BY <1>7, CloseAtEndWhole
<1>8. CASE UNCHANGED vars
  <2>1. UNCHANGED <<nodes, refs, scan, current, lineNo>>
    BY <1>8 DEF vars
  <2>2. QED
    BY <2>1, WholeKeeps DEF SInv
<1>9. QED
  BY <1>1, <1>2, <1>3, <1>4, <1>5, <1>6, <1>7, <1>8 DEF Next, Step, Done

LEMMA NextWholeIfCalm == (CalmInput => SInv) /\ [Next]_vars => (CalmInput => SInv)'
<1> SUFFICES ASSUME CalmInput => SInv, [Next]_vars, CalmInput' PROVE SInv'
  OBVIOUS
<1>1. CalmInput
  BY SameVocabulary DEF CalmInput
<1>2. QED
  BY <1>1, NextWhole

LEMMA WholeSettles == (CalmInput => SInv) => AllSettled
<1> SUFFICES ASSUME SInv, scan.pc = "done", NEW n \in InTree PROVE ~nodes[n].open
  BY DEF AllSettled
<1>1. n \in DOMAIN nodes
  BY DEF InTree, Below
<1>2. Snug(nodes, {}) /\ ~nodes[Root].open
  BY SInvGives DEF SnugAt
<1>3. QED
  BY <1>1, <1>2, SInvGives, NoneOpen

LEMMA WholeDefines == (CalmInput => SInv) => FirstDefinitionWins
<1> DEFINE text == {n \in Ids : nodes[n].kind = "Paragraph" \/ nodes[n].tag = "setext"}
           some == {m \in text : Definitions(nodes[m].wrote) > 0}
           heads == {nodes[n].wrote[1][1] : n \in some}
<1> SUFFICES ASSUME SInv, scan.pc = "done"
             PROVE  IF heads = {} THEN refs = None ELSE refs \in heads /\ \A h \in heads : refs <= h
  BY DEF FirstDefinitionWins
<1>1. Snug(nodes, {}) /\ ~nodes[Root].open
  BY SInvGives DEF SnugAt
<1>2. \A n \in DOMAIN nodes : ~Unread(nodes[n])
  BY <1>1, SInvGives, NoneOpen DEF Unread
<1>3. Kept(nodes, refs) /\ FirstOf(nodes, refs)
  BY SInvGives DEF Defined
<1>4. \A n : n \in some <=> n \in DOMAIN nodes /\ IsText(nodes[n]) /\ Begins(nodes[n])
  BY DEF Ids, IsText, Begins
<1> HIDE DEF some
<1>5. CASE some = {}
  <2>1. heads = {}
    BY <1>5
  <2>2. refs = None
    BY <1>3, <1>4, <1>5 DEF FirstOf
  <2>3. QED
    BY <2>1, <2>2
<1>6. CASE some # {}
  <2>1. heads # {}
    BY <1>6
  <2>2. refs # None
    BY <1>2, <1>3, <1>4, <1>6 DEF Kept
  <2>3. refs \in heads
    BY <1>3, <1>4, <2>2 DEF FirstOf
  <2>4. \A h \in heads : refs <= h
    BY <1>3, <1>4, <2>2 DEF FirstOf
  <2>5. QED
    BY <2>1, <2>3, <2>4
<1>7. QED
  BY <1>5, <1>6

\* For every calm input, of any number of lines: when finalize_document returns, every block of the
\* tree has been finalized.  Lists, items and quotes that a later line leaves are closed by the loop
\* of add_text_to_container or by add_child, the rest by the climb from current, and nothing is open
\* beside that climb.
THEOREM NothingStaysOpen == Spec => []AllSettled
<1> DEFINE K == CalmInput => SInv
<1>1. Init => K
  BY InitWhole
<1>2. K /\ [Next]_vars => K'
  BY NextWholeIfCalm
<1>3. K => AllSettled
  BY WholeSettles
<1> HIDE DEF K
<1>4. QED
  BY <1>1, <1>2, <1>3, PTL DEF Spec

\* For the same inputs: the reference map ends with the definition that came first in the input,
\* in whatever block, whether the block was closed by a later line, by add_child, by the underline
\* of a setext heading or by the end of the document.
THEOREM TheFirstIsKept == Spec => []FirstDefinitionWins
<1> DEFINE K == CalmInput => SInv
<1>1. Init => K
  BY InitWhole
<1>2. K /\ [Next]_vars => K'
  BY NextWholeIfCalm
<1>3. K => FirstDefinitionWins
  BY WholeDefines
<1> HIDE DEF K
<1>4. QED
  BY <1>1, <1>2, <1>3, PTL DEF Spec

================================================================================
