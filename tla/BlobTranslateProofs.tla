------------------------- MODULE BlobTranslateProofs -------------------------
(***************************************************************************)
(* The ranges a translation copies stay apart in the old text and in the   *)
(* new one, every kept part comes back once, and the records of blocks, of *)
(* links and of kept parts land where what they lay over went, for every   *)
(* page and whatever the translator answers.                               *)
(***************************************************************************)
EXTENDS BlobTranslate, FiniteSetTheorems, SequenceTheorems, WellFoundedInduction, TLAPS

(***************************************************************************)
(* The inductive invariant                                                 *)
(***************************************************************************)
Piece == [kind : {"open", "close", "kept", "words"}, n : Nat]
Span == [from : Nat, to : Nat]
CutLine == [start : Nat, end : Nat, pieces : Seq(Piece), translates : BOOLEAN]
Place == [s : Nat, e : Nat]
Part == [from : Nat, to : Nat, dropped : BOOLEAN]
Link == [from : Nat, to : Nat, n : Nat]
Closing == [end : Nat, n : Nat]
Edge == [old : Nat, now : Nat]
Copied == [from : Nat, to : Nat, at : Nat]

\* The numbers whose markers are a line's own
Nums(ps) == {ps[x].n : x \in {y \in DOMAIN ps : ps[y].kind \in {"open", "kept"}}}

\* The parts k has under these numbers lie between two places
Inside(k, nums, lo, hi) ==
  \A n \in nums : n \in DOMAIN k /\ (k[n] # NoRange => lo <= k[n].from /\ k[n].to <= hi)

\* The parts are numbered in the text's order
InOrder(k) ==
  /\ \A n \in DOMAIN k : k[n].from <= k[n].to
  /\ \A m, n \in DOMAIN k : m < n /\ k[m] # NoRange /\ k[n] # NoRange => k[m].to <= k[n].from

PlanTyped ==
  /\ page \in Pages
  /\ phase \in {"planning", "answering", "writing", "done"}
  /\ i \in Nat /\ from \in Nat
  /\ outer \in Seq(Part)
  /\ closes \in Seq(Closing)
  /\ pieces \in Seq(Piece)
  /\ lines \in Seq(CutLine)
  /\ kept \in Seq(Span)
  /\ links \in Seq(Link)

WriteTyped ==
  /\ line \in Nat \ {0}
  /\ rest \in Seq(Piece)
  /\ put \subseteq Nat
  /\ text \in Seq(Nat)
  /\ edges \in Seq(Edge)
  /\ moved \subseteq Copied

\* The lines cut are lines of the text, in its order, and no number is two lines'
CutOK ==
  /\ \A a \in DOMAIN lines :
       /\ lines[a].start <= lines[a].end /\ lines[a].end <= End
       /\ lines[a].start = lines[a].end => ~lines[a].translates
  /\ \A a, b \in DOMAIN lines : a < b =>
       /\ lines[a].end < lines[b].start
       /\ Nums(lines[a].pieces) \cap Nums(lines[b].pieces) = {}

\* The parts of each line are on it
CutKept(k) == \A a \in DOMAIN lines : Inside(k, Nums(lines[a].pieces), lines[a].start, lines[a].end)

\* The parts k and the pieces p of the line being cut, up to a place
Numbered(k, p, to) ==
  /\ InOrder(k) /\ CutKept(k)
  /\ \A n \in DOMAIN k : k[n].to <= to
  /\ Inside(k, Nums(p), LineStart, to)
  /\ \A a \in DOMAIN lines : Nums(p) \cap Nums(lines[a].pieces) = {}

\* A link is on one line, and its number is that line's
LinkOn(l, ps, start, end) == start <= l.from /\ l.to <= end /\ l.n \in Nums(ps)

LinksOK ==
  \A j \in DOMAIN links :
    /\ links[j].from < links[j].to
    /\ \/ \E a \in DOMAIN lines : LinkOn(links[j], lines[a].pieces, lines[a].start, lines[a].end)
       \/ phase = "planning" /\ LinkOn(links[j], pieces, LineStart, LineEnd)

PlanningOK ==
  /\ LineStart <= End
  /\ LineStart <= from /\ from <= i /\ i <= LineEnd
  /\ Numbered(kept, pieces, from)
  /\ \A j \in DOMAIN outer : outer[j].from <= outer[j].to
  /\ LineStart = LineEnd => pieces = <<>> /\ closes = <<>>
  /\ line = 1 /\ text = <<>> /\ edges = <<>> /\ moved = {} /\ put = {}

PlanOK == CutOK /\ InOrder(kept) /\ CutKept(kept) /\ LinksOK /\ (phase = "planning" => PlanningOK)

-----------------------------------------------------------------------------
\* The lines written, and the one being written
Begun == {a \in DOMAIN lines : a < line \/ (phase = "writing" /\ a = line)}

\* What has been written of a line
Sofar(a) == IF a < line THEN edges[2 * a].now ELSE Len(text)

EdgesOK ==
  /\ line <= Len(lines) + 1
  /\ Len(edges) = IF phase = "writing" THEN 2 * line - 1 ELSE 2 * line - 2
  /\ phase = "writing" => line <= Len(lines) /\ Cut.translates
  /\ \A a \in Begun :
       /\ edges[2 * a - 1].old = lines[a].start /\ edges[2 * a - 1].now <= Sofar(a)
       /\ a < line => edges[2 * a].old = lines[a].end
       /\ lines[a].start = lines[a].end => a < line /\ edges[2 * a].now = edges[2 * a - 1].now
       /\ Sofar(a) <= Len(text)

\* A range that was copied on line a: the line as it was, or a part of it
CopiedOn(m, a) ==
  /\ lines[a].start <= m.from /\ m.to <= lines[a].end
  /\ edges[2 * a - 1].now <= m.at /\ m.at + m.to - m.from <= Sofar(a)
  /\ \/ /\ a < line
        /\ m.from = lines[a].start /\ m.to = lines[a].end
        /\ m.at = edges[2 * a - 1].now /\ m.at + m.to - m.from = edges[2 * a].now
     \/ \E n \in Nums(lines[a].pieces) :
          /\ kept[n] # NoRange /\ kept[n].from = m.from /\ kept[n].to = m.to
          /\ a = line => n \in put

MovedOK == \A m \in moved : m.from <= m.to /\ \E a \in Begun : CopiedOn(m, a)

\* A link opens and closes on its line
OpenedOK ==
  phase = "writing" =>
    /\ opened \in [DOMAIN kept -> Place]
    /\ \A n \in DOMAIN kept : opened[n] # Nowhere => edges[2 * line - 1].now < opened[n].s

LandedOK ==
  /\ landed \in [DOMAIN kept -> Place]
  /\ \A n \in DOMAIN kept : landed[n] # Nowhere =>
       \E a \in Begun : /\ n \in Nums(lines[a].pieces)
                        /\ edges[2 * a - 1].now < landed[n].s /\ landed[n].e <= Sofar(a) + 1

WriteOK == EdgesOK /\ MovedOK /\ OpenedOK /\ LandedOK

RecordsOK == BlocksStay /\ LinksStayOnTheirLine

Inv ==
  /\ PlanTyped /\ WriteTyped
  /\ PlanOK
  /\ phase # "planning" => WriteOK /\ RangesApart
  /\ RecordsOK

(***************************************************************************)
(* Numbers, and functions that recurse over them                           *)
(***************************************************************************)
\* A set of numbers has a first one
LEMMA FirstExists ==
  ASSUME NEW S \in SUBSET Nat, S # {}
  PROVE  \E d \in S : \A e \in S : d <= e
<1>1. PICK d \in S : \A e \in S : <<e, d>> \notin OpToRel(<, Nat)
  BY NatLessThanWellFounded, WFMin
<1>2. \A e \in S : ~(e < d)
  BY <1>1 DEF OpToRel
<1>3. QED
  BY <1>2

\* A set of numbers up to another has a last one
LEMMA LastExists ==
  ASSUME NEW S \in SUBSET Nat, S # {}, NEW c \in Nat, \A d \in S : d <= c
  PROVE  \E d \in S : \A e \in S : e <= d
<1> DEFINE D == {c - d : d \in S}
<1>1. D \in SUBSET Nat /\ D # {}
  <2>1. \A d \in S : c - d \in Nat
    OBVIOUS
  <2>2. QED
    BY <2>1
<1>2. PICK m \in D : \A k \in D : m <= k
  BY <1>1, FirstExists
<1>3. PICK d \in S : m = c - d
  OBVIOUS
<1>4. ASSUME NEW e \in S PROVE e <= d
  <2>1. c - e \in D /\ m <= c - e
    BY <1>2
  <2>2. e \in Nat /\ d \in Nat /\ e <= c /\ d <= c
    OBVIOUS
  <2>3. QED
    BY <1>3, <2>1, <2>2
<1>5. QED
  BY <1>4

\* What holds of 0 and of every successor holds of every number
LEMMA EveryNumber ==
  ASSUME NEW S \in SUBSET Nat, 0 \in S, \A k \in S : k + 1 \in S
  PROVE  S = Nat
<1> SUFFICES ASSUME Nat \ S # {} PROVE FALSE
  OBVIOUS
<1>1. PICK d \in Nat \ S : \A e \in Nat \ S : d <= e
  BY FirstExists
<1>2. d # 0 /\ d - 1 \in Nat /\ ~(d <= d - 1)
  BY <1>1
<1>3. d - 1 \in S
  BY <1>1, <1>2
<1>4. d - 1 + 1 = d
  BY <1>2
<1>5. QED
  BY <1>1, <1>3, <1>4

\* h is what the steps of F make of A, one after the other
Repeats(h, A, F) == h[0] = A /\ \A k \in Nat \ {0} : h[k] = F[k][h[k - 1]]

\* Steps taken from A on have a function of how many there were
LEMMA RepeatExists ==
  ASSUME NEW X, NEW A \in X, NEW F \in [Nat -> [X -> X]]
  PROVE  \E h \in [Nat -> X] : Repeats(h, A, F)
<1> DEFINE Upto(k, g) == g[0] = A /\ \A x \in 1..k : g[x] = F[x][g[x - 1]]
           S == {k \in Nat : \E g \in [Nat -> X] : Upto(k, g)}
<1>1. 0 \in S
  <2>1. [x \in Nat |-> A] \in [Nat -> X] /\ Upto(0, [x \in Nat |-> A])
    OBVIOUS
  <2>2. QED
    BY <2>1
<1>2. ASSUME NEW k \in S PROVE k + 1 \in S
  <2>1. k \in Nat
    OBVIOUS
  <2>2. PICK g \in [Nat -> X] : Upto(k, g)
    OBVIOUS
  <2> DEFINE e == [x \in Nat |-> IF x <= k THEN g[x] ELSE F[k + 1][g[k]]]
  <2>3. e \in [Nat -> X]
    BY <2>1
  <2>4. e[0] = A
    BY <2>1, <2>2
  <2>5. ASSUME NEW x \in 1..(k + 1) PROVE e[x] = F[x][e[x - 1]]
    <3>1. x - 1 \in Nat /\ x - 1 <= k /\ e[x - 1] = g[x - 1] /\ x \in Nat
      BY <2>1
    <3>2. CASE x <= k
      BY <2>1, <2>2, <3>1, <3>2
    <3>3. CASE x = k + 1
      <4>1. e[x] = F[k + 1][g[k]] /\ x - 1 = k
        BY <2>1, <3>3
      <4>2. QED
        BY <3>1, <4>1
    <3>4. QED
      BY <2>1, <3>2, <3>3
  <2> HIDE DEF e
  <2>6. QED
    BY <2>1, <2>3, <2>4, <2>5
<1>3. S = Nat
  BY <1>1, <1>2, EveryNumber
<1>4. ASSUME NEW k \in Nat, NEW j \in Nat, NEW g \in [Nat -> X], NEW e \in [Nat -> X],
             Upto(k, g), Upto(j, e), k <= j
      PROVE  \A x \in 0..k : g[x] = e[x]
  <2> DEFINE T == {x \in Nat : x <= k => g[x] = e[x]}
  <2>1. 0 \in T
    BY <1>4
  <2>2. ASSUME NEW x \in T PROVE x + 1 \in T
    <3>1. x \in Nat /\ x + 1 - 1 = x /\ x + 1 \in Nat
      OBVIOUS
    <3>2. ASSUME x + 1 <= k PROVE g[x + 1] = e[x + 1]
      <4>1. x + 1 \in 1..k /\ x + 1 \in 1..j /\ x <= k
        BY <1>4, <3>1, <3>2
      <4>2. g[x + 1] = F[x + 1][g[x]] /\ e[x + 1] = F[x + 1][e[x]]
        BY <1>4, <3>1, <4>1
      <4>3. QED
        BY <4>1, <4>2
    <3>3. QED
      BY <3>1, <3>2
  <2>3. T = Nat
    <3> HIDE DEF T
    <3>1. T \in SUBSET Nat
      BY DEF T
    <3>2. QED
      BY <2>1, <2>2, <3>1, EveryNumber
  <2>4. QED
    BY <2>3
<1> DEFINE G(k) == CHOOSE g \in [Nat -> X] : Upto(k, g)
           h == [k \in Nat |-> G(k)[k]]
<1>5. \A k \in Nat : G(k) \in [Nat -> X] /\ Upto(k, G(k))
  BY <1>3
<1> HIDE DEF S
<1>6. h \in [Nat -> X]
  <2> HIDE DEF G, Upto
  <2>1. QED
    BY <1>5
<1>7. h[0] = A
  <2>1. h[0] = G(0)[0] /\ Upto(0, G(0))
    BY <1>5
  <2> HIDE DEF G, h
  <2>2. QED
    BY <2>1
<1>8. ASSUME NEW k \in Nat, k # 0 PROVE h[k] = F[k][h[k - 1]]
  <2>1. k - 1 \in Nat /\ k - 1 <= k /\ k \in 1..k
    BY <1>8
  <2>2. h[k] = G(k)[k] /\ h[k - 1] = G(k - 1)[k - 1]
    BY <2>1
  <2>3. Upto(k, G(k)) /\ Upto(k - 1, G(k - 1)) /\ G(k) \in [Nat -> X] /\ G(k - 1) \in [Nat -> X]
    BY <1>5, <2>1
  <2> HIDE DEF G, h
  <2>4. G(k)[k] = F[k][G(k)[k - 1]]
    BY <2>1, <2>3
  <2>5. G(k - 1)[k - 1] = G(k)[k - 1]
    <3>1. k - 1 \in 0..(k - 1)
      BY <2>1
    <3> HIDE DEF Upto
    <3>2. QED
      BY <1>4, <2>1, <2>3, <3>1
  <2>6. QED
    BY <2>2, <2>4, <2>5
<1> HIDE DEF h
<1>9. QED
  BY <1>6, <1>7, <1>8 DEF Repeats

(***************************************************************************)
(* The page and its lines                                                  *)
(***************************************************************************)
LEMMA PageIs ==
  ASSUME page \in Pages
  PROVE  /\ End \in Nat
         /\ page.keep \subseteq [from : Nat, to : Nat, dropped : BOOLEAN]
         /\ page.sent \subseteq [from : Nat, to : Nat]
         /\ \A k \in page.keep \cup page.sent : k.from < k.to /\ k.to <= End
<1>1. page.text \in Seq({"letter", "other", "citation", "newline"})
  BY PagesArePages
<1>2. End \in Nat
  BY <1>1 DEF End
<1>3. QED
  BY <1>2, PagesArePages DEF End

\* A line goes on to the next newline or the end of the text
EndOf(start) == CHOOSE p \in start..End :
                  /\ p = End \/ CharAt(p) = "newline"
                  /\ \A q \in start..(p - 1) : CharAt(q) # "newline"

LEMMA EndOfIs ==
  ASSUME page \in Pages, NEW start \in Nat, start <= End
  PROVE  EndOf(start) \in Nat /\ start <= EndOf(start) /\ EndOf(start) <= End
<1> DEFINE S == {p \in start..End : p = End \/ CharAt(p) = "newline"}
<1>1. End \in Nat
  BY PageIs
<1>2. S \in SUBSET Nat /\ S # {}
  BY <1>1
<1>3. PICK d \in S : \A e \in S : d <= e
  BY <1>2, FirstExists
<1>4. d \in start..End /\ (d = End \/ CharAt(d) = "newline")
  BY <1>3
<1>5. ASSUME NEW q \in start..(d - 1) PROVE CharAt(q) # "newline"
  <2>1. q \in start..End /\ ~(d <= q)
    BY <1>1, <1>4
  <2>2. QED
    BY <1>3, <2>1
<1>6. EndOf(start) \in start..End
  BY <1>4, <1>5 DEF EndOf
<1>7. QED
  BY <1>1, <1>6

LEMMA LineEndIs ==
  ASSUME page \in Pages, LineStart \in Nat, LineStart <= End
  PROVE  LineEnd \in Nat /\ LineStart <= LineEnd /\ LineEnd <= End
<1>1. LineEnd = EndOf(LineStart)
  BY DEF LineEnd, EndOf
<1>2. QED
  BY <1>1, EndOfIs

(***************************************************************************)
(* flush: the numbers are given in the text's order                        *)
(***************************************************************************)
\* Pieces and parts w after the words up to place `to' of those p and k had before, which end at lo
FlushedTo(w, p, k, lo, to) ==
  /\ w.pieces \in Seq(Piece) /\ w.kept \in Seq(Span)
  /\ Len(k) <= Len(w.kept)
  /\ \A n \in DOMAIN k : w.kept[n] = k[n]
  /\ \A n \in DOMAIN w.kept : n \notin DOMAIN k =>
       lo <= w.kept[n].from /\ w.kept[n].from <= w.kept[n].to /\ w.kept[n].to <= to
  /\ \A m, n \in DOMAIN w.kept : m \notin DOMAIN k /\ m < n => w.kept[m].to <= w.kept[n].from
  /\ Nums(p) \subseteq Nums(w.pieces)
  /\ Nums(w.pieces) \subseteq Nums(p) \cup (DOMAIN w.kept \ DOMAIN k)
  /\ DOMAIN w.kept \ DOMAIN k \subseteq Nums(w.pieces)

LEMMA NumsAppend ==
  ASSUME NEW p \in Seq(Piece), NEW x \in Piece
  PROVE  /\ Append(p, x) \in Seq(Piece)
         /\ Nums(Append(p, x)) = IF x.kind \in {"open", "kept"} THEN Nums(p) \cup {x.n} ELSE Nums(p)
<1> DEFINE q == Append(p, x)
<1>1. /\ q \in Seq(Piece) /\ DOMAIN q = 1..(Len(p) + 1) /\ DOMAIN p = 1..Len(p) /\ Len(p) \in Nat
      /\ q[Len(p) + 1] = x /\ \A y \in DOMAIN p : q[y] = p[y]
  OBVIOUS
<1> HIDE DEF q
<1>2. \A y \in DOMAIN q : y = Len(p) + 1 \/ y \in DOMAIN p
  BY <1>1
<1>3. DOMAIN p \subseteq DOMAIN q /\ Len(p) + 1 \in DOMAIN q
  BY <1>1
<1>4. CASE x.kind \in {"open", "kept"}
  <2>1. ASSUME NEW n \in Nums(q) PROVE n \in Nums(p) \cup {x.n}
    BY <1>1, <1>2 DEF Nums
  <2>2. ASSUME NEW n \in Nums(p) PROVE n \in Nums(q)
    BY <1>1, <1>3 DEF Nums
  <2>3. x.n \in Nums(q)
    BY <1>1, <1>3, <1>4 DEF Nums
  <2>4. QED
    BY <1>1, <1>4, <2>1, <2>2, <2>3 DEF q
<1>5. CASE x.kind \notin {"open", "kept"}
  <2>1. ASSUME NEW n \in Nums(q) PROVE n \in Nums(p)
    BY <1>1, <1>2, <1>5 DEF Nums
  <2>2. ASSUME NEW n \in Nums(p) PROVE n \in Nums(q)
    BY <1>1, <1>3 DEF Nums
  <2>3. QED
    BY <1>1, <1>5, <2>1, <2>2 DEF q
<1>6. QED
  BY <1>4, <1>5

\* One more character of the words
FlushStep(k, w) ==
  LET p == from + k - 1
  IN IF CharAt(p) = "citation"
     THEN [pieces |-> Append(w.pieces, [kind |-> "kept", n |-> Len(w.kept) + 1]),
           kept   |-> Append(w.kept, [from |-> p, to |-> p + 1])]
     ELSE [w EXCEPT !.pieces = Append(@, [kind |-> "words", n |-> p])]

FlushState == [pieces : Seq(Piece), kept : Seq(Span)]

LEMMA FlushStepIs ==
  ASSUME NEW k \in Nat \ {0}, NEW w \in FlushState, from \in Nat
  PROVE  FlushStep(k, w) \in FlushState
<1> DEFINE p == from + k - 1
<1>1. p \in Nat /\ p + 1 \in Nat
  OBVIOUS
<1>2. w.pieces \in Seq(Piece) /\ w.kept \in Seq(Span) /\ Len(w.kept) + 1 \in Nat
  BY DEF FlushState
<1>3. [kind |-> "kept", n |-> Len(w.kept) + 1] \in Piece /\ [kind |-> "words", n |-> p] \in Piece
  BY <1>1, <1>2 DEF Piece
<1>4. [from |-> p, to |-> p + 1] \in Span
  BY <1>1 DEF Span
<1>5. Append(w.pieces, [kind |-> "kept", n |-> Len(w.kept) + 1]) \in Seq(Piece)
  BY <1>2, <1>3
<1>6. Append(w.pieces, [kind |-> "words", n |-> p]) \in Seq(Piece)
  BY <1>2, <1>3
<1>7. Append(w.kept, [from |-> p, to |-> p + 1]) \in Seq(Span)
  BY <1>2, <1>4
<1> HIDE DEF p
<1>8. QED
  BY <1>2, <1>5, <1>6, <1>7 DEF FlushStep, FlushState, p

LEMMA FlushStepKeeps ==
  ASSUME NEW k \in Nat \ {0}, NEW w \in FlushState, from \in Nat, pieces \in Seq(Piece), kept \in Seq(Span),
         FlushedTo(w, pieces, kept, from, from + k - 1)
  PROVE  FlushedTo(FlushStep(k, w), pieces, kept, from, from + k)
<1> DEFINE p == from + k - 1
           x == [kind |-> "kept", n |-> Len(w.kept) + 1]
           y == [kind |-> "words", n |-> p]
           c == [from |-> p, to |-> p + 1]
           v == FlushStep(k, w)
<1>1. p \in Nat /\ p + 1 \in Nat /\ p + 1 = from + k /\ from <= p /\ p <= from + k
  OBVIOUS
<1>2. w.pieces \in Seq(Piece) /\ w.kept \in Seq(Span) /\ Len(w.kept) + 1 \in Nat
  BY DEF FlushState
<1>3. x \in Piece /\ y \in Piece /\ c \in Span
  BY <1>1, <1>2 DEF Piece, Span
<1>4. v \in FlushState
  BY FlushStepIs
<1>5. ASSUME NEW n \in DOMAIN w.kept PROVE n \in Nat /\ w.kept[n] \in Span
  BY <1>2
<1>6. CASE CharAt(p) = "citation"
  <2>1. v.pieces = Append(w.pieces, x) /\ v.kept = Append(w.kept, c)
    BY <1>6 DEF FlushStep
  <2> DEFINE l == Len(w.kept)
  <2>2. /\ DOMAIN v.kept = 1..(l + 1) /\ DOMAIN w.kept = 1..l /\ l \in Nat /\ Len(v.kept) = l + 1
        /\ v.kept[l + 1] = c /\ \A n \in 1..l : v.kept[n] = w.kept[n]
    BY <1>2, <1>3, <2>1
  <2> HIDE DEF l, x, y, c, p, v
  <2>3. c.from = p /\ c.to = p + 1 /\ x.kind = "kept" /\ x.n = l + 1
    BY DEF c, x, l
  <2>4. Nums(v.pieces) = Nums(w.pieces) \cup {l + 1}
    BY <1>2, <1>3, <2>1, <2>3, NumsAppend
  <2>5. \A n \in DOMAIN kept : n \in 1..l
    <3>1. DOMAIN kept = 1..Len(kept) /\ Len(kept) \in Nat /\ Len(kept) <= l
      BY DEF FlushedTo, l
    <3>2. QED
      BY <2>2, <3>1
  <2>6. l + 1 \notin DOMAIN kept
    BY <2>2, <2>5
  <2>7. Len(kept) <= Len(v.kept)
    <3>1. Len(kept) <= l /\ Len(kept) \in Nat
      BY DEF FlushedTo, l
    <3>2. QED
      BY <2>2, <3>1
  <2>8. \A n \in DOMAIN kept : v.kept[n] = kept[n]
    BY <2>2, <2>5 DEF FlushedTo
  <2>9. ASSUME NEW n \in DOMAIN v.kept, n \notin DOMAIN kept
        PROVE  from <= v.kept[n].from /\ v.kept[n].from <= v.kept[n].to /\ v.kept[n].to <= from + k
    <3>1. CASE n = l + 1
      BY <1>1, <2>2, <2>3, <3>1
    <3>2. CASE n \in 1..l
      <4>1. /\ from <= w.kept[n].from /\ w.kept[n].from <= w.kept[n].to /\ w.kept[n].to <= p
            /\ w.kept[n] \in Span
        BY <1>5, <2>2, <2>9, <3>2 DEF FlushedTo, p
      <4>2. w.kept[n].to <= from + k
        BY <1>1, <4>1 DEF Span
      <4>3. QED
        BY <2>2, <3>2, <4>1, <4>2
    <3>3. QED
      BY <2>2, <3>1, <3>2
  <2>10. ASSUME NEW m \in DOMAIN v.kept, NEW n \in DOMAIN v.kept, m \notin DOMAIN kept, m < n
         PROVE  v.kept[m].to <= v.kept[n].from
    <3>1. m \in 1..l
      BY <2>2, <2>10
    <3>2. CASE n = l + 1
      <4>1. w.kept[m].to <= p
        BY <2>2, <2>10, <3>1 DEF FlushedTo, p
      <4>2. QED
        BY <2>2, <2>3, <3>1, <3>2, <4>1
    <3>3. CASE n \in 1..l
      BY <2>2, <2>10, <3>1, <3>3 DEF FlushedTo
    <3>4. QED
      BY <2>2, <3>2, <3>3
  <2>11. Nums(pieces) \subseteq Nums(v.pieces)
    BY <2>4 DEF FlushedTo
  <2>12. Nums(v.pieces) \subseteq Nums(pieces) \cup (DOMAIN v.kept \ DOMAIN kept)
    <3>1. DOMAIN w.kept \subseteq DOMAIN v.kept /\ l + 1 \in DOMAIN v.kept
      BY <2>2
    <3>2. QED
      BY <2>4, <2>6, <3>1 DEF FlushedTo
  <2>13. DOMAIN v.kept \ DOMAIN kept \subseteq Nums(v.pieces)
    <3>1. \A n \in DOMAIN v.kept : n = l + 1 \/ n \in DOMAIN w.kept
      BY <2>2
    <3>2. QED
      BY <2>4, <3>1 DEF FlushedTo
  <2>14. v.pieces \in Seq(Piece) /\ v.kept \in Seq(Span)
    BY <1>4 DEF FlushState
  <2>15. FlushedTo(v, pieces, kept, from, from + k)
    BY <2>7, <2>8, <2>9, <2>10, <2>11, <2>12, <2>13, <2>14 DEF FlushedTo
  <2>16. QED
    BY <2>15 DEF v
<1>7. CASE CharAt(p) # "citation"
  <2>1. v.pieces = Append(w.pieces, y) /\ v.kept = w.kept
    BY <1>7 DEF FlushStep, FlushState
  <2> HIDE DEF x, y, c, p, v
  <2>2. y.kind = "words"
    BY DEF y
  <2>3. Nums(v.pieces) = Nums(w.pieces)
    BY <1>2, <1>3, <2>1, <2>2, NumsAppend
  <2>4. ASSUME NEW n \in DOMAIN w.kept, n \notin DOMAIN kept
        PROVE  w.kept[n].to <= from + k
    <3>1. w.kept[n].to <= p /\ w.kept[n].to \in Nat
      BY <1>5, <2>4 DEF FlushedTo, p, Span
    <3>2. QED
      BY <1>1, <3>1
  <2>5. v.pieces \in Seq(Piece) /\ v.kept \in Seq(Span)
    BY <1>4 DEF FlushState
  <2>6. FlushedTo(v, pieces, kept, from, from + k)
    BY <2>1, <2>3, <2>4, <2>5 DEF FlushedTo
  <2>7. QED
    BY <2>6 DEF v
<1>8. QED
  BY <1>6, <1>7

LEMMA FlushedIs ==
  ASSUME PlanTyped, from <= i
  PROVE  /\ FlushedTo(Flushed, pieces, kept, from, i)
         /\ from = i => Flushed.pieces = pieces /\ Flushed.kept = kept
<1> DEFINE A == [pieces |-> pieces, kept |-> kept]
           F == [k \in Nat |-> [w \in FlushState |-> IF k = 0 THEN w ELSE FlushStep(k, w)]]
           flush[k \in Nat] == IF k = 0 THEN A ELSE FlushStep(k, flush[k - 1])
<1>1. from \in Nat /\ i \in Nat /\ i - from \in Nat /\ pieces \in Seq(Piece) /\ kept \in Seq(Span)
  BY DEF PlanTyped
<1>2. Flushed = flush[i - from]
  BY DEF Flushed, FlushStep
<1>3. A \in FlushState
  BY <1>1 DEF FlushState
<1>4. F \in [Nat -> [FlushState -> FlushState]]
  BY <1>1, FlushStepIs
<1> HIDE DEF A
<1>5. PICK h \in [Nat -> FlushState] : h[0] = A /\ \A k \in Nat \ {0} : h[k] = F[k][h[k - 1]]
  <2> HIDE DEF F
  <2>1. \E g \in [Nat -> FlushState] : Repeats(g, A, F)
    BY <1>3, <1>4, RepeatExists
  <2>2. QED
    BY <2>1 DEF Repeats
<1>6. ASSUME NEW k \in Nat, k # 0 PROVE h[k] = FlushStep(k, h[k - 1])
  <2>1. k - 1 \in Nat /\ h[k - 1] \in FlushState
    BY <1>6
  <2>2. h[k] = F[k][h[k - 1]]
    BY <1>5, <1>6
  <2>3. QED
    BY <1>6, <2>1, <2>2
<1> HIDE DEF F
<1>7. h = [k \in Nat |-> IF k = 0 THEN A ELSE FlushStep(k, h[k - 1])]
  BY <1>5, <1>6
<1>8. flush = [k \in Nat |-> IF k = 0 THEN A ELSE FlushStep(k, flush[k - 1])]
  BY <1>7
<1> HIDE DEF flush
<1>9. ASSUME NEW k \in Nat PROVE flush[k + 1] = FlushStep(k + 1, flush[k])
  <2>1. \A j \in Nat : flush[j] = IF j = 0 THEN A ELSE FlushStep(j, flush[j - 1])
    BY <1>8, Zenon
  <2>2. k + 1 \in Nat /\ k + 1 # 0 /\ k + 1 - 1 = k
    OBVIOUS
  <2>3. flush[k + 1] = FlushStep(k + 1, flush[k + 1 - 1])
    BY <2>1, <2>2
  <2>4. QED
    BY <2>2, <2>3
<1>10. flush[0] = A
  BY <1>8
<1> DEFINE S == {k \in Nat : flush[k] \in FlushState /\ FlushedTo(flush[k], pieces, kept, from, from + k)}
<1>11. 0 \in S
  <2>1. Nums(A.pieces) = Nums(pieces) /\ A.kept = kept /\ A.pieces = pieces
    BY DEF A
  <2>2. FlushedTo(A, pieces, kept, from, from + 0)
    BY <1>1, <2>1 DEF FlushedTo
  <2>3. QED
    BY <1>3, <1>10, <2>2
<1>12. ASSUME NEW k \in S PROVE k + 1 \in S
  <2>1. k \in Nat /\ k + 1 \in Nat \ {0} /\ from + (k + 1) - 1 = from + k
    BY <1>1
  <2>2. flush[k] \in FlushState /\ FlushedTo(flush[k], pieces, kept, from, from + (k + 1) - 1)
    BY <2>1
  <2>3. flush[k + 1] = FlushStep(k + 1, flush[k])
    BY <1>9, <2>1
  <2> HIDE DEF S
  <2>4. flush[k + 1] \in FlushState
    BY <1>1, <2>1, <2>2, <2>3, FlushStepIs
  <2>5. FlushedTo(flush[k + 1], pieces, kept, from, from + (k + 1))
    BY <1>1, <2>1, <2>2, <2>3, FlushStepKeeps
  <2>6. QED
    BY <2>1, <2>4, <2>5 DEF S
<1>13. S = Nat
  <2>1. S \in SUBSET Nat
    OBVIOUS
  <2> HIDE DEF S
  <2>2. QED
    BY <1>11, <1>12, <2>1, EveryNumber
<1>14. FlushedTo(Flushed, pieces, kept, from, i)
  <2>1. from + (i - from) = i /\ i - from \in S
    BY <1>1, <1>13
  <2>2. QED
    BY <1>2, <2>1
<1>15. ASSUME from = i PROVE Flushed.pieces = pieces /\ Flushed.kept = kept
  <2>1. i - from = 0
    BY <1>1, <1>15
  <2>2. QED
    BY <1>2, <1>10, <2>1 DEF A
<1>16. QED
  BY <1>14, <1>15

(***************************************************************************)
(* The outermost kept parts are kept parts                                 *)
(***************************************************************************)
\* The part that begins first, the longest of those
Foremost(S) == CHOOSE k \in S : \A o \in S : k.from < o.from \/ (k.from = o.from /\ k.to >= o.to)

LEMMA ForemostIs ==
  ASSUME page \in Pages, NEW S \in SUBSET page.keep, S # {}
  PROVE  /\ Foremost(S) \in S
         /\ \A o \in S : Foremost(S).from < o.from \/ (Foremost(S).from = o.from /\ Foremost(S).to >= o.to)
<1>1. \A k \in S : k.from \in Nat /\ k.to \in Nat /\ k.to <= End
  BY PageIs
<1> DEFINE B == {k.from : k \in S}
<1>2. B \in SUBSET Nat /\ B # {}
  BY <1>1
<1>3. PICK b \in B : \A d \in B : b <= d
  <2> HIDE DEF B
  <2>1. QED
    BY <1>2, FirstExists
<1> DEFINE T == {k \in S : k.from = b}
           E == {k.to : k \in T}
<1>4. E \in SUBSET Nat /\ E # {} /\ \A e \in E : e <= End
  BY <1>1, <1>3
<1>5. End \in Nat
  BY PageIs
<1>6. PICK e \in E : \A d \in E : d <= e
  <2> HIDE DEF E
  <2>1. QED
    BY <1>4, <1>5, LastExists
<1>7. PICK k \in T : k.to = e
  OBVIOUS
<1>8. ASSUME NEW o \in S PROVE k.from < o.from \/ (k.from = o.from /\ k.to >= o.to)
  <2>1. k.from = b /\ b <= o.from /\ o.from \in Nat /\ b \in Nat /\ o.to \in Nat /\ e \in Nat
    BY <1>1, <1>2, <1>3, <1>4
  <2>2. CASE o.from = b
    <3>1. o.to <= e
      BY <1>6, <2>2
    <3>2. QED
      BY <1>7, <2>1, <2>2, <3>1
  <2>3. CASE o.from # b
    BY <2>1, <2>3
  <2>4. QED
    BY <2>2, <2>3
<1>9. \A o \in S : Foremost(S).from < o.from \/ (Foremost(S).from = o.from /\ Foremost(S).to >= o.to)
  BY <1>7, <1>8 DEF Foremost
<1>10. QED
  BY <1>7, <1>8, <1>9 DEF Foremost

\* Parts of which no earlier one holds anything, and one more of them
Past(s) == {k \in page.keep : s = <<>> \/ k.from >= Last(s).to}
OneMore(s) == IF Past(s) = {} THEN s ELSE Append(s, Foremost(Past(s)))

LEMMA OneMoreIs ==
  ASSUME page \in Pages, NEW s \in Seq(page.keep)
  PROVE  OneMore(s) \in Seq(page.keep) /\ (Past(s) # {} => Foremost(Past(s)) \in Past(s))
<1>1. Past(s) \in SUBSET page.keep
  BY DEF Past
<1>2. Past(s) # {} => Foremost(Past(s)) \in Past(s)
  BY <1>1, ForemostIs
<1>3. ASSUME NEW f \in page.keep PROVE Append(s, f) \in Seq(page.keep)
  OBVIOUS
<1>4. QED
  BY <1>1, <1>2, <1>3 DEF OneMore

LEMMA OutermostRuns ==
  ASSUME page \in Pages
  PROVE  \E h \in [Nat -> Seq(page.keep)] :
           /\ h[0] = <<>> /\ \A k \in Nat : h[k + 1] = OneMore(h[k])
           /\ Outermost(page.keep) = h[Cardinality(page.keep)]
<1> DEFINE X == Seq(page.keep)
           F == [k \in Nat |-> [s \in X |-> OneMore(s)]]
           upto[n \in Nat] == IF n = 0 THEN <<>> ELSE OneMore(upto[n - 1])
<1>1. Outermost(page.keep) = upto[Cardinality(page.keep)]
  BY DEF Outermost, Foremost, OneMore, Past
<1>2. \A s \in X : OneMore(s) \in X
  BY OneMoreIs
<1>3. F \in [Nat -> [X -> X]] /\ <<>> \in X
  BY <1>2
<1> HIDE DEF X
<1>4. PICK h \in [Nat -> X] : h[0] = <<>> /\ \A k \in Nat \ {0} : h[k] = F[k][h[k - 1]]
  <2> HIDE DEF F
  <2>1. \E g \in [Nat -> X] : Repeats(g, <<>>, F)
    BY <1>3, RepeatExists
  <2>2. QED
    BY <2>1 DEF Repeats
<1>5. ASSUME NEW k \in Nat, k # 0 PROVE h[k] = OneMore(h[k - 1])
  <2>1. k - 1 \in Nat /\ h[k - 1] \in X
    BY <1>5
  <2>2. h[k] = F[k][h[k - 1]]
    BY <1>4, <1>5
  <2>3. QED
    BY <1>5, <2>1, <2>2
<1> HIDE DEF F
<1>6. h = [k \in Nat |-> IF k = 0 THEN <<>> ELSE OneMore(h[k - 1])]
  BY <1>4, <1>5
<1>7. upto = [k \in Nat |-> IF k = 0 THEN <<>> ELSE OneMore(upto[k - 1])]
  BY <1>6
<1> HIDE DEF upto
<1>8. ASSUME NEW k \in Nat PROVE upto[k + 1] = OneMore(upto[k])
  <2>1. \A j \in Nat : upto[j] = IF j = 0 THEN <<>> ELSE OneMore(upto[j - 1])
    BY <1>7, Zenon
  <2>2. k + 1 \in Nat /\ k + 1 # 0 /\ k + 1 - 1 = k
    OBVIOUS
  <2>3. upto[k + 1] = OneMore(upto[k + 1 - 1])
    BY <2>1, <2>2
  <2>4. QED
    BY <2>2, <2>3
<1> DEFINE S == {k \in Nat : upto[k] \in X}
<1>9. 0 \in S
  BY <1>3, <1>7
<1>10. ASSUME NEW k \in S PROVE k + 1 \in S
  BY <1>2, <1>8
<1>11. S = Nat
  <2>1. S \in SUBSET Nat
    OBVIOUS
  <2> HIDE DEF S
  <2>2. QED
    BY <1>9, <1>10, <2>1, EveryNumber
<1>12. upto \in [Nat -> X]
  BY <1>7, <1>11
<1>13. upto[0] = <<>>
  BY <1>7
<1>14. QED
  BY <1>1, <1>8, <1>12, <1>13 DEF X

LEMMA OutermostIs ==
  ASSUME page \in Pages
  PROVE  /\ Outermost(page.keep) \in Seq(page.keep) /\ Outermost(page.keep) \in Seq(Part)
         /\ \A j \in DOMAIN Outermost(page.keep) : Outermost(page.keep)[j].from <= Outermost(page.keep)[j].to
<1> DEFINE o == Outermost(page.keep)
<1>1. o \in Seq(page.keep)
  <2>1. PICK h \in [Nat -> Seq(page.keep)] : o = h[Cardinality(page.keep)]
    BY OutermostRuns
  <2>2. Cardinality(page.keep) \in Nat
    BY PagesArePages, FS_CardinalityType
  <2>3. QED
    BY <2>1, <2>2
<1> HIDE DEF o
<1>2. /\ page.keep \subseteq Part
      /\ \A k \in page.keep : k.from < k.to /\ k.from \in Nat /\ k.to \in Nat
  BY PageIs DEF Part
<1>3. \A j \in DOMAIN o : o[j] \in page.keep
  BY <1>1
<1>4. o \in Seq(Part)
  BY <1>1, <1>2, SeqMonotonic
<1>5. \A j \in DOMAIN o : o[j].from <= o[j].to
  BY <1>2, <1>3
<1>6. QED
  BY <1>1, <1>4, <1>5 DEF o

(***************************************************************************)
(* Cutting a line                                                          *)
(***************************************************************************)
LEMMA AtLine ==
  ASSUME PlanTyped, CutOK, PlanningOK
  PROVE  /\ LineStart \in Nat /\ LineEnd \in Nat /\ End \in Nat
         /\ LineStart <= LineEnd /\ LineEnd <= End
         /\ \A a \in DOMAIN lines : lines[a].end < LineStart
         /\ \A a \in DOMAIN lines : lines[a] \in CutLine /\ a \in Nat
<1>1. End \in Nat /\ page \in Pages
  BY PageIs DEF PlanTyped
<1>2. \A a \in DOMAIN lines : lines[a] \in CutLine /\ a \in Nat
  BY DEF PlanTyped
<1>3. LineStart \in Nat /\ \A a \in DOMAIN lines : lines[a].end < LineStart
  <2>1. CASE lines = <<>>
    BY <2>1 DEF LineStart
  <2>2. CASE lines # <<>>
    <3> DEFINE l == Len(lines)
    <3>1. l \in DOMAIN lines /\ l \in Nat /\ \A a \in DOMAIN lines : a <= l
      BY <2>2 DEF PlanTyped
    <3>2. LineStart = lines[l].end + 1
      BY <2>2 DEF LineStart
    <3> HIDE DEF l
    <3>3. lines[l].start \in Nat /\ lines[l].end \in Nat /\ lines[l].start <= lines[l].end
      BY <1>2, <3>1 DEF CutOK, CutLine
    <3>4. ASSUME NEW a \in DOMAIN lines PROVE lines[a].end < LineStart
      <4>1. CASE a = l
        BY <3>2, <3>3, <4>1
      <4>2. CASE a # l
        <5>1. a < l
          BY <1>2, <3>1, <4>2
        <5>2. lines[a].end < lines[l].start /\ lines[a].end \in Nat
          BY <1>2, <3>1, <5>1 DEF CutOK, CutLine
        <5>3. QED
          BY <3>2, <3>3, <5>2
      <4>3. QED
        BY <4>1, <4>2
    <3>5. QED
      BY <3>2, <3>3, <3>4
  <2>3. QED
    BY <2>1, <2>2
<1>4. LineStart <= End
  BY DEF PlanningOK
<1>5. QED
  BY <1>1, <1>2, <1>3, <1>4, LineEndIs

\* The words before i are flushed
LEMMA FlushNumbers ==
  ASSUME PlanTyped, CutOK, PlanningOK
  PROVE  /\ Flushed.pieces \in Seq(Piece) /\ Flushed.kept \in Seq(Span)
         /\ Numbered(Flushed.kept, Flushed.pieces, i)
         /\ Nums(pieces) \subseteq Nums(Flushed.pieces)
         /\ from = i => Flushed.pieces = pieces /\ Flushed.kept = kept
<1> DEFINE k == Flushed.kept
           p == Flushed.pieces
<1>1. from <= i /\ LineStart <= from /\ Numbered(kept, pieces, from)
  BY DEF PlanningOK
<1>2. FlushedTo(Flushed, pieces, kept, from, i) /\ (from = i => p = pieces /\ k = kept)
  BY <1>1, FlushedIs
<1>3. LineStart \in Nat /\ from \in Nat /\ i \in Nat /\ kept \in Seq(Span) /\ \A a \in DOMAIN lines : lines[a] \in CutLine
  BY AtLine DEF PlanTyped
<1> HIDE DEF k, p
<1>4. /\ p \in Seq(Piece) /\ k \in Seq(Span) /\ Nums(pieces) \subseteq Nums(p)
      /\ Nums(p) \subseteq Nums(pieces) \cup (DOMAIN k \ DOMAIN kept)
      /\ \A n \in DOMAIN kept : n \in DOMAIN k /\ k[n] = kept[n]
      /\ \A n \in DOMAIN k : k[n] \in Span /\ n \in Nat
      /\ \A m \in DOMAIN kept, n \in DOMAIN k : n < m => n \in DOMAIN kept
  <2>1. p \in Seq(Piece) /\ k \in Seq(Span) /\ Len(kept) <= Len(k)
    BY <1>2 DEF FlushedTo, k, p
  <2>2. /\ DOMAIN kept = 1..Len(kept) /\ DOMAIN k = 1..Len(k) /\ Len(kept) \in Nat /\ Len(k) \in Nat
    BY <1>3, <2>1
  <2>3. DOMAIN kept \subseteq DOMAIN k
    BY <2>1, <2>2
  <2>4. \A m \in DOMAIN kept, n \in DOMAIN k : n < m => n \in DOMAIN kept
    BY <2>1, <2>2
  <2>5. \A n \in DOMAIN k : k[n] \in Span /\ n \in Nat
    BY <2>1, <2>2
  <2>6. QED
    BY <1>2, <2>1, <2>3, <2>4, <2>5 DEF FlushedTo, k, p
<1>5. \A n \in DOMAIN k : n \notin DOMAIN kept =>
        from <= k[n].from /\ k[n].from <= k[n].to /\ k[n].to <= i
  BY <1>2 DEF FlushedTo, k
<1>6. \A m, n \in DOMAIN k : m \notin DOMAIN kept /\ m < n => k[m].to <= k[n].from
  BY <1>2 DEF FlushedTo, k
<1>7. \A n \in DOMAIN kept : kept[n].to <= from /\ kept[n].to \in Nat /\ kept[n].from \in Nat
  <2>1. \A n \in DOMAIN kept : kept[n] \in Span
    BY <1>3
  <2>2. QED
    BY <1>1, <2>1 DEF Numbered, Span
<1>8. InOrder(k)
  <2>1. ASSUME NEW n \in DOMAIN k PROVE k[n].from <= k[n].to
    BY <1>1, <1>4, <1>5 DEF Numbered, InOrder
  <2>2. ASSUME NEW m \in DOMAIN k, NEW n \in DOMAIN k, m < n, k[m] # NoRange, k[n] # NoRange
        PROVE  k[m].to <= k[n].from
    <3>1. CASE m \notin DOMAIN kept
      BY <1>6, <2>2, <3>1
    <3>2. CASE m \in DOMAIN kept /\ n \in DOMAIN kept
      BY <1>1, <1>4, <2>2, <3>2 DEF Numbered, InOrder
    <3>3. CASE m \in DOMAIN kept /\ n \notin DOMAIN kept
      <4>1. k[m].to <= from /\ from <= k[n].from /\ k[m].to \in Nat /\ k[n].from \in Nat
        BY <1>4, <1>5, <1>7, <3>3 DEF Span
      <4>2. QED
        BY <1>3, <4>1
    <3>4. QED
      BY <3>1, <3>2, <3>3
  <2>3. QED
    BY <2>1, <2>2 DEF InOrder
<1>9. CutKept(k)
  <2>1. ASSUME NEW a \in DOMAIN lines, NEW n \in Nums(lines[a].pieces)
        PROVE  n \in DOMAIN k /\ (k[n] # NoRange => lines[a].start <= k[n].from /\ k[n].to <= lines[a].end)
    BY <1>1, <1>4 DEF Numbered, CutKept, Inside
  <2>2. QED
    BY <2>1 DEF CutKept, Inside
<1>10. \A n \in DOMAIN k : k[n].to <= i
  <2>1. ASSUME NEW n \in DOMAIN kept PROVE k[n].to <= i
    <3>1. k[n].to <= from /\ k[n].to \in Nat
      BY <1>4, <1>7
    <3>2. QED
      BY <1>1, <1>3, <3>1
  <2>2. QED
    BY <1>5, <2>1
<1>11. Inside(k, Nums(p), LineStart, i)
  <2>1. ASSUME NEW n \in Nums(p) PROVE n \in DOMAIN k
    BY <1>1, <1>4, <2>1 DEF Numbered, Inside
  <2>2. ASSUME NEW n \in Nums(p), k[n] # NoRange PROVE LineStart <= k[n].from
    <3>1. CASE n \in Nums(pieces)
      BY <1>1, <1>4, <2>2, <3>1 DEF Numbered, Inside
    <3>2. CASE n \notin DOMAIN kept
      <4>1. from <= k[n].from /\ k[n].from \in Nat
        BY <1>4, <1>5, <2>1, <3>2 DEF Span
      <4>2. QED
        BY <1>1, <1>3, <4>1
    <3>3. QED
      BY <1>4, <3>1, <3>2
  <2>3. QED
    BY <1>10, <2>1, <2>2 DEF Inside
<1>12. ASSUME NEW a \in DOMAIN lines PROVE Nums(p) \cap Nums(lines[a].pieces) = {}
  <2>1. Nums(lines[a].pieces) \subseteq DOMAIN kept
    BY <1>1 DEF Numbered, CutKept, Inside
  <2>2. Nums(pieces) \cap Nums(lines[a].pieces) = {}
    BY <1>1 DEF Numbered
  <2>3. QED
    BY <1>4, <2>1, <2>2
<1>13. Numbered(k, p, i)
  BY <1>8, <1>9, <1>10, <1>11, <1>12 DEF Numbered
<1>14. QED
  BY <1>2, <1>4, <1>13 DEF k, p

\* The next number is given
LEMMA NumberMore ==
  ASSUME PlanTyped, CutOK, PlanningOK,
         NEW k \in Seq(Span), NEW p \in Seq(Piece), NEW lo \in Nat, NEW hi \in Nat, lo <= hi, LineStart <= lo,
         Numbered(k, p, lo),
         NEW r \in Span, r = NoRange \/ (lo <= r.from /\ r.from <= r.to /\ r.to <= hi),
         NEW x \in Piece, x.kind \in {"open", "kept"}, x.n = Len(k) + 1
  PROVE  /\ Append(k, r) \in Seq(Span) /\ Append(p, x) \in Seq(Piece)
         /\ Numbered(Append(k, r), Append(p, x), hi)
         /\ Nums(Append(p, x)) = Nums(p) \cup {x.n}
<1> DEFINE u == Append(k, r)
           q == Append(p, x)
           l == Len(k)
<1>1. /\ u \in Seq(Span) /\ DOMAIN u = 1..(l + 1) /\ DOMAIN k = 1..l /\ l \in Nat /\ u[l + 1] = r
      /\ \A n \in DOMAIN k : u[n] = k[n] /\ n \in DOMAIN u /\ k[n] \in Span
  OBVIOUS
<1>2. q \in Seq(Piece) /\ Nums(q) = Nums(p) \cup {l + 1}
  BY NumsAppend
<1> HIDE DEF u, q, l
<1>3. \A n \in DOMAIN u : n = l + 1 \/ n \in DOMAIN k
  BY <1>1
<1>4. l + 1 \in DOMAIN u /\ l + 1 \notin DOMAIN k /\ \A n \in DOMAIN k : n < l + 1 /\ ~(l + 1 < n)
  BY <1>1
<1>5. r.from \in Nat /\ r.to \in Nat /\ r.from <= r.to /\ r.to <= hi
  <2>1. NoRange.from = 0 /\ NoRange.to = 0
    BY DEF NoRange
  <2>2. r.from \in Nat /\ r.to \in Nat
    BY DEF Span
  <2>3. QED
    BY <2>1, <2>2
<1>6. \A n \in DOMAIN k : k[n].to <= lo /\ k[n].to \in Nat /\ k[n].from \in Nat
  BY <1>1 DEF Numbered, Span
<1>7. InOrder(u)
  <2>1. ASSUME NEW n \in DOMAIN u PROVE u[n].from <= u[n].to
    BY <1>1, <1>3, <1>5 DEF Numbered, InOrder
  <2>2. ASSUME NEW m \in DOMAIN u, NEW n \in DOMAIN u, m < n, u[m] # NoRange, u[n] # NoRange
        PROVE  u[m].to <= u[n].from
    <3>1. CASE n \in DOMAIN k
      <4>1. m \in DOMAIN k
        BY <1>3, <1>4, <2>2, <3>1
      <4>2. QED
        BY <1>1, <2>2, <3>1, <4>1 DEF Numbered, InOrder
    <3>2. CASE n = l + 1
      <4>1. m \in DOMAIN k
        BY <1>1, <1>3, <2>2, <3>2
      <4>2. u[m].to <= lo /\ u[m].to \in Nat /\ lo <= u[n].from
        BY <1>1, <1>6, <2>2, <3>2, <4>1
      <4>3. QED
        BY <1>1, <1>5, <3>2, <4>2
    <3>3. QED
      BY <1>3, <3>1, <3>2
  <2>3. QED
    BY <2>1, <2>2 DEF InOrder
<1>8. CutKept(u)
  <2>1. ASSUME NEW a \in DOMAIN lines, NEW n \in Nums(lines[a].pieces)
        PROVE  n \in DOMAIN u /\ (u[n] # NoRange => lines[a].start <= u[n].from /\ u[n].to <= lines[a].end)
    BY <1>1 DEF Numbered, CutKept, Inside
  <2>2. QED
    BY <2>1 DEF CutKept, Inside
<1>9. \A n \in DOMAIN u : u[n].to <= hi
  <2>1. ASSUME NEW n \in DOMAIN k PROVE u[n].to <= hi
    BY <1>1, <1>6
  <2>2. QED
    BY <1>1, <1>3, <1>5, <2>1
<1>10. Inside(u, Nums(q), LineStart, hi)
  <2>1. ASSUME NEW n \in Nums(p) PROVE n \in DOMAIN u /\ (u[n] # NoRange => LineStart <= u[n].from)
    BY <1>1 DEF Numbered, Inside
  <2>2. r # NoRange => LineStart <= r.from
    BY <1>5, AtLine
  <2>3. QED
    BY <1>1, <1>2, <1>4, <1>9, <2>1, <2>2 DEF Inside
<1>11. ASSUME NEW a \in DOMAIN lines PROVE Nums(q) \cap Nums(lines[a].pieces) = {}
  <2>1. Nums(lines[a].pieces) \subseteq DOMAIN k /\ Nums(p) \cap Nums(lines[a].pieces) = {}
    BY DEF Numbered, CutKept, Inside
  <2>2. QED
    BY <1>2, <1>4, <2>1
<1>12. Numbered(u, q, hi)
  BY <1>7, <1>8, <1>9, <1>10, <1>11 DEF Numbered
<1>13. QED
  BY <1>1, <1>2, <1>12 DEF u, q, l

LEMMA NumberedUpTo ==
  ASSUME NEW k \in Seq(Span), NEW p, NEW lo \in Nat, NEW hi \in Nat, lo <= hi, Numbered(k, p, lo)
  PROVE  Numbered(k, p, hi)
<1>1. \A n \in DOMAIN k : k[n] \in Span
  OBVIOUS
<1>2. ASSUME NEW n \in DOMAIN k PROVE k[n].to <= hi
  <2>1. k[n].to <= lo /\ k[n].to \in Nat
    BY <1>1 DEF Numbered, Span
  <2>2. QED
    BY <2>1
<1>3. Inside(k, Nums(p), LineStart, hi)
  BY <1>2 DEF Numbered, Inside
<1>4. QED
  BY <1>2, <1>3 DEF Numbered

LEMMA NumberedSame ==
  ASSUME NEW k, NEW p, NEW q, NEW to, Nums(q) = Nums(p), Numbered(k, p, to)
  PROVE  Numbered(k, q, to)
BY DEF Numbered

\* Every link is on a line cut, or on the one being cut
LinksOn(ls, p) ==
  \A j \in DOMAIN ls :
    /\ ls[j].from < ls[j].to
    /\ \/ \E a \in DOMAIN lines : LinkOn(ls[j], lines[a].pieces, lines[a].start, lines[a].end)
       \/ LinkOn(ls[j], p, LineStart, LineEnd)

LEMMA LinksStayOn ==
  ASSUME PlanOK, phase = "planning", NEW p, Nums(pieces) \subseteq Nums(p)
  PROVE  LinksOn(links, p)
BY DEF PlanOK, LinksOK, LinksOn, LinkOn

LEMMA PlanStep ==
  ASSUME Inv, phase = "planning", page' = page, phase' = phase, lines' = lines,
         UNCHANGED <<line, rest, put, text, edges, moved>>,
         pieces' \in Seq(Piece), kept' \in Seq(Span), Numbered(kept', pieces', from'),
         from' \in Nat, i' \in Nat, LineStart <= from', from' <= i', i' <= LineEnd,
         outer' \in Seq(Part),
         \A j \in DOMAIN outer' : outer'[j].from <= outer'[j].to,
         closes' \in Seq(Closing),
         links' \in Seq(Link),
         LinksOn(links', pieces'),
         LineStart # LineEnd
  PROVE  Inv'
<1>1. LineStart' = LineStart
  BY DEF LineStart
<1>2. End' = End
  BY DEF End
<1>3. LineEnd' = LineEnd
  BY <1>1, <1>2 DEF LineEnd, CharAt
<1>4. PlanTyped'
  BY DEF Inv, PlanTyped
<1>5. WriteTyped'
  BY DEF Inv, WriteTyped
<1>6. CutOK'
  BY <1>2 DEF Inv, PlanOK, CutOK
<1>7. InOrder(kept') /\ CutKept(kept)'
  BY DEF Numbered, CutKept
<1>8. LinksOK'
  BY <1>1, <1>3 DEF LinksOn, LinksOK
<1>9. Numbered(kept, pieces, from)'
  BY <1>1, <1>7 DEF Numbered
<1>10. PlanningOK'
  BY <1>1, <1>2, <1>3, <1>9 DEF Inv, PlanOK, PlanningOK
<1>11. RecordsOK'
  BY DEF RecordsOK, BlocksStay, LinksStayOnTheirLine
<1>12. QED
  BY <1>4, <1>5, <1>6, <1>7, <1>8, <1>10, <1>11 DEF Inv, PlanOK

\* The kept parts ahead are some of those not yet cut
LEMMA AheadIs ==
  ASSUME PlanTyped, \A j \in DOMAIN outer : outer[j].from <= outer[j].to
  PROVE  /\ Ahead \in Seq(Part)
         /\ \A j \in DOMAIN Ahead : Ahead[j].from <= Ahead[j].to
<1> DEFINE I == {j \in 1..Len(outer) : outer[j].to > i \/ outer[j].from >= i}
<1>1. outer \in Seq(Part) /\ Len(outer) \in Nat /\ I \in SUBSET (1..Len(outer))
  BY DEF PlanTyped
<1>2. CASE I = {}
  <2>1. Ahead = <<>>
    BY <1>2 DEF Ahead, SelectInSeq
  <2>2. QED
    BY <2>1
<1>3. CASE I # {}
  <2>1. Ahead = IF Min(I) = 0 THEN <<>> ELSE SubSeq(outer, Min(I), Len(outer))
    BY <1>3 DEF Ahead, SelectInSeq
  <2>2. I \in SUBSET Nat
    OBVIOUS
  <2>3. \E d \in I : \A e \in I : d <= e
    BY <1>3, <2>2, FirstExists
  <2>4. Min(I) \in I
    BY <2>3 DEF Min
  <2> DEFINE m == Min(I)
  <2> HIDE DEF m, I
  <2>5. m \in 1..Len(outer)
    BY <1>1, <2>4 DEF m
  <2>6. Ahead = SubSeq(outer, m, Len(outer))
    BY <2>1, <2>5 DEF m
  <2>7. \A j \in m..Len(outer) : outer[j] \in Part
    BY <1>1, <2>5
  <2>8. /\ Ahead \in Seq(Part)
        /\ Len(Ahead) = IF m <= Len(outer) THEN Len(outer) - m + 1 ELSE 0
        /\ \A j \in 1..(Len(outer) - m + 1) : Ahead[j] = outer[m + j - 1]
    BY <1>1, <2>5, <2>6, <2>7, SubSeqProperties
  <2>9. ASSUME NEW j \in DOMAIN Ahead PROVE Ahead[j].from <= Ahead[j].to
    <3>1. j \in 1..(Len(outer) - m + 1)
      BY <1>1, <2>5, <2>8
    <3>2. m + j - 1 \in DOMAIN outer
      BY <1>1, <2>5, <3>1
    <3>3. QED
      BY <2>8, <3>1, <3>2
  <2>10. QED
    BY <2>8, <2>9
<1>4. QED
  BY <1>2, <1>3

LEMMA CuttingIs ==
  ASSUME Inv, Cutting
  PROVE  /\ phase = "planning" /\ PlanTyped /\ PlanOK /\ CutOK /\ PlanningOK
         /\ LineStart \in Nat /\ LineEnd \in Nat /\ i \in Nat /\ from \in Nat
         /\ LineStart <= from /\ from <= i /\ i < LineEnd /\ LineStart # LineEnd
<1>1. phase = "planning" /\ i < LineEnd /\ PlanTyped /\ PlanOK /\ CutOK /\ PlanningOK
  BY DEF Inv, Cutting, PlanOK
<1>2. LineStart \in Nat /\ LineEnd \in Nat /\ i \in Nat /\ from \in Nat
  BY <1>1, AtLine DEF PlanTyped
<1>3. LineStart <= from /\ from <= i
  BY <1>1 DEF PlanningOK
<1>4. QED
  BY <1>1, <1>2, <1>3

LEMMA AdvanceKeeps == ASSUME Inv, Advance PROVE Inv'
<1>1. /\ phase = "planning" /\ PlanTyped /\ PlanOK /\ PlanningOK /\ LineStart # LineEnd
      /\ LineStart \in Nat /\ LineEnd \in Nat /\ i \in Nat /\ from \in Nat
      /\ LineStart <= from /\ from <= i /\ i < LineEnd
  BY CuttingIs DEF Advance
<1>2. /\ page' = page /\ phase' = phase /\ lines' = lines /\ pieces' = pieces /\ kept' = kept /\ from' = from
      /\ UNCHANGED <<line, rest, put, text, edges, moved>> /\ closes' = closes /\ links' = links /\ outer' = Ahead
  BY DEF Advance, writeVars
<1>3. i' \in Nat /\ from <= i' /\ i' <= LineEnd
  <2> DEFINE places == {closes[j].end : j \in DOMAIN closes} \cup {l.from : l \in Standing}
                         \cup (IF Ahead = <<>> THEN {} ELSE {Ahead[1].from})
             next == {p \in places : i < p /\ p < LineEnd} \cup {LineEnd}
  <2>1. i' = CHOOSE p \in next : \A q \in next : p <= q
    BY DEF Advance
  <2>2. Ahead \in Seq(Part)
    BY <1>1, AheadIs DEF PlanningOK
  <2>3. places \in SUBSET Nat
    <3>1. \A j \in DOMAIN closes : closes[j].end \in Nat
      <4>1. \A j \in DOMAIN closes : closes[j] \in Closing
        BY <1>1 DEF PlanTyped
      <4>2. QED
        BY <4>1 DEF Closing
    <3>2. \A l \in Standing : l.from \in Nat
      BY <1>1, PageIs DEF PlanTyped, Standing, Coming
    <3>3. Ahead # <<>> => Ahead[1].from \in Nat
      <4>1. Ahead # <<>> => Ahead[1] \in Part
        BY <2>2
      <4>2. QED
        BY <4>1 DEF Part
    <3>4. QED
      BY <3>1, <3>2, <3>3
  <2> HIDE DEF places
  <2>4. next \in SUBSET Nat /\ next # {}
    BY <1>1, <2>3
  <2>5. \E p \in next : \A q \in next : p <= q
    <3> HIDE DEF next
    <3>1. QED
      BY <2>4, FirstExists
  <2>6. i' \in next
    BY <2>1, <2>5
  <2>7. QED
    BY <1>1, <2>4, <2>6
<1>4. outer' \in Seq(Part) /\ \A j \in DOMAIN outer' : outer'[j].from <= outer'[j].to
  BY <1>1, <1>2, AheadIs DEF PlanningOK
<1>5. Numbered(kept', pieces', from')
  BY <1>1, <1>2 DEF PlanningOK
<1>6. LinksOn(links', pieces')
  BY <1>1, <1>2, LinksStayOn
<1>7. /\ pieces' \in Seq(Piece) /\ kept' \in Seq(Span) /\ closes' \in Seq(Closing)
      /\ links' \in Seq(Link) /\ from' \in Nat
  BY <1>1, <1>2 DEF PlanTyped
<1>8. LineStart <= from' /\ from' <= i'
  BY <1>1, <1>2, <1>3
<1>9. QED
  BY <1>1, <1>2, <1>3, <1>4, <1>5, <1>6, <1>7, <1>8, PlanStep

LEMMA CloseLinkKeeps == ASSUME Inv, CloseLink PROVE Inv'
<1>1. /\ phase = "planning" /\ PlanTyped /\ PlanOK /\ CutOK /\ PlanningOK /\ LineStart # LineEnd
      /\ LineStart \in Nat /\ LineEnd \in Nat /\ i \in Nat /\ from \in Nat
      /\ LineStart <= from /\ from <= i /\ i < LineEnd
  BY CuttingIs DEF CloseLink
<1> DEFINE c == CHOOSE c \in Ending : \A d \in Ending : c <= d
           x == [kind |-> "close", n |-> closes[c].n]
<1>2. /\ page' = page /\ phase' = phase /\ lines' = lines /\ kept' = Flushed.kept /\ from' = i /\ i' = i
      /\ UNCHANGED <<line, rest, put, text, edges, moved>> /\ links' = links /\ outer' = outer
      /\ pieces' = Append(Flushed.pieces, x) /\ closes' = RemoveAt(closes, c) /\ Ending # {}
  BY DEF CloseLink, writeVars
<1>3. c \in DOMAIN closes /\ closes \in Seq(Closing)
  <2>1. closes \in Seq(Closing)
    BY <1>1 DEF PlanTyped
  <2>2. Ending \in SUBSET Nat /\ Ending \subseteq DOMAIN closes
    BY <2>1 DEF Ending
  <2>3. \E d \in Ending : \A e \in Ending : d <= e
    BY <1>2, <2>2, FirstExists
  <2>4. QED
    BY <2>1, <2>2, <2>3
<1> HIDE DEF c
<1>4. x \in Piece /\ x.kind = "close"
  <2>1. closes[c] \in Closing
    BY <1>3
  <2>2. closes[c].n \in Nat
    BY <2>1 DEF Closing
  <2>3. QED
    BY <2>2 DEF Piece
<1> HIDE DEF x
<1>5. /\ Flushed.pieces \in Seq(Piece) /\ Flushed.kept \in Seq(Span)
      /\ Numbered(Flushed.kept, Flushed.pieces, i) /\ Nums(pieces) \subseteq Nums(Flushed.pieces)
  BY <1>1, FlushNumbers
<1>6. pieces' \in Seq(Piece) /\ Nums(pieces') = Nums(Flushed.pieces)
  BY <1>2, <1>4, <1>5, NumsAppend
<1>7. Numbered(kept', pieces', from')
  BY <1>2, <1>5, <1>6, NumberedSame
<1>8. LinksOn(links', pieces')
  BY <1>1, <1>2, <1>5, <1>6, LinksStayOn
<1>9. closes' \in Seq(Closing)
  <2>1. closes \in Seq(Closing) /\ c \in 1..Len(closes)
    BY <1>3
  <2>2. SubSeq(closes, 1, c - 1) \in Seq(Closing) /\ SubSeq(closes, c + 1, Len(closes)) \in Seq(Closing)
    BY <2>1, SubSeqProperties
  <2>3. QED
    BY <1>2, <2>2 DEF RemoveAt
<1>10. /\ outer' \in Seq(Part)
       /\ links' \in Seq(Link) /\ kept' \in Seq(Span)
       /\ \A j \in DOMAIN outer' : outer'[j].from <= outer'[j].to
  BY <1>1, <1>2, <1>5 DEF PlanTyped, PlanningOK
<1>11. from' \in Nat /\ i' \in Nat /\ LineStart <= from' /\ from' <= i' /\ i' <= LineEnd
  BY <1>1, <1>2
<1>12. QED
  BY <1>1, <1>2, <1>6, <1>7, <1>8, <1>9, <1>10, <1>11, PlanStep

LEMMA OpenLinkKeeps == ASSUME Inv, OpenLink PROVE Inv'
<1>1. /\ phase = "planning" /\ PlanTyped /\ PlanOK /\ CutOK /\ PlanningOK /\ LineStart # LineEnd
      /\ LineStart \in Nat /\ LineEnd \in Nat /\ i \in Nat /\ from \in Nat
      /\ LineStart <= from /\ from <= i /\ i < LineEnd
  BY CuttingIs DEF OpenLink
<1> DEFINE l == CHOOSE m \in Opening : TRUE
           n == Len(Flushed.kept) + 1
           x == [kind |-> "open", n |-> n]
           new == [from |-> l.from, to |-> l.to, n |-> n]
           c == [end |-> l.to, n |-> n]
<1>2. /\ page' = page /\ phase' = phase /\ lines' = lines /\ from' = i /\ i' = i /\ outer' = outer
      /\ UNCHANGED <<line, rest, put, text, edges, moved>>
      /\ pieces' = Append(Flushed.pieces, x) /\ kept' = Append(Flushed.kept, NoRange)
      /\ links' = Append(links, new) /\ closes' = Append(closes, c) /\ Opening # {}
  BY DEF OpenLink, writeVars
<1>3. /\ Flushed.pieces \in Seq(Piece) /\ Flushed.kept \in Seq(Span)
      /\ Numbered(Flushed.kept, Flushed.pieces, i) /\ Nums(pieces) \subseteq Nums(Flushed.pieces)
  BY <1>1, FlushNumbers
<1>4. l \in Opening
  BY <1>2
<1>5. l \in page.sent /\ l.from = i /\ l.to <= LineEnd
  BY <1>4 DEF Opening, Standing, Coming
<1> HIDE DEF l
<1>6. l.from \in Nat /\ l.to \in Nat /\ l.from < l.to
  BY <1>1, <1>5, PageIs DEF PlanTyped
<1>7. n \in Nat
  BY <1>3
<1>8. x \in Piece /\ x.kind \in {"open", "kept"} /\ x.n = n /\ new \in Link /\ c \in Closing
  BY <1>6, <1>7 DEF Piece, Link, Closing
<1>9. new.from = l.from /\ new.to = l.to /\ new.n = n
  OBVIOUS
<1>10. NoRange \in Span
  BY DEF NoRange, Span
<1> HIDE DEF x, new, c
<1>11. /\ kept' \in Seq(Span) /\ pieces' \in Seq(Piece) /\ Numbered(kept', pieces', i)
       /\ Nums(pieces') = Nums(Flushed.pieces) \cup {n}
  <2>1. x \in Piece /\ x.kind \in {"open", "kept"} /\ x.n = Len(Flushed.kept) + 1
    BY <1>8
  <2>2. i <= i /\ LineStart <= i /\ i \in Nat /\ PlanTyped /\ CutOK /\ PlanningOK
    BY <1>1
  <2> HIDE DEF n
  <2>3. /\ Append(Flushed.kept, NoRange) \in Seq(Span) /\ Append(Flushed.pieces, x) \in Seq(Piece)
        /\ Numbered(Append(Flushed.kept, NoRange), Append(Flushed.pieces, x), i)
        /\ Nums(Append(Flushed.pieces, x)) = Nums(Flushed.pieces) \cup {x.n}
    BY <1>3, <1>10, <2>1, <2>2, NumberMore
  <2>4. QED
    BY <1>2, <1>8, <2>3
<1>12. LinksOn(links', pieces')
  <2>1. LinksOn(links, pieces')
    BY <1>1, <1>3, <1>11, LinksStayOn
  <2>2. LinkOn(new, pieces', LineStart, LineEnd)
    BY <1>1, <1>5, <1>9, <1>11 DEF LinkOn
  <2>3. ASSUME NEW j \in DOMAIN links' PROVE links'[j] = new \/ (j \in DOMAIN links /\ links'[j] = links[j])
    <3>1. links \in Seq(Link)
      BY <1>1 DEF PlanTyped
    <3>2. QED
      BY <1>2, <3>1
  <2>4. QED
    BY <1>6, <1>9, <2>1, <2>2, <2>3 DEF LinksOn
<1>13. closes' \in Seq(Closing) /\ links' \in Seq(Link)
  BY <1>1, <1>2, <1>8 DEF PlanTyped
<1>14. outer' \in Seq(Part) /\ \A j \in DOMAIN outer' : outer'[j].from <= outer'[j].to
  BY <1>1, <1>2 DEF PlanTyped, PlanningOK
<1>15. from' \in Nat /\ i' \in Nat /\ LineStart <= from' /\ from' <= i' /\ i' <= LineEnd
  BY <1>1, <1>2
<1>16. Numbered(kept', pieces', from')
  BY <1>2, <1>11
<1>17. QED
  BY <1>1, <1>2, <1>11, <1>12, <1>13, <1>14, <1>15, <1>16, PlanStep

LEMMA RestOfIs ==
  ASSUME NEW a \in Seq(Part), a # <<>>, \A j \in DOMAIN a : a[j].from <= a[j].to, LineEnd \in Nat,
         NEW to, to = IF a[1].to <= LineEnd THEN a[1].to ELSE LineEnd
  PROVE  RestOf(a, to) \in Seq(Part) /\ \A j \in DOMAIN RestOf(a, to) : RestOf(a, to)[j].from <= RestOf(a, to)[j].to
<1>1. a[1] \in Part /\ 1 \in DOMAIN a
  OBVIOUS
<1>2. a[1].from \in Nat /\ a[1].to \in Nat
  BY <1>1 DEF Part
<1>3. CASE to = a[1].to
  <2>1. RestOf(a, to) = Tail(a)
    BY <1>3 DEF RestOf
  <2>2. /\ Tail(a) \in Seq(Part) /\ Len(Tail(a)) = Len(a) - 1
        /\ \A j \in 1..Len(Tail(a)) : Tail(a)[j] = a[j + 1]
    BY HeadTailProperties
  <2>3. \A j \in DOMAIN Tail(a) : j \in 1..Len(Tail(a)) /\ j + 1 \in DOMAIN a
    BY <2>2
  <2>4. QED
    BY <2>1, <2>2, <2>3
<1>4. CASE to # a[1].to
  <2> DEFINE b == [a[1] EXCEPT !.from = LineEnd + 1]
  <2>1. RestOf(a, to) = [a EXCEPT ![1] = b]
    BY <1>4 DEF RestOf
  <2>2. b \in Part /\ b.from = LineEnd + 1 /\ b.to = a[1].to
    <3>1. PICK f \in Nat, t \in Nat, d \in BOOLEAN : a[1] = [from |-> f, to |-> t, dropped |-> d]
      BY <1>1 DEF Part
    <3>2. LineEnd + 1 \in Nat
      OBVIOUS
    <3>3. b = [from |-> LineEnd + 1, to |-> t, dropped |-> d] /\ a[1].to = t
      BY <3>1
    <3>4. QED
      BY <3>2, <3>3 DEF Part
  <2>3. LineEnd + 1 <= a[1].to
    BY <1>2, <1>4
  <2> HIDE DEF b
  <2>4. [a EXCEPT ![1] = b] \in Seq(Part)
    BY <2>2
  <2>5. ASSUME NEW j \in DOMAIN a PROVE [a EXCEPT ![1] = b][j].from <= [a EXCEPT ![1] = b][j].to
    BY <2>2, <2>3
  <2>6. DOMAIN [a EXCEPT ![1] = b] = DOMAIN a
    OBVIOUS
  <2>7. QED
    BY <2>1, <2>4, <2>5, <2>6
<1>5. QED
  BY <1>3, <1>4

LEMMA KeepPartKeeps == ASSUME Inv, KeepPart PROVE Inv'
<1>1. /\ phase = "planning" /\ PlanTyped /\ PlanOK /\ CutOK /\ PlanningOK /\ LineStart # LineEnd
      /\ LineStart \in Nat /\ LineEnd \in Nat /\ i \in Nat /\ from \in Nat
      /\ LineStart <= from /\ from <= i /\ i < LineEnd
  BY CuttingIs DEF KeepPart
<1> DEFINE k == Ahead[1]
           to == IF k.to <= LineEnd THEN k.to ELSE LineEnd
           n == Len(Flushed.kept) + 1
           x == [kind |-> "kept", n |-> n]
           r == [from |-> i, to |-> to]
<1>2. /\ page' = page /\ phase' = phase /\ lines' = lines /\ from' = to /\ i' = to /\ outer' = RestOf(Ahead, to)
      /\ UNCHANGED <<line, rest, put, text, edges, moved>> /\ links' = links /\ closes' = closes
      /\ IF k.dropped THEN pieces' = Flushed.pieces /\ kept' = Flushed.kept
         ELSE pieces' = Append(Flushed.pieces, x) /\ kept' = Append(Flushed.kept, r)
      /\ Ahead # <<>> /\ k.from = i
  BY DEF KeepPart, Keeping, writeVars
<1>3. /\ Flushed.pieces \in Seq(Piece) /\ Flushed.kept \in Seq(Span)
      /\ Numbered(Flushed.kept, Flushed.pieces, i) /\ Nums(pieces) \subseteq Nums(Flushed.pieces)
  BY <1>1, FlushNumbers
<1>4. Ahead \in Seq(Part) /\ \A j \in DOMAIN Ahead : Ahead[j].from <= Ahead[j].to
  BY <1>1, AheadIs DEF PlanningOK
<1>5. to \in Nat /\ i <= to /\ to <= LineEnd
  <2>1. 1 \in DOMAIN Ahead /\ k \in Part
    BY <1>2, <1>4
  <2>2. k.to \in Nat /\ i <= k.to
    BY <1>2, <1>4, <2>1 DEF Part
  <2>3. QED
    BY <1>1, <2>2
<1>6. outer' \in Seq(Part) /\ \A j \in DOMAIN outer' : outer'[j].from <= outer'[j].to
  BY <1>1, <1>2, <1>4, RestOfIs
<1> HIDE DEF to, k
<1>7. n \in Nat
  BY <1>3
<1>8. x \in Piece /\ x.kind \in {"open", "kept"} /\ x.n = n /\ r \in Span /\ r.from = i /\ r.to = to
  BY <1>1, <1>5, <1>7 DEF Piece, Span
<1> HIDE DEF x, r
<1>9. /\ kept' \in Seq(Span) /\ pieces' \in Seq(Piece) /\ Numbered(kept', pieces', to)
      /\ Nums(Flushed.pieces) \subseteq Nums(pieces')
  <2>1. CASE k.dropped
    BY <1>1, <1>2, <1>3, <1>5, <2>1, NumberedUpTo
  <2>2. CASE ~k.dropped
    <3>1. r = NoRange \/ (i <= r.from /\ r.from <= r.to /\ r.to <= to)
      BY <1>1, <1>5, <1>8
    <3>2. i \in Nat /\ LineStart <= i /\ PlanTyped /\ CutOK /\ PlanningOK
      BY <1>1
    <3>3. r \in Span /\ x \in Piece /\ x.kind \in {"open", "kept"} /\ x.n = Len(Flushed.kept) + 1
      BY <1>8
    <3> HIDE DEF n
    <3>4. /\ Append(Flushed.kept, r) \in Seq(Span) /\ Append(Flushed.pieces, x) \in Seq(Piece)
          /\ Numbered(Append(Flushed.kept, r), Append(Flushed.pieces, x), to)
          /\ Nums(Append(Flushed.pieces, x)) = Nums(Flushed.pieces) \cup {x.n}
      BY <1>3, <1>5, <3>1, <3>2, <3>3, NumberMore
    <3>5. kept' = Append(Flushed.kept, r) /\ pieces' = Append(Flushed.pieces, x)
      BY <1>2, <2>2
    <3>6. QED
      BY <3>4, <3>5
  <2>3. QED
    BY <2>1, <2>2
<1>10. LinksOn(links', pieces')
  BY <1>1, <1>2, <1>3, <1>9, LinksStayOn
<1>11. closes' \in Seq(Closing) /\ links' \in Seq(Link)
  BY <1>1, <1>2 DEF PlanTyped
<1>12. from' \in Nat /\ i' \in Nat /\ LineStart <= from' /\ from' <= i' /\ i' <= LineEnd
  BY <1>1, <1>2, <1>5
<1>13. Numbered(kept', pieces', from')
  BY <1>2, <1>9
<1>14. QED
  BY <1>1, <1>2, <1>6, <1>9, <1>10, <1>11, <1>12, <1>13, PlanStep

\* Closing markers give no numbers
LEMMA NumsClosing ==
  ASSUME NEW p \in Seq(Piece), NEW q \in Seq(Piece), \A y \in DOMAIN q : q[y].kind = "close"
  PROVE  p \o q \in Seq(Piece) /\ Nums(p \o q) = Nums(p)
<1> DEFINE u == p \o q
<1>1. /\ u \in Seq(Piece) /\ Len(u) = Len(p) + Len(q) /\ Len(p) \in Nat /\ Len(q) \in Nat
      /\ DOMAIN u = 1..Len(u) /\ DOMAIN p = 1..Len(p) /\ DOMAIN q = 1..Len(q)
  OBVIOUS
<1>2. \A y \in DOMAIN p : y \in DOMAIN u /\ u[y] = p[y]
  OBVIOUS
<1>3. ASSUME NEW y \in DOMAIN u, u[y].kind \in {"open", "kept"} PROVE y \in DOMAIN p
  <2>1. CASE y > Len(p)
    <3>1. y - Len(p) \in DOMAIN q /\ u[y] = q[y - Len(p)]
      BY <1>1, <2>1
    <3>2. QED
      BY <1>3, <3>1
  <2>2. QED
    BY <1>1, <2>1
<1> HIDE DEF u
<1>4. Nums(u) \subseteq Nums(p)
  BY <1>2, <1>3 DEF Nums
<1>5. Nums(p) \subseteq Nums(u)
  BY <1>2 DEF Nums
<1>6. QED
  BY <1>1, <1>4, <1>5 DEF u

\* The line that has just been cut
LEMMA LineCut ==
  ASSUME Inv, EndLine
  PROVE  \E cut \in CutLine :
           /\ lines' = Append(lines, cut) /\ cut.start = LineStart /\ cut.end = LineEnd
           /\ Nums(cut.pieces) = Nums(Flushed.pieces)
           /\ LineStart = LineEnd => ~cut.translates
<1> DEFINE end == [j \in DOMAIN closes |-> [kind |-> "close", n |-> Reverse(closes)[j].n]]
           all == Flushed.pieces \o end
           cut == [start |-> LineStart, end |-> LineEnd, pieces |-> all,
                   translates |-> \E p \in ToSet(all) : \/ p.kind = "open"
                                                        \/ p.kind = "words" /\ CharAt(p.n) = "letter"]
<1>1. /\ PlanTyped /\ CutOK /\ PlanningOK /\ i = LineEnd /\ LineStart \in Nat /\ LineEnd \in Nat
  BY AtLine DEF EndLine, Inv, PlanOK
<1>2. lines' = Append(lines, cut)
  BY DEF EndLine
<1>3. Flushed.pieces \in Seq(Piece) /\ (from = i => Flushed.pieces = pieces)
  BY <1>1, FlushNumbers
<1>4. closes \in Seq(Closing)
  BY <1>1 DEF PlanTyped
<1>5. end \in Seq(Piece) /\ \A y \in DOMAIN end : end[y].kind = "close"
  <2>1. ASSUME NEW j \in DOMAIN closes PROVE Reverse(closes)[j].n \in Nat
    <3>1. DOMAIN closes = 1..Len(closes) /\ Len(closes) \in Nat
      BY <1>4
    <3>2. Reverse(closes)[j] = closes[Len(closes) - j + 1] /\ Len(closes) - j + 1 \in DOMAIN closes
      BY <1>4, <3>1 DEF Reverse
    <3>3. closes[Len(closes) - j + 1] \in Closing
      BY <1>4, <3>2
    <3>4. QED
      BY <3>2, <3>3 DEF Closing
  <2>2. \A j \in 1..Len(closes) : end[j] \in Piece /\ end[j].kind = "close"
    BY <1>4, <2>1 DEF Piece
  <2>3. DOMAIN end = 1..Len(closes) /\ Len(closes) \in Nat
    BY <1>4
  <2>4. end \in [1..Len(closes) -> Piece]
    BY <2>2, <2>3
  <2>5. QED
    BY <2>2, <2>3, <2>4
<1> HIDE DEF end
<1>6. all \in Seq(Piece) /\ Nums(all) = Nums(Flushed.pieces)
  BY <1>3, <1>5, NumsClosing
<1>7. LineStart = LineEnd => ~cut.translates
  <2> SUFFICES ASSUME LineStart = LineEnd PROVE ~cut.translates
    OBVIOUS
  <2>1. pieces = <<>> /\ closes = <<>> /\ from = i
    BY <1>1 DEF PlanningOK, PlanTyped
  <2>2. Flushed.pieces = <<>> /\ DOMAIN end = {}
    BY <1>3, <2>1 DEF end
  <2>3. Len(end) = 0
    BY <1>5, <2>2
  <2>4. DOMAIN all = {}
    BY <1>5, <1>6, <2>2, <2>3
  <2>5. ToSet(all) = {}
    BY <2>4 DEF ToSet
  <2>6. QED
    BY <2>5
<1> HIDE DEF all
<1>8. cut \in CutLine /\ cut.start = LineStart /\ cut.end = LineEnd /\ cut.pieces = all
  BY <1>1, <1>6 DEF CutLine
<1> HIDE DEF cut
<1>9. QED
  BY <1>2, <1>6, <1>7, <1>8

LEMMA EndLineKeeps == ASSUME Inv, EndLine PROVE Inv'
<1> DEFINE l == Len(lines) + 1
<1>1. /\ phase = "planning" /\ PlanTyped /\ WriteTyped /\ PlanOK /\ CutOK /\ PlanningOK /\ i = LineEnd
      /\ LineStart \in Nat /\ LineEnd \in Nat /\ i \in Nat /\ End \in Nat /\ LineStart <= LineEnd /\ LineEnd <= End
      /\ \A a \in DOMAIN lines : lines[a].end < LineStart /\ lines[a] \in CutLine
  BY AtLine DEF EndLine, Inv, PlanOK, PlanTyped
<1>2. /\ page' = page /\ kept' = Flushed.kept /\ closes' = <<>> /\ pieces' = <<>>
      /\ i' = LineEnd + 1 /\ from' = LineEnd + 1 /\ outer' = outer /\ links' = links
      /\ UNCHANGED <<line, rest, opened, put, text, edges, moved, records>>
      /\ IF LineEnd = End THEN phase' = "answering" /\ landed' = [n \in DOMAIN kept' |-> Nowhere]
         ELSE phase' = phase
  BY DEF EndLine
<1>3. /\ Flushed.pieces \in Seq(Piece) /\ Flushed.kept \in Seq(Span)
      /\ Numbered(Flushed.kept, Flushed.pieces, i) /\ Nums(pieces) \subseteq Nums(Flushed.pieces)
  BY <1>1, FlushNumbers
<1>4. PICK cut \in CutLine :
        /\ lines' = Append(lines, cut) /\ cut.start = LineStart /\ cut.end = LineEnd
        /\ Nums(cut.pieces) = Nums(Flushed.pieces)
        /\ LineStart = LineEnd => ~cut.translates
  BY LineCut
<1>5. /\ lines' \in Seq(CutLine) /\ DOMAIN lines' = 1..l /\ DOMAIN lines = 1..Len(lines) /\ Len(lines) \in Nat
      /\ Len(lines') = l /\ lines'[l] = cut /\ \A a \in DOMAIN lines : lines'[a] = lines[a] /\ a \in DOMAIN lines'
  BY <1>1, <1>4 DEF PlanTyped
<1> HIDE DEF l
<1>6. /\ \A a \in DOMAIN lines' : a = l \/ a \in DOMAIN lines
      /\ l \in DOMAIN lines' /\ l \notin DOMAIN lines /\ \A a \in DOMAIN lines' : ~(l < a)
  BY <1>5 DEF l
<1>7. LineStart' = LineEnd + 1
  <2>1. lines' # <<>>
    BY <1>1, <1>4 DEF PlanTyped
  <2>2. QED
    BY <1>4, <1>5, <2>1 DEF LineStart
<1>8. End' = End
  BY <1>2 DEF End
<1>9. CutOK'
  <2>1. ASSUME NEW a \in DOMAIN lines'
        PROVE  /\ lines'[a].start <= lines'[a].end /\ lines'[a].end <= End
               /\ lines'[a].start = lines'[a].end => ~lines'[a].translates
    <3>1. CASE a = l
      BY <1>1, <1>4, <1>5, <3>1
    <3>2. CASE a \in DOMAIN lines
      BY <1>1, <1>5, <3>2 DEF CutOK
    <3>3. QED
      BY <1>6, <3>1, <3>2
  <2>2. ASSUME NEW a \in DOMAIN lines', NEW b \in DOMAIN lines', a < b
        PROVE  lines'[a].end < lines'[b].start /\ Nums(lines'[a].pieces) \cap Nums(lines'[b].pieces) = {}
    <3>1. a \in DOMAIN lines /\ lines'[a] = lines[a]
      BY <1>5, <1>6, <2>2
    <3>2. CASE b = l
      <4>1. lines[a].end < LineStart
        BY <1>1, <3>1
      <4>2. Nums(Flushed.pieces) \cap Nums(lines[a].pieces) = {}
        BY <1>3, <3>1 DEF Numbered
      <4>3. QED
        BY <1>4, <1>5, <3>1, <3>2, <4>1, <4>2
    <3>3. CASE b \in DOMAIN lines
      BY <1>1, <1>5, <2>2, <3>1, <3>3 DEF CutOK
    <3>4. QED
      BY <1>6, <3>2, <3>3
  <2>3. QED
    BY <1>8, <2>1, <2>2 DEF CutOK
<1>10. InOrder(kept') /\ CutKept(kept)'
  <2>1. InOrder(kept')
    BY <1>2, <1>3 DEF Numbered
  <2>2. ASSUME NEW a \in DOMAIN lines' PROVE Inside(kept', Nums(lines'[a].pieces), lines'[a].start, lines'[a].end)
    <3>1. CASE a = l
      <4>1. Inside(Flushed.kept, Nums(Flushed.pieces), LineStart, LineEnd)
        BY <1>1, <1>3 DEF Numbered
      <4>2. QED
        BY <1>2, <1>4, <1>5, <3>1, <4>1
    <3>2. CASE a \in DOMAIN lines
      BY <1>2, <1>3, <1>5, <3>2 DEF Numbered, CutKept
    <3>3. QED
      BY <1>6, <3>1, <3>2
  <2>3. QED
    BY <2>1, <2>2 DEF CutKept
<1>11. LinksOK'
  <2>1. LinksOn(links, Flushed.pieces)
    BY <1>1, <1>3, LinksStayOn
  <2>2. ASSUME NEW j \in DOMAIN links
        PROVE  /\ links[j].from < links[j].to
               /\ \E a \in DOMAIN lines' : LinkOn(links[j], lines'[a].pieces, lines'[a].start, lines'[a].end)
    <3>1. CASE \E a \in DOMAIN lines : LinkOn(links[j], lines[a].pieces, lines[a].start, lines[a].end)
      BY <1>5, <2>1, <3>1 DEF LinksOn
    <3>2. CASE LinkOn(links[j], Flushed.pieces, LineStart, LineEnd)
      <4>1. LinkOn(links[j], cut.pieces, cut.start, cut.end)
        BY <1>4, <3>2 DEF LinkOn
      <4>2. PICK a \in DOMAIN lines' : lines'[a] = cut
        BY <1>5, <1>6
      <4>3. links[j].from < links[j].to
        BY <2>1 DEF LinksOn
      <4>4. QED
        BY <4>1, <4>2, <4>3
    <3>3. QED
      BY <2>1, <3>1, <3>2 DEF LinksOn
  <2>3. QED
    BY <1>2, <2>2 DEF LinksOK
<1>12. PlanTyped' /\ WriteTyped'
  <2>1. PlanTyped'
    <3>1. closes' \in Seq(Closing) /\ pieces' \in Seq(Piece)
      BY <1>2
    <3>2. QED
      BY <1>1, <1>2, <1>3, <1>5, <3>1 DEF PlanTyped
  <2>2. QED
    BY <1>1, <1>2, <2>1 DEF WriteTyped
<1>13. phase' = "planning" => PlanningOK'
  <2> SUFFICES ASSUME phase' = "planning" PROVE PlanningOK'
    OBVIOUS
  <2>1. LineEnd # End
    BY <1>2
  <2>2. LineEnd + 1 \in Nat /\ LineEnd + 1 <= End
    BY <1>1, <2>1
  <2>3. LineEnd' = EndOf(LineEnd + 1)
    BY <1>2, <1>7, <1>8 DEF LineEnd, EndOf, CharAt
  <2>4. LineEnd + 1 <= LineEnd'
    BY <1>1, <2>2, <2>3, EndOfIs DEF PlanTyped
  <2>5. ASSUME NEW n \in DOMAIN kept' PROVE kept'[n].to <= LineEnd + 1
    <3>1. kept'[n].to <= i /\ kept'[n] \in Span
      BY <1>2, <1>3 DEF Numbered
    <3>2. kept'[n].to \in Nat
      BY <3>1 DEF Span
    <3>3. QED
      BY <1>1, <3>1, <3>2
  <2>6. Nums(pieces') = {}
    BY <1>2 DEF Nums
  <2>7. Numbered(kept, pieces, from)'
    BY <1>2, <1>10, <2>5, <2>6 DEF Numbered, Inside
  <2>8. QED
    BY <1>1, <1>2, <1>7, <1>8, <2>2, <2>4, <2>7 DEF PlanningOK
<1>14. phase' # "planning" => WriteOK' /\ RangesApart'
  <2> SUFFICES ASSUME phase' # "planning" PROVE WriteOK' /\ RangesApart'
    OBVIOUS
  <2>1. phase' = "answering" /\ landed' = [n \in DOMAIN kept' |-> Nowhere]
    BY <1>1, <1>2
  <2>2. line' = 1 /\ edges' = <<>> /\ moved' = {}
    BY <1>1, <1>2 DEF PlanningOK
  <2>3. Begun' = {}
    BY <1>5, <2>1, <2>2 DEF Begun
  <2>4. EdgesOK'
    <3>1. 1 <= Len(lines') + 1 /\ Len(edges') = 2 * 1 - 2
      BY <1>5, <2>2
    <3>2. QED
      BY <2>1, <2>2, <2>3, <3>1 DEF EdgesOK
  <2>5. MovedOK' /\ RangesApart'
    BY <2>2 DEF MovedOK, RangesApart
  <2>6. OpenedOK'
    BY <2>1 DEF OpenedOK
  <2>7. LandedOK'
    BY <2>1 DEF LandedOK, Place, Nowhere
  <2>8. QED
    BY <2>4, <2>5, <2>6, <2>7 DEF WriteOK
<1>15. RecordsOK'
  BY <1>1, <1>2 DEF RecordsOK, BlocksStay, LinksStayOnTheirLine
<1>16. QED
  BY <1>9, <1>10, <1>11, <1>12, <1>13, <1>14, <1>15 DEF Inv, PlanOK

LEMMA InitInv == ASSUME Init PROVE Inv
<1>1. /\ page \in Pages /\ phase = "planning" /\ i = 0 /\ from = 0 /\ outer = Outermost(page.keep)
      /\ closes = <<>> /\ pieces = <<>> /\ lines = <<>> /\ kept = <<>> /\ links = <<>>
      /\ line = 1 /\ rest = <<>> /\ put = {} /\ text = <<>> /\ edges = <<>> /\ moved = {}
  BY DEF Init
<1>2. LineStart = 0 /\ End \in Nat
  BY <1>1, PageIs DEF LineStart
<1>3. LineEnd \in Nat
  BY <1>1, <1>2, LineEndIs
<1>4. PlanTyped /\ WriteTyped
  <2>1. outer \in Seq(Part)
    BY <1>1, OutermostIs
  <2>2. PlanTyped
    BY <1>1, <2>1 DEF PlanTyped
  <2>3. QED
    BY <1>1, <2>2 DEF WriteTyped
<1>5. Nums(pieces) = {}
  BY <1>1 DEF Nums
<1>6. CutOK /\ InOrder(kept) /\ CutKept(kept) /\ LinksOK
  BY <1>1 DEF CutOK, InOrder, CutKept, LinksOK
<1>7. Numbered(kept, pieces, from)
  BY <1>1, <1>5, <1>6 DEF Numbered, Inside
<1>8. PlanningOK
  <2>1. \A j \in DOMAIN outer : outer[j].from <= outer[j].to
    BY <1>1, OutermostIs
  <2>2. QED
    BY <1>1, <1>2, <1>3, <1>7, <2>1 DEF PlanningOK
<1>9. QED
  BY <1>1, <1>4, <1>6, <1>8 DEF Inv, PlanOK, RecordsOK, BlocksStay, LinksStayOnTheirLine

(***************************************************************************)
(* Writing the answer                                                      *)
(***************************************************************************)
LEMMA LinesAre ==
  ASSUME PlanTyped
  PROVE  /\ \A a \in DOMAIN lines : a \in Nat /\ 0 < a /\ a <= Len(lines) /\ lines[a].start \in Nat /\ lines[a].end \in Nat
         /\ \A n \in DOMAIN kept : n \in Nat /\ kept[n].from \in Nat /\ kept[n].to \in Nat
         /\ Len(lines) \in Nat /\ \A a \in 1..Len(lines) : a \in DOMAIN lines
<1>1. lines \in Seq(CutLine) /\ kept \in Seq(Span)
  BY DEF PlanTyped
<1>2. \A a \in DOMAIN lines : lines[a] \in CutLine
  BY <1>1
<1>3. \A n \in DOMAIN kept : kept[n] \in Span /\ n \in Nat
  BY <1>1
<1>4. \A a \in DOMAIN lines : lines[a].start \in Nat /\ lines[a].end \in Nat
  BY <1>2 DEF CutLine
<1>5. \A n \in DOMAIN kept : kept[n].from \in Nat /\ kept[n].to \in Nat
  BY <1>3 DEF Span
<1>6. QED
  BY <1>1, <1>3, <1>4, <1>5

\* What the lines begun have
LEMMA BegunIs ==
  ASSUME Inv, phase # "planning"
  PROVE  /\ line \in Nat /\ 0 < line /\ Len(text) \in Nat /\ Len(edges) \in Nat
         /\ \A a \in Begun :
              /\ a \in DOMAIN lines /\ a \in Nat /\ 0 < a /\ a <= line
              /\ a < line \/ (a = line /\ phase = "writing")
              /\ 2 * a - 1 \in DOMAIN edges /\ edges[2 * a - 1].now \in Nat
              /\ a < line => 2 * a \in DOMAIN edges /\ edges[2 * a].now \in Nat
              /\ Sofar(a) \in Nat /\ edges[2 * a - 1].now <= Sofar(a) /\ Sofar(a) <= Len(text)
<1>1. /\ line \in Nat \ {0} /\ text \in Seq(Nat) /\ edges \in Seq(Edge) /\ PlanTyped /\ EdgesOK
  BY DEF Inv, WriteTyped, WriteOK
<1>2. Len(edges) \in Nat /\ DOMAIN edges = 1..Len(edges) /\ Len(text) \in Nat
  BY <1>1
<1>3. \A e \in DOMAIN edges : edges[e].now \in Nat
  <2>1. \A e \in DOMAIN edges : edges[e] \in Edge
    BY <1>1
  <2>2. QED
    BY <2>1 DEF Edge
<1>4. ASSUME NEW a \in Begun
      PROVE  /\ a \in DOMAIN lines /\ a \in Nat /\ 0 < a /\ a <= line
             /\ a < line \/ (a = line /\ phase = "writing")
             /\ 2 * a - 1 \in DOMAIN edges /\ edges[2 * a - 1].now \in Nat
             /\ a < line => 2 * a \in DOMAIN edges /\ edges[2 * a].now \in Nat
             /\ Sofar(a) \in Nat /\ edges[2 * a - 1].now <= Sofar(a) /\ Sofar(a) <= Len(text)
  <2>1. a \in DOMAIN lines /\ (a < line \/ (a = line /\ phase = "writing"))
    BY DEF Begun
  <2>2. a \in Nat /\ 0 < a
    BY <1>1, <2>1, LinesAre
  <2>3. Len(edges) = IF phase = "writing" THEN 2 * line - 1 ELSE 2 * line - 2
    BY <1>1 DEF EdgesOK
  <2>4. 2 * a - 1 \in DOMAIN edges /\ (a < line => 2 * a \in DOMAIN edges)
    BY <1>1, <1>2, <2>1, <2>2, <2>3
  <2>5. Sofar(a) \in Nat
    BY <1>2, <1>3, <2>4 DEF Sofar
  <2>6. edges[2 * a - 1].now <= Sofar(a) /\ Sofar(a) <= Len(text)
    BY <1>1 DEF EdgesOK
  <2>7. QED
    BY <1>1, <1>3, <2>1, <2>2, <2>4, <2>5, <2>6
<1>5. QED
  BY <1>1, <1>2, <1>4

\* The plan is made once
LEMMA PlanStays ==
  ASSUME Inv, phase # "planning", phase' \in {"answering", "writing", "done"}, UNCHANGED <<page, planVars>>
  PROVE  /\ PlanTyped' /\ PlanOK' /\ lines' = lines /\ kept' = kept /\ links' = links /\ page' = page
<1>1. PlanTyped /\ PlanOK
  BY DEF Inv
<1>2. /\ page' = page /\ i' = i /\ from' = from /\ outer' = outer /\ closes' = closes /\ pieces' = pieces
      /\ lines' = lines /\ kept' = kept /\ links' = links
  BY DEF planVars
<1>3. PlanTyped'
  BY <1>1, <1>2 DEF PlanTyped
<1>4. End' = End
  BY <1>2 DEF End
<1>5. CutOK' /\ InOrder(kept') /\ CutKept(kept)'
  BY <1>1, <1>2, <1>4 DEF PlanOK, CutOK, CutKept
<1>6. LinksOK'
  BY <1>1, <1>2 DEF PlanOK, LinksOK
<1>7. QED
  BY <1>2, <1>3, <1>5, <1>6 DEF PlanOK

\* What was written of the lines begun is not written again
Grows ==
  /\ \A a \in Begun :
       /\ a \in Begun' /\ edges'[2 * a - 1] = edges[2 * a - 1] /\ Sofar(a) <= Sofar(a)'
       /\ a < line => a < line' /\ edges'[2 * a] = edges[2 * a]
       /\ a = line => a < line' \/ put \subseteq put'
       /\ Sofar(a)' \in Nat

LEMMA CopiedStays ==
  ASSUME Inv, phase # "planning", UNCHANGED <<page, planVars>>, Grows,
         NEW m \in moved, NEW a \in Begun, CopiedOn(m, a)
  PROVE  CopiedOn(m, a)'
<1>1. lines' = lines /\ kept' = kept
  BY DEF planVars
<1>2. m.from \in Nat /\ m.to \in Nat /\ m.at \in Nat
  BY DEF Inv, WriteTyped, Copied
<1>3. /\ a \in Nat /\ line \in Nat /\ Sofar(a) \in Nat /\ edges[2 * a - 1].now \in Nat /\ (a < line \/ a = line)
      /\ (a < line => edges[2 * a].now \in Nat)
  BY BegunIs
<1>4. /\ edges'[2 * a - 1] = edges[2 * a - 1] /\ Sofar(a) <= Sofar(a)' /\ Sofar(a)' \in Nat
      /\ a < line => a < line' /\ edges'[2 * a] = edges[2 * a]
      /\ a = line => a < line' \/ put \subseteq put'
  BY DEF Grows
<1>5. m.at + m.to - m.from <= Sofar(a)'
  <2>1. m.at + m.to - m.from <= Sofar(a)
    BY DEF CopiedOn
  <2>2. QED
    BY <1>2, <1>3, <1>4, <2>1
<1>6. /\ lines'[a].start <= m.from /\ m.to <= lines'[a].end /\ edges'[2 * a - 1].now <= m.at
  BY <1>1, <1>4 DEF CopiedOn
<1>7. CASE a < line /\ m.from = lines[a].start /\ m.to = lines[a].end
           /\ m.at = edges[2 * a - 1].now /\ m.at + m.to - m.from = edges[2 * a].now
  BY <1>1, <1>4, <1>5, <1>6, <1>7 DEF CopiedOn
<1>8. CASE \E n \in Nums(lines[a].pieces) :
             /\ kept[n] # NoRange /\ kept[n].from = m.from /\ kept[n].to = m.to
             /\ a = line => n \in put
  <2>1. PICK n \in Nums(lines[a].pieces) :
             /\ kept[n] # NoRange /\ kept[n].from = m.from /\ kept[n].to = m.to
             /\ a = line => n \in put
    BY <1>8
  <2>2. a = line' => n \in put'
    <3>1. CASE a < line
      <4>1. a # line'
        BY <1>3, <1>4, <3>1, BegunIs
      <4>2. QED
        BY <4>1
    <3>2. CASE a = line
      <4>1. a < line' => a # line'
        BY <1>3
      <4>2. QED
        BY <1>4, <2>1, <3>2, <4>1
    <3>3. QED
      BY <1>3, <3>1, <3>2
  <2>3. QED
    BY <1>1, <1>5, <1>6, <2>1, <2>2 DEF CopiedOn
<1>9. QED
  BY <1>7, <1>8 DEF CopiedOn

LEMMA LandedStays ==
  ASSUME Inv, phase # "planning", UNCHANGED <<page, planVars>>, Grows,
         NEW n \in DOMAIN kept, landed[n] # Nowhere
  PROVE  \E a \in Begun' : /\ n \in Nums(lines'[a].pieces)
                           /\ edges'[2 * a - 1].now < landed[n].s /\ landed[n].e <= Sofar(a)' + 1
<1>1. lines' = lines
  BY DEF planVars
<1>2. PICK a \in Begun : /\ n \in Nums(lines[a].pieces)
                         /\ edges[2 * a - 1].now < landed[n].s /\ landed[n].e <= Sofar(a) + 1
  BY DEF Inv, WriteOK, LandedOK
<1>3. landed[n].e \in Nat /\ Sofar(a) \in Nat /\ Sofar(a)' \in Nat /\ Sofar(a) <= Sofar(a)'
  BY BegunIs DEF Inv, WriteOK, LandedOK, Place, Grows
<1>4. landed[n].e <= Sofar(a)' + 1
  BY <1>2, <1>3
<1>5. a \in Begun' /\ edges'[2 * a - 1] = edges[2 * a - 1]
  BY DEF Grows
<1>6. QED
  BY <1>1, <1>2, <1>4, <1>5

\* A line being written
Goes ==
  /\ phase = "writing" /\ phase' = phase
  /\ UNCHANGED <<page, planVars, line, edges, records>>
  /\ text' \in Seq(Nat) /\ Len(text) <= Len(text')
  /\ rest' \in Seq(Piece)
  /\ put \subseteq put' /\ put' \subseteq Nat

LEMMA GoesGrows == ASSUME Inv, Goes PROVE Grows
<1>1. /\ phase = "writing" /\ phase' = phase /\ lines' = lines /\ line' = line /\ edges' = edges /\ put \subseteq put'
      /\ text' \in Seq(Nat) /\ Len(text) <= Len(text') /\ Len(text') \in Nat
  BY DEF Goes, planVars
<1>2. Begun' = Begun
  BY <1>1 DEF Begun
<1>3. \A a \in Begun : Sofar(a) <= Sofar(a)' /\ Sofar(a)' \in Nat
  <2>1. ASSUME NEW a \in Begun PROVE Sofar(a) <= Sofar(a)' /\ Sofar(a)' \in Nat
    <3>1. CASE a < line
      <4>1. Sofar(a)' = edges[2 * a].now /\ Sofar(a) = edges[2 * a].now
        BY <1>1, <3>1 DEF Sofar
      <4>2. Sofar(a) \in Nat
        BY <1>1, BegunIs
      <4>3. QED
        BY <4>1, <4>2
    <3>2. CASE ~(a < line)
      BY <1>1, <3>2 DEF Sofar
    <3>3. QED
      BY <3>1, <3>2
  <2>2. QED
    BY <2>1
<1>4. QED
  BY <1>1, <1>2, <1>3 DEF Grows

LEMMA GoesOn ==
  ASSUME Inv, Goes,
         \A m \in moved' : m \in moved \/ (m \in Copied /\ m.from <= m.to /\ CopiedOn(m, line)'),
         RangesApart', OpenedOK', LandedOK'
  PROVE  Inv'
<1>1. /\ phase = "writing" /\ phase' = phase /\ lines' = lines /\ line' = line /\ edges' = edges
      /\ text' \in Seq(Nat) /\ Len(text) <= Len(text') /\ Len(text') \in Nat
      /\ UNCHANGED <<page, planVars>> /\ records' = records
  BY DEF Goes, planVars
<1>2. Grows
  BY GoesGrows
<1>3. PlanTyped' /\ PlanOK'
  BY <1>1, PlanStays
<1>4. moved' \subseteq Copied
  BY DEF Inv, WriteTyped
<1>5. WriteTyped'
  BY <1>1, <1>4 DEF Inv, WriteTyped, Goes
<1>6. Begun' = Begun
  BY <1>1 DEF Begun
<1>7. EdgesOK /\ WriteOK
  BY <1>1 DEF Inv, WriteOK
<1>8. EdgesOK'
  <2>1. ASSUME NEW a \in Begun
        PROVE  /\ edges[2 * a - 1].old = lines[a].start /\ edges[2 * a - 1].now <= Sofar(a)'
               /\ a < line => edges[2 * a].old = lines[a].end
               /\ lines[a].start = lines[a].end => a < line /\ edges[2 * a].now = edges[2 * a - 1].now
               /\ Sofar(a)' <= Len(text')
    <3>1. /\ edges[2 * a - 1].old = lines[a].start
          /\ a < line => edges[2 * a].old = lines[a].end
          /\ lines[a].start = lines[a].end => a < line /\ edges[2 * a].now = edges[2 * a - 1].now
      BY <1>7 DEF EdgesOK
    <3>2. /\ Sofar(a) <= Sofar(a)' /\ Sofar(a)' \in Nat /\ Sofar(a) \in Nat /\ Sofar(a) <= Len(text) /\ Len(text) \in Nat
          /\ edges[2 * a - 1].now <= Sofar(a) /\ edges[2 * a - 1].now \in Nat
      BY <1>1, <1>2, BegunIs DEF Grows
    <3>3. Sofar(a)' <= Len(text')
      <4>1. CASE a < line
        <5>1. Sofar(a)' = Sofar(a)
          BY <1>1, <4>1 DEF Sofar
        <5>2. QED
          BY <1>1, <3>2, <5>1
      <4>2. CASE ~(a < line)
        BY <1>1, <4>2 DEF Sofar
      <4>3. QED
        BY <4>1, <4>2
    <3>4. QED
      BY <3>1, <3>2, <3>3
  <2>2. QED
    BY <1>1, <1>6, <1>7, <2>1 DEF EdgesOK, Cut
<1>9. line \in Begun
  <2>1. line \in Nat /\ 0 < line /\ line <= Len(lines)
    BY <1>1, <1>7 DEF EdgesOK, Inv, WriteTyped
  <2>2. line \in DOMAIN lines
    BY <2>1, LinesAre DEF Inv
  <2>3. QED
    BY <1>1, <2>2 DEF Begun
<1>10. MovedOK'
  <2>1. ASSUME NEW m \in moved' PROVE m.from <= m.to /\ \E a \in Begun' : CopiedOn(m, a)'
    <3>1. CASE m \in moved
      <4>1. PICK a \in Begun : CopiedOn(m, a)
        BY <1>7, <3>1 DEF WriteOK, MovedOK
      <4>2. CopiedOn(m, a)'
        BY <1>1, <1>2, <3>1, <4>1, CopiedStays
      <4>3. m.from <= m.to
        BY <1>7, <3>1 DEF WriteOK, MovedOK
      <4>4. a \in Begun'
        BY <1>6
      <4>5. QED
        BY <4>2, <4>3, <4>4 DEF CopiedOn
    <3>2. CASE m \in Copied /\ m.from <= m.to /\ CopiedOn(m, line)'
      BY <1>1, <1>6, <1>9, <3>2 DEF CopiedOn
    <3>3. QED
      BY <3>1, <3>2
  <2>2. QED
    BY <2>1 DEF MovedOK
<1>11. WriteOK'
  BY <1>8, <1>10 DEF WriteOK
<1>12. RecordsOK'
  BY <1>1 DEF RecordsOK, BlocksStay, LinksStayOnTheirLine
<1>13. QED
  BY <1>3, <1>5, <1>11, <1>12 DEF Inv

LEMMA OpenedSame == ASSUME Inv, Goes, opened' = opened PROVE OpenedOK'
<1>1. kept' = kept /\ phase' = phase /\ phase = "writing" /\ line' = line /\ edges' = edges /\ OpenedOK
  BY DEF Goes, planVars, Inv, WriteOK
<1>2. QED
  BY <1>1 DEF OpenedOK

LEMMA LandedSame == ASSUME Inv, phase # "planning", UNCHANGED <<page, planVars>>, Grows, landed' = landed PROVE LandedOK'
<1>1. kept' = kept /\ landed \in [DOMAIN kept -> Place]
  BY DEF planVars, Inv, WriteOK, LandedOK
<1>2. QED
  BY <1>1, LandedStays DEF LandedOK

LEMMA AnswersAre == ASSUME Inv, NEW a \in Answers, line \in DOMAIN lines PROVE a \in Seq(Piece)
<1>1. page.most \in Nat /\ kept \in Seq(Span) /\ lines \in Seq(CutLine)
  BY PagesArePages DEF Inv, PlanTyped
<1>2. Cut.pieces \in Seq(Piece)
  <2>1. lines[line] \in CutLine
    BY <1>1
  <2>2. QED
    BY <2>1 DEF CutLine, Cut
<1>3. Marks \cup {Word} \subseteq Piece
  <2>1. End \in Nat /\ DOMAIN kept \subseteq Nat
    BY <1>1, PageIs DEF Inv, PlanTyped
  <2>2. QED
    BY <2>1 DEF Marks, Word, Piece
<1>4. ASSUME NEW n \in 0..page.most, NEW f \in [1..n -> Marks \cup {Word}] PROVE f \in Seq(Piece)
  <2>1. n \in Nat /\ f \in [1..n -> Piece]
    BY <1>1, <1>3
  <2>2. QED
    BY <2>1, SeqDef
<1>5. QED
  BY <1>2, <1>4 DEF Answers

\* The marker at the head of the answer
LEMMA RestIs == ASSUME Inv, rest # <<>> PROVE Tail(rest) \in Seq(Piece) /\ rest[1].n \in Nat
<1>1. rest \in Seq(Piece)
  BY DEF Inv, WriteTyped
<1>2. rest[1] \in Piece
  BY <1>1
<1>3. QED
  BY <1>1, <1>2 DEF Piece

LEMMA MineIs ==
  ASSUME Inv, phase = "writing"
  PROVE  /\ line \in Begun /\ line \in DOMAIN lines /\ Mine = Nums(lines[line].pieces) /\ Mine \subseteq DOMAIN kept
         /\ Sofar(line) = Len(text)
         /\ \A n \in Mine : kept[n] # NoRange =>
              lines[line].start <= kept[n].from /\ kept[n].from <= kept[n].to /\ kept[n].to <= lines[line].end
<1>1. line \in Nat /\ 0 < line /\ line <= Len(lines) /\ PlanOK
  BY DEF Inv, WriteTyped, WriteOK, EdgesOK
<1>2. line \in DOMAIN lines
  BY <1>1, LinesAre DEF Inv
<1>3. Mine = Nums(lines[line].pieces)
  BY DEF Mine, Nums, Cut
<1>4. Inside(kept, Mine, lines[line].start, lines[line].end)
  BY <1>1, <1>2, <1>3 DEF PlanOK, CutKept
<1>5. Sofar(line) = Len(text)
  BY <1>1 DEF Sofar
<1>6. QED
  BY <1>1, <1>2, <1>3, <1>4, <1>5 DEF Begun, Inside, PlanOK, InOrder

LEMMA CopyIs ==
  ASSUME NEW a \in Nat, NEW b \in Nat, a <= b
  PROVE  Copy(a, b) \in Seq(Nat) /\ Len(Copy(a, b)) = b - a
<1>1. b - a \in Nat /\ \A j \in 1..(b - a) : a + j - 1 \in Nat
  OBVIOUS
<1>2. QED
  BY <1>1 DEF Copy

\* A range is copied to the end of the text, from beside those copied before
LEMMA AddApart ==
  ASSUME RangesApart, NEW x, moved' = moved \cup {x},
         \A o \in moved : (o.to <= x.from \/ x.to <= o.from) /\ o.at + o.to - o.from <= x.at
  PROVE  RangesApart'
BY DEF RangesApart

LEMMA PutKeeps ==
  ASSUME Inv, phase = "writing", phase' = phase, UNCHANGED <<page, planVars, line, edges, records, opened, landed>>,
         NEW n \in Mine, n \notin put, kept[n] # NoRange,
         put' = put \cup {n},
         moved' = moved \cup {[from |-> kept[n].from, to |-> kept[n].to, at |-> Len(text)]},
         text' = text \o Copy(kept[n].from, kept[n].to),
         rest' \in Seq(Piece)
  PROVE  Inv'
<1>1. /\ line \in Begun /\ line \in DOMAIN lines /\ Mine = Nums(lines[line].pieces) /\ n \in DOMAIN kept
      /\ lines[line].start <= kept[n].from /\ kept[n].from <= kept[n].to /\ kept[n].to <= lines[line].end
      /\ Sofar(line) = Len(text)
  BY MineIs
<1>2. /\ n \in Nat /\ kept[n].from \in Nat /\ kept[n].to \in Nat
      /\ \A a \in DOMAIN lines : lines[a].start \in Nat /\ lines[a].end \in Nat /\ a \in Nat
      /\ put \subseteq Nat /\ text \in Seq(Nat) /\ Len(text) \in Nat
      /\ \A o \in moved : o.from \in Nat /\ o.to \in Nat /\ o.at \in Nat
      /\ line \in Nat
  BY <1>1, LinesAre DEF Inv, WriteTyped, Copied
<1>3. PICK x \in Copied : x.from = kept[n].from /\ x.to = kept[n].to /\ x.at = Len(text) /\ moved' = moved \cup {x}
  <2> DEFINE y == [from |-> kept[n].from, to |-> kept[n].to, at |-> Len(text)]
  <2>1. y \in Copied /\ y.from = kept[n].from /\ y.to = kept[n].to /\ y.at = Len(text) /\ moved' = moved \cup {y}
    BY <1>2 DEF Copied
  <2> HIDE DEF y
  <2>2. QED
    BY <2>1
<1>4. /\ text' \in Seq(Nat) /\ Len(text') = Len(text) + (x.to - x.from) /\ Len(text) <= Len(text') /\ Len(text') \in Nat
  <2>1. Copy(kept[n].from, kept[n].to) \in Seq(Nat) /\ Len(Copy(kept[n].from, kept[n].to)) = x.to - x.from
    BY <1>1, <1>2, <1>3, CopyIs
  <2> DEFINE c == Copy(kept[n].from, kept[n].to)
  <2>2. text' = text \o c /\ c \in Seq(Nat) /\ Len(c) = x.to - x.from
    BY <2>1
  <2> HIDE DEF c
  <2>3. text' \in Seq(Nat) /\ Len(text') = Len(text) + Len(c) /\ Len(c) \in Nat
    BY <1>2, <2>2
  <2>4. QED
    BY <1>2, <2>2, <2>3
<1>5. put' \subseteq Nat /\ put \subseteq put' /\ n \in put'
  BY <1>2
<1>6. Goes
  BY <1>4, <1>5 DEF Goes
<1>7. lines' = lines /\ kept' = kept /\ line' = line /\ edges' = edges
  BY DEF planVars
<1>8. Sofar(line)' = Len(text')
  BY <1>2, <1>7 DEF Sofar
<1>9. edges[2 * line - 1].now <= Len(text)
  BY <1>1, BegunIs
<1>10. CopiedOn(x, line)'
  <2>1. lines'[line'].start <= x.from /\ x.to <= lines'[line'].end /\ edges'[2 * line' - 1].now <= x.at
    BY <1>1, <1>3, <1>7, <1>9
  <2>2. x.at + x.to - x.from <= Sofar(line)'
    BY <1>2, <1>3, <1>4, <1>8
  <2>3. n \in Nums(lines'[line'].pieces) /\ kept'[n] # NoRange /\ kept'[n].from = x.from /\ kept'[n].to = x.to /\ n \in put'
    BY <1>1, <1>3, <1>5, <1>7
  <2>4. QED
    BY <2>1, <2>2, <2>3 DEF CopiedOn
<1>11. x.from <= x.to
  BY <1>1, <1>3
<1>12. ASSUME NEW o \in moved
       PROVE  (o.to <= x.from \/ x.to <= o.from) /\ o.at + o.to - o.from <= x.at
  <2>1. PICK a \in Begun : CopiedOn(o, a)
    BY DEF Inv, WriteOK, MovedOK
  <2>2. /\ a \in DOMAIN lines /\ a <= line /\ a \in Nat /\ Sofar(a) \in Nat /\ Sofar(a) <= Len(text)
    BY BegunIs
  <2>3. o.at + o.to - o.from <= x.at
    <3>1. o.at + o.to - o.from <= Sofar(a)
      BY <2>1 DEF CopiedOn
    <3>2. QED
      BY <1>2, <1>3, <2>2, <3>1
  <2>4. CASE a < line
    <3>1. lines[a].end < lines[line].start
      BY <1>1, <2>2, <2>4 DEF Inv, PlanOK, CutOK
    <3>2. o.to <= lines[a].end
      BY <2>1 DEF CopiedOn
    <3>3. o.to <= x.from
      BY <1>1, <1>2, <1>3, <2>2, <3>1, <3>2
    <3>4. QED
      BY <2>3, <3>3
  <2>5. CASE a = line
    <3>1. PICK m \in Mine : kept[m] # NoRange /\ kept[m].from = o.from /\ kept[m].to = o.to /\ m \in put
      BY <1>1, <1>2, <2>1, <2>5 DEF CopiedOn
    <3>2. m \in DOMAIN kept /\ m # n /\ m \in Nat
      BY <1>2, <3>1, MineIs
    <3>3. InOrder(kept)
      BY DEF Inv, PlanOK
    <3>4. CASE m < n
      BY <1>1, <1>3, <2>3, <3>1, <3>2, <3>3, <3>4 DEF InOrder
    <3>5. CASE n < m
      BY <1>1, <1>3, <2>3, <3>1, <3>2, <3>3, <3>5 DEF InOrder
    <3>6. QED
      BY <1>2, <3>2, <3>4, <3>5
  <2>6. QED
    BY <1>2, <2>2, <2>4, <2>5
<1>13. RangesApart'
  <2>1. RangesApart
    BY DEF Inv
  <2>2. QED
    BY <1>3, <1>12, <2>1, AddApart
<1>14. OpenedOK' /\ LandedOK'
  BY <1>6, GoesGrows, OpenedSame, LandedSame
<1>15. \A m \in moved' : m \in moved \/ (m \in Copied /\ m.from <= m.to /\ CopiedOn(m, line)')
  <2>1. ASSUME NEW m \in moved', m \notin moved PROVE m = x
    BY <1>3, <2>1
  <2>2. QED
    BY <1>3, <1>10, <1>11, <2>1 DEF CopiedOn
<1>16. QED
  BY <1>6, <1>13, <1>14, <1>15, GoesOn

\* Nothing is copied
LEMMA SameMoved ==
  ASSUME Inv, phase # "planning", moved' = moved
  PROVE  RangesApart' /\ \A m \in moved' : m \in moved \/ (m \in Copied /\ m.from <= m.to /\ CopiedOn(m, line)')
<1>1. RangesApart
  BY DEF Inv
<1>2. RangesApart'
  BY <1>1 DEF RangesApart
<1>3. \A m \in moved' : m \in moved
  OBVIOUS
<1>4. QED
  BY <1>2, <1>3

LEMMA TakeWordKeeps == ASSUME Inv, TakeWord PROVE Inv'
<1>1. /\ phase = "writing" /\ phase' = phase /\ rest # <<>> /\ text' = Append(text, NewWord) /\ rest' = Tail(rest)
      /\ UNCHANGED <<page, planVars, line, opened, put, edges, moved, landed, records>>
  BY DEF TakeWord, Writing
<1>2. text' \in Seq(Nat) /\ Len(text) <= Len(text')
  <2>1. NewWord \in Nat
    BY PageIs DEF NewWord, Inv, PlanTyped
  <2>2. text \in Seq(Nat)
    BY DEF Inv, WriteTyped
  <2>3. QED
    BY <1>1, <2>1, <2>2
<1>3. Goes
  BY <1>1, <1>2, RestIs DEF Goes, Inv, WriteTyped
<1>4. OpenedOK' /\ LandedOK'
  BY <1>1, <1>3, GoesGrows, OpenedSame, LandedSame
<1>5. /\ RangesApart'
      /\ \A m \in moved' : m \in moved \/ (m \in Copied /\ m.from <= m.to /\ CopiedOn(m, line)')
  BY <1>1, SameMoved
<1>6. QED
  BY <1>3, <1>4, <1>5, GoesOn

LEMMA TakeOpenKeeps == ASSUME Inv, TakeOpen PROVE Inv'
<1>1. /\ phase = "writing" /\ phase' = phase /\ rest # <<>> /\ rest' = Tail(rest)
      /\ UNCHANGED <<page, planVars, line, put, text, edges, moved, landed, records>>
      /\ opened' = IF Marker \in Mine /\ opened[Marker] = Nowhere
                   THEN [opened EXCEPT ![Marker] = [s |-> Len(text) + 1, e |-> 0]] ELSE opened
  BY DEF TakeOpen, Writing
<1>2. text \in Seq(Nat) /\ Len(text) \in Nat
  BY DEF Inv, WriteTyped
<1>3. Goes
  BY <1>1, <1>2, RestIs DEF Goes, Inv, WriteTyped
<1>4. LandedOK'
  BY <1>1, <1>3, GoesGrows, LandedSame
<1>5. OpenedOK'
  <2>1. OpenedOK
    BY <1>1 DEF Inv, WriteOK
  <2>2. kept' = kept /\ line' = line /\ edges' = edges
    BY <1>1 DEF planVars
  <2>3. [s |-> Len(text) + 1, e |-> 0] \in Place
    BY <1>2 DEF Place
  <2>4. edges[2 * line - 1].now < Len(text) + 1
    <3>1. edges[2 * line - 1].now <= Len(text) /\ edges[2 * line - 1].now \in Nat
      BY <1>1, MineIs, BegunIs
    <3>2. QED
      BY <1>2, <3>1
  <2>5. CASE opened' = opened
    BY <1>1, <1>3, <2>5, OpenedSame
  <2>6. CASE opened' # opened
    <3>1. opened' = [opened EXCEPT ![Marker] = [s |-> Len(text) + 1, e |-> 0]]
      BY <1>1, <2>6
    <3>2. opened \in [DOMAIN kept -> Place]
      BY <1>1, <2>1 DEF OpenedOK
    <3>3. opened' \in [DOMAIN kept -> Place]
      BY <2>3, <3>1, <3>2
    <3>4. ASSUME NEW n \in DOMAIN kept, opened'[n] # Nowhere PROVE edges[2 * line - 1].now < opened'[n].s
      <4>1. CASE n = Marker
        BY <2>4, <3>1, <3>2, <4>1
      <4>2. CASE n # Marker
        BY <1>1, <2>1, <3>1, <3>2, <3>4, <4>2 DEF OpenedOK
      <4>3. QED
        BY <4>1, <4>2
    <3>5. QED
      BY <2>2, <3>3, <3>4 DEF OpenedOK
  <2>7. QED
    BY <2>5, <2>6
<1>6. /\ RangesApart'
      /\ \A m \in moved' : m \in moved \/ (m \in Copied /\ m.from <= m.to /\ CopiedOn(m, line)')
  BY <1>1, SameMoved
<1>7. QED
  BY <1>3, <1>4, <1>5, <1>6, GoesOn

LEMMA TakeCloseKeeps == ASSUME Inv, TakeClose PROVE Inv'
<1>1. /\ phase = "writing" /\ phase' = phase /\ rest # <<>> /\ rest' = Tail(rest)
      /\ UNCHANGED <<page, planVars, line, opened, put, text, edges, moved, records>>
      /\ landed' = IF Marker \in Mine /\ opened[Marker] # Nowhere /\ landed[Marker] = Nowhere
                   THEN [landed EXCEPT ![Marker] = [s |-> opened[Marker].s, e |-> Len(text) + 1]]
                   ELSE landed
  BY DEF TakeClose, Writing
<1>2. text \in Seq(Nat) /\ Len(text) \in Nat
  BY DEF Inv, WriteTyped
<1>3. Goes
  BY <1>1, <1>2, RestIs DEF Goes, Inv, WriteTyped
<1>4. OpenedOK'
  BY <1>1, <1>3, OpenedSame
<1>5. LandedOK'
  <2>1. OpenedOK /\ LandedOK
    BY <1>1 DEF Inv, WriteOK
  <2>2. kept' = kept /\ line' = line /\ edges' = edges /\ lines' = lines
    BY <1>1 DEF planVars
  <2>3. CASE landed' = landed
    BY <1>1, <1>3, <2>3, GoesGrows, LandedSame
  <2>4. CASE landed' # landed
    <3>1. /\ landed' = [landed EXCEPT ![Marker] = [s |-> opened[Marker].s, e |-> Len(text) + 1]]
          /\ Marker \in Mine /\ opened[Marker] # Nowhere
      BY <1>1, <2>4
    <3>2. Marker \in DOMAIN kept /\ Mine = Nums(lines[line].pieces) /\ line \in Begun
      BY <1>1, <3>1, MineIs
    <3>3. opened[Marker].s \in Nat /\ edges[2 * line - 1].now < opened[Marker].s
      BY <1>1, <2>1, <3>1, <3>2 DEF OpenedOK, Place
    <3>4. [s |-> opened[Marker].s, e |-> Len(text) + 1] \in Place
      BY <1>2, <3>3 DEF Place
    <3>5. landed \in [DOMAIN kept -> Place]
      BY <2>1 DEF LandedOK
    <3>6. landed' \in [DOMAIN kept -> Place]
      BY <3>1, <3>4, <3>5
    <3>7. ASSUME NEW n \in DOMAIN kept, landed'[n] # Nowhere
          PROVE  \E a \in Begun' : /\ n \in Nums(lines'[a].pieces)
                                   /\ edges'[2 * a - 1].now < landed'[n].s /\ landed'[n].e <= Sofar(a)' + 1
      <4>1. CASE n = Marker
        <5>1. landed'[n].s = opened[Marker].s /\ landed'[n].e = Len(text) + 1
          BY <3>1, <3>2, <3>5, <4>1
        <5>2. line \in Begun'
          BY <1>1, <2>2, <3>2 DEF Begun
        <5>3. Sofar(line)' = Len(text)
          BY <1>1, <2>2, BegunIs DEF Sofar
        <5>4. n \in Nums(lines'[line].pieces) /\ edges'[2 * line - 1].now < landed'[n].s
          BY <2>2, <3>1, <3>2, <3>3, <4>1, <5>1
        <5>5. landed'[n].e <= Sofar(line)' + 1
          BY <1>2, <5>1, <5>3
        <5>6. QED
          BY <2>2, <5>2, <5>4, <5>5
      <4>2. CASE n # Marker
        <5>1. landed'[n] = landed[n]
          BY <3>1, <3>5, <4>2
        <5>2. QED
          BY <1>1, <1>3, <3>7, <5>1, GoesGrows, LandedStays
      <4>3. QED
        BY <4>1, <4>2
    <3>8. QED
      BY <2>2, <3>6, <3>7 DEF LandedOK
  <2>5. QED
    BY <2>3, <2>4
<1>6. /\ RangesApart'
      /\ \A m \in moved' : m \in moved \/ (m \in Copied /\ m.from <= m.to /\ CopiedOn(m, line)')
  BY <1>1, SameMoved
<1>7. QED
  BY <1>3, <1>4, <1>5, <1>6, GoesOn

LEMMA TakeKeptKeeps == ASSUME Inv, TakeKept PROVE Inv'
<1>1. /\ phase = "writing" /\ phase' = phase /\ rest # <<>> /\ rest' = Tail(rest)
      /\ UNCHANGED <<page, planVars, line, opened, edges, landed, records>>
  BY DEF TakeKept, Writing
<1>2. rest' \in Seq(Piece)
  BY <1>1, RestIs
<1>3. CASE MayPut(Marker)
  <2>1. Marker \in Mine /\ Marker \notin put /\ kept[Marker] # NoRange
    BY <1>3 DEF MayPut
  <2>2. /\ put' = put \cup {Marker}
        /\ moved' = moved \cup {[from |-> kept[Marker].from, to |-> kept[Marker].to, at |-> Len(text)]}
        /\ text' = text \o Copy(kept[Marker].from, kept[Marker].to)
    BY <1>3 DEF TakeKept
  <2>3. QED
    BY <1>1, <1>2, <2>1, <2>2, PutKeeps
<1>4. CASE ~MayPut(Marker)
  <2>1. put' = put /\ moved' = moved /\ text' = text
    BY <1>4 DEF TakeKept
  <2>2. Goes
    BY <1>1, <1>2, <2>1 DEF Goes, Inv, WriteTyped
  <2>3. OpenedOK' /\ LandedOK'
    BY <1>1, <2>2, GoesGrows, OpenedSame, LandedSame
  <2>4. /\ RangesApart'
        /\ \A m \in moved' : m \in moved \/ (m \in Copied /\ m.from <= m.to /\ CopiedOn(m, line)')
    BY <1>1, <2>1, SameMoved
  <2>5. QED
    BY <2>2, <2>3, <2>4, GoesOn
<1>5. QED
  BY <1>3, <1>4

LEMMA TakeLostKeeps == ASSUME Inv, TakeLost PROVE Inv'
<1> DEFINE n == CHOOSE m \in Lost : \A o \in Lost : m <= o
<1>1. /\ phase = "writing" /\ phase' = phase /\ rest' = rest /\ Lost # {}
      /\ UNCHANGED <<page, planVars, line, opened, edges, landed, records>>
      /\ put' = put \cup {n}
      /\ moved' = moved \cup {[from |-> kept[n].from, to |-> kept[n].to, at |-> Len(text)]}
      /\ text' = text \o Copy(kept[n].from, kept[n].to)
  BY DEF TakeLost
<1>2. n \in Lost
  <2>1. \A m \in DOMAIN kept : m \in Nat
    BY LinesAre DEF Inv
  <2>2. Lost \in SUBSET Nat
    BY <1>1, <2>1, MineIs DEF Lost
  <2>3. \E m \in Lost : \A o \in Lost : m <= o
    BY <1>1, <2>2, FirstExists
  <2>4. QED
    BY <2>3
<1> HIDE DEF n
<1>3. n \in Mine /\ n \notin put /\ kept[n] # NoRange
  BY <1>2 DEF Lost
<1>4. rest' \in Seq(Piece)
  BY <1>1 DEF Inv, WriteTyped
<1>5. QED
  BY <1>1, <1>3, <1>4, PutKeeps

\* Ranges copied before stay where they are
LEMMA MovedStays ==
  ASSUME Inv, phase # "planning", UNCHANGED <<page, planVars>>, Grows,
         NEW m \in moved
  PROVE  m.from <= m.to /\ \E a \in Begun' : CopiedOn(m, a)'
<1>1. PICK a \in Begun : CopiedOn(m, a)
  BY DEF Inv, WriteOK, MovedOK
<1>2. CopiedOn(m, a)'
  BY <1>1, CopiedStays
<1>3. m.from <= m.to
  BY DEF Inv, WriteOK, MovedOK
<1>4. a \in Begun'
  BY DEF Grows
<1>5. QED
  BY <1>2, <1>3, <1>4 DEF CopiedOn

\* From one line to the next
LEMMA Turns ==
  ASSUME Inv, phase # "planning", phase' \in {"answering", "writing"}, UNCHANGED <<page, planVars, landed, records>>,
         Grows, WriteTyped', EdgesOK', MovedOK', RangesApart', OpenedOK'
  PROVE  Inv'
<1>1. PlanTyped' /\ PlanOK'
  BY PlanStays
<1>2. LandedOK'
  BY LandedSame
<1>3. RecordsOK'
  BY DEF RecordsOK, BlocksStay, LinksStayOnTheirLine
<1>4. QED
  BY <1>1, <1>2, <1>3 DEF Inv, WriteOK

LEMMA EndAnswerKeeps == ASSUME Inv, EndAnswer PROVE Inv'
<1> DEFINE e == [old |-> Cut.end, now |-> Len(text)]
<1>1. /\ phase = "writing" /\ phase' = "answering" /\ line' = line + 1 /\ edges' = Append(edges, e)
      /\ UNCHANGED <<page, planVars, rest, opened, put, text, moved, landed, records>>
      /\ lines' = lines /\ kept' = kept
  BY DEF EndAnswer, planVars
<1>2. /\ line \in Nat /\ 0 < line /\ edges \in Seq(Edge) /\ text \in Seq(Nat) /\ Len(text) \in Nat
      /\ EdgesOK /\ WriteTyped
  BY <1>1 DEF Inv, WriteOK, WriteTyped
<1>3. Len(edges) = 2 * line - 1 /\ line <= Len(lines) /\ Cut.translates /\ Len(lines) \in Nat
  BY <1>1, <1>2, LinesAre DEF EdgesOK, Inv
<1>4. line \in DOMAIN lines /\ lines[line].end \in Nat
  BY <1>2, <1>3, LinesAre DEF Inv
<1>5. e \in Edge /\ e.old = lines[line].end /\ e.now = Len(text)
  BY <1>2, <1>4 DEF Edge, Cut
<1> HIDE DEF e
<1>6. /\ edges' \in Seq(Edge) /\ Len(edges') = 2 * line /\ edges'[2 * line] = e
      /\ \A j \in DOMAIN edges : edges'[j] = edges[j]
  BY <1>1, <1>2, <1>3, <1>5
<1>7. Begun' = Begun
  BY <1>1, <1>2, LinesAre DEF Begun, Inv
<1>8. \A a \in Begun : /\ a \in DOMAIN lines /\ a \in Nat /\ (a < line \/ a = line)
                       /\ edges'[2 * a - 1] = edges[2 * a - 1] /\ (a < line => edges'[2 * a] = edges[2 * a])
                       /\ a < line'
                       /\ Sofar(a)' = Sofar(a) /\ Sofar(a) \in Nat
  <2>1. ASSUME NEW a \in Begun
        PROVE  /\ a \in DOMAIN lines /\ a \in Nat /\ (a < line \/ a = line)
               /\ edges'[2 * a - 1] = edges[2 * a - 1] /\ (a < line => edges'[2 * a] = edges[2 * a])
               /\ a < line'
               /\ Sofar(a)' = Sofar(a) /\ Sofar(a) \in Nat
    <3>1. /\ a \in DOMAIN lines /\ a \in Nat /\ (a < line \/ a = line) /\ Sofar(a) \in Nat
          /\ 2 * a - 1 \in DOMAIN edges /\ (a < line => 2 * a \in DOMAIN edges)
      BY <1>1, BegunIs
    <3>2. a < line'
      BY <1>1, <1>2, <3>1
    <3>3. /\ edges'[2 * a - 1] = edges[2 * a - 1] /\ (a < line => edges'[2 * a] = edges[2 * a])
      BY <1>6, <3>1
    <3>4. Sofar(a)' = edges'[2 * a].now
      BY <3>2 DEF Sofar
    <3>5. CASE a < line
      BY <3>1, <3>2, <3>3, <3>4, <3>5 DEF Sofar
    <3>6. CASE a = line
      <4>1. Sofar(a) = Len(text)
        BY <1>2, <3>6 DEF Sofar
      <4>2. QED
        BY <1>5, <1>6, <3>1, <3>2, <3>3, <3>4, <3>6, <4>1
    <3>7. QED
      BY <3>1, <3>5, <3>6
  <2>2. QED
    BY <2>1
<1>9. Grows
  BY <1>7, <1>8 DEF Grows
<1>10. EdgesOK'
  <2>1. ASSUME NEW a \in Begun
        PROVE  /\ edges'[2 * a - 1].old = lines[a].start /\ edges'[2 * a - 1].now <= Sofar(a)'
               /\ edges'[2 * a].old = lines[a].end
               /\ lines[a].start = lines[a].end => edges'[2 * a].now = edges'[2 * a - 1].now
               /\ Sofar(a)' <= Len(text')
    <3>1. edges'[2 * a - 1].old = lines[a].start /\ edges'[2 * a - 1].now <= Sofar(a)' /\ Sofar(a)' <= Len(text')
      BY <1>1, <1>2, <1>8 DEF EdgesOK
    <3>2. CASE a < line
      BY <1>2, <1>8, <3>1, <3>2 DEF EdgesOK
    <3>3. CASE a = line
      <4>1. lines[a].start # lines[a].end
        BY <1>2, <3>3 DEF EdgesOK
      <4>2. QED
        BY <1>5, <1>6, <3>1, <3>3, <4>1
    <3>4. QED
      BY <1>8, <3>2, <3>3
  <2>2. line' <= Len(lines') + 1 /\ Len(edges') = 2 * line' - 2
    BY <1>1, <1>2, <1>3, <1>6
  <2>3. QED
    BY <1>1, <1>7, <1>8, <2>1, <2>2 DEF EdgesOK
<1>11. WriteTyped'
  BY <1>1, <1>2, <1>6 DEF WriteTyped
<1>12. MovedOK'
  <2>1. ASSUME NEW m \in moved PROVE m.from <= m.to /\ \E a \in Begun' : CopiedOn(m, a)'
    BY <1>1, <1>9, MovedStays DEF CopiedOn
  <2>2. QED
    BY <1>1, <2>1 DEF MovedOK, CopiedOn
<1>13. RangesApart' /\ OpenedOK'
  BY <1>1, SameMoved DEF OpenedOK
<1>14. QED
  BY <1>1, <1>9, <1>10, <1>11, <1>12, <1>13, Turns

LEMMA AppendTwo ==
  ASSUME NEW S, NEW s \in Seq(S), NEW a, NEW b
  PROVE  s \o <<a, b>> = Append(Append(s, a), b)
<1>1. s \o <<a, b>> \in Seq(S \cup {a, b})
  OBVIOUS
<1>2. Append(Append(s, a), b) \in Seq(S \cup {a, b})
  OBVIOUS
<1>3. QED
  BY <1>1, <1>2

\* What TakeLine begins a line with
LEMMA BeforeIs ==
  ASSUME Inv, phase = "answering", line <= Len(lines),
         NEW before, before = IF line = 1 THEN text ELSE Append(text, Newline)
  PROVE  /\ before \in Seq(Nat) /\ Len(before) \in Nat /\ Len(text) \in Nat /\ Len(text) <= Len(before)
         /\ line \in Nat /\ 0 < line /\ line \in DOMAIN lines /\ Len(lines) \in Nat
         /\ Cut.start = lines[line].start /\ Cut.end = lines[line].end
         /\ lines[line].start \in Nat /\ lines[line].end \in Nat /\ lines[line].start <= lines[line].end
         /\ edges \in Seq(Edge) /\ Len(edges) = 2 * line - 2
         /\ lines[line].start = lines[line].end => ~Cut.translates
         /\ \A a \in Begun : a < line /\ lines[a].end < lines[line].start /\ lines[a].end \in Nat
<1>1. /\ text \in Seq(Nat) /\ line \in Nat /\ 0 < line /\ edges \in Seq(Edge) /\ PlanTyped /\ CutOK /\ EdgesOK
  BY DEF Inv, WriteOK, WriteTyped, PlanOK
<1>2. Newline \in Nat
  BY <1>1, PageIs DEF Newline, PlanTyped
<1>3. line \in DOMAIN lines /\ Len(lines) \in Nat /\ lines[line].start \in Nat /\ lines[line].end \in Nat
  BY <1>1, LinesAre
<1>4. lines[line].start <= lines[line].end /\ (lines[line].start = lines[line].end => ~Cut.translates)
  BY <1>1, <1>3 DEF CutOK, Cut
<1>5. Len(edges) = 2 * line - 2
  BY <1>1 DEF EdgesOK
<1>6. ASSUME NEW a \in Begun PROVE a < line /\ lines[a].end < lines[line].start /\ lines[a].end \in Nat
  <2>1. a < line /\ a \in DOMAIN lines
    BY DEF Begun
  <2>2. QED
    BY <1>1, <1>3, <2>1, LinesAre DEF CutOK
<1>7. before \in Seq(Nat) /\ Len(before) \in Nat /\ Len(text) \in Nat /\ Len(text) <= Len(before)
  BY <1>1, <1>2
<1>8. QED
  BY <1>1, <1>3, <1>4, <1>5, <1>6, <1>7 DEF Cut

\* The lines begun when the next one is begun too
LEMMA BegunNext ==
  ASSUME Inv, phase = "answering", line <= Len(lines), lines' = lines,
         \/ line' = line + 1 /\ phase' = "answering"
         \/ line' = line /\ phase' = "writing"
  PROVE  /\ line \in Begun' /\ \A a \in Begun : a \in Begun'
         /\ \A a \in Begun' : a \in Begun \/ a = line
<1>1. line \in Nat /\ 0 < line /\ line \in DOMAIN lines
  BY LinesAre DEF Inv, WriteTyped
<1>2. \A a \in DOMAIN lines : a \in Nat
  BY LinesAre DEF Inv
<1>3. line \in Begun'
  BY <1>1 DEF Begun
<1>4. ASSUME NEW a \in Begun PROVE a \in Begun'
  BY <1>1, <1>2 DEF Begun
<1>5. ASSUME NEW a \in Begun' PROVE a \in Begun \/ a = line
  BY <1>1, <1>2 DEF Begun
<1>6. QED
  BY <1>3, <1>4, <1>5

\* A line written as it was
AsItWas(before, first, last) ==
  /\ phase = "answering" /\ line <= Len(lines)
  /\ before = IF line = 1 THEN text ELSE Append(text, Newline)
  /\ text' = before \o Copy(Cut.start, Cut.end)
  /\ moved' = moved \cup {[from |-> Cut.start, to |-> Cut.end, at |-> Len(before)]}
  /\ first = [old |-> Cut.start, now |-> Len(before)]
  /\ last = [old |-> Cut.end, now |-> Len(text')]
  /\ edges' = Append(Append(edges, first), last)
  /\ line' = line + 1
  /\ UNCHANGED <<page, phase, planVars, rest, opened, put, landed, records>>

LEMMA TakeLineCopies == ASSUME Inv, NEW before, NEW first, NEW last, AsItWas(before, first, last) PROVE Inv'
<1>1. /\ phase = "answering" /\ line <= Len(lines) /\ line' = line + 1
      /\ before = IF line = 1 THEN text ELSE Append(text, Newline)
      /\ UNCHANGED <<page, phase, planVars, rest, opened, put, landed, records>>
  BY DEF AsItWas
<1>2. /\ before \in Seq(Nat) /\ Len(before) \in Nat /\ Len(text) \in Nat /\ Len(text) <= Len(before)
      /\ line \in Nat /\ 0 < line /\ line \in DOMAIN lines /\ Len(lines) \in Nat
      /\ Cut.start = lines[line].start /\ Cut.end = lines[line].end
      /\ lines[line].start \in Nat /\ lines[line].end \in Nat /\ lines[line].start <= lines[line].end
      /\ edges \in Seq(Edge) /\ Len(edges) = 2 * line - 2
      /\ \A a \in Begun : a < line /\ lines[a].end < lines[line].start /\ lines[a].end \in Nat
  BY <1>1, BeforeIs
<1>3. PICK l \in Nat : l = line /\ 0 < l
  BY <1>2
<1>4. phase' = phase /\ lines' = lines /\ kept' = kept /\ line' = line + 1
  BY <1>1 DEF planVars
<1>5. PICK start \in Nat, stop \in Nat, at \in Nat :
        start = lines[line].start /\ stop = lines[line].end /\ at = Len(before) /\ start <= stop
  BY <1>2
<1>6. text' \in Seq(Nat) /\ Len(text') = at + (stop - start)
  <2>1. Copy(start, stop) \in Seq(Nat) /\ Len(Copy(start, stop)) = stop - start
    BY <1>5, CopyIs
  <2> DEFINE c == Copy(start, stop)
  <2>2. text' = before \o c /\ c \in Seq(Nat) /\ Len(c) = stop - start
    BY <1>2, <1>5, <2>1 DEF AsItWas
  <2> HIDE DEF c
  <2>3. before \in Seq(Nat) /\ text' = before \o c /\ c \in Seq(Nat)
    BY <1>2, <2>2
  <2>4. text' \in Seq(Nat) /\ Len(text') = Len(before) + Len(c) /\ Len(c) \in Nat
    BY <2>3
  <2>5. QED
    BY <1>2, <1>5, <2>2, <2>4
<1>7. PICK then \in Nat : then = Len(text') /\ then = at + (stop - start) /\ at <= then
  <2>1. stop - start \in Nat
    BY <1>5
  <2>2. at + (stop - start) \in Nat /\ at <= at + (stop - start)
    BY <1>5, <2>1
  <2>3. Len(text') \in Nat /\ at <= Len(text')
    BY <1>6, <2>2
  <2>4. QED
    BY <1>6, <2>3
<1>8. /\ edges' \in Seq(Edge) /\ Len(edges') = 2 * line
      /\ edges'[2 * line - 1] = [old |-> start, now |-> at] /\ edges'[2 * line] = [old |-> stop, now |-> then]
      /\ \A j \in DOMAIN edges : edges'[j] = edges[j]
  <2>1. first = [old |-> start, now |-> at] /\ last = [old |-> stop, now |-> then]
    BY <1>2, <1>5, <1>7 DEF AsItWas
  <2>2. first \in Edge /\ last \in Edge
    BY <1>5, <1>7, <2>1 DEF Edge
  <2>3. edges' = Append(Append(edges, first), last) /\ edges \in Seq(Edge)
    BY <1>2 DEF AsItWas
  <2>4. /\ edges' \in Seq(Edge) /\ Len(edges') = Len(edges) + 2
        /\ edges'[Len(edges) + 1] = first /\ edges'[Len(edges) + 2] = last
        /\ \A j \in DOMAIN edges : edges'[j] = edges[j]
    BY <2>2, <2>3
  <2>5. Len(edges) + 1 = 2 * line - 1 /\ Len(edges) + 2 = 2 * line
    BY <1>2
  <2>6. QED
    BY <2>1, <2>4, <2>5
<1>9. PICK x \in Copied : x.from = start /\ x.to = stop /\ x.at = at /\ moved' = moved \cup {x}
  <2>1. [from |-> start, to |-> stop, at |-> at] \in Copied
    BY <1>5 DEF Copied
  <2>2. moved' = moved \cup {[from |-> start, to |-> stop, at |-> at]}
    BY <1>2, <1>5 DEF AsItWas
  <2>3. QED
    BY <2>1, <2>2
<1>10. line \in Begun' /\ (\A a \in Begun : a \in Begun') /\ (\A a \in Begun' : a \in Begun \/ a = line)
  BY <1>1, <1>4, BegunNext
<1>11. ASSUME NEW a \in Begun
      PROVE  /\ a \in DOMAIN lines /\ a \in Nat /\ a < line /\ a < line'
             /\ edges'[2 * a - 1] = edges[2 * a - 1] /\ edges'[2 * a] = edges[2 * a]
             /\ Sofar(a)' = Sofar(a) /\ Sofar(a) \in Nat /\ Sofar(a) <= Len(text)
  <2>1. /\ a \in DOMAIN lines /\ a \in Nat /\ a < line /\ Sofar(a) \in Nat /\ Sofar(a) <= Len(text)
        /\ 2 * a - 1 \in DOMAIN edges /\ 2 * a \in DOMAIN edges
    BY <1>1, <1>2, BegunIs
  <2>2. a < line'
    BY <1>2, <1>4, <2>1
  <2>3. edges'[2 * a - 1] = edges[2 * a - 1] /\ edges'[2 * a] = edges[2 * a]
    BY <1>8, <2>1
  <2>4. QED
    BY <2>1, <2>2, <2>3 DEF Sofar
<1>12. Sofar(l)' = then /\ l < line'
  <2>1. l < line'
    BY <1>2, <1>4, <1>3
  <2>2. edges'[2 * l].now = then
    BY <1>8, <1>3
  <2>3. QED
    BY <2>1, <2>2 DEF Sofar
<1>13. Grows
  BY <1>2, <1>10, <1>11 DEF Grows, Sofar
<1>14. EdgesOK'
  <2>1. ASSUME NEW a \in Begun'
        PROVE  /\ edges'[2 * a - 1].old = lines[a].start /\ edges'[2 * a - 1].now <= Sofar(a)'
               /\ edges'[2 * a].old = lines[a].end
               /\ lines[a].start = lines[a].end => a < line' /\ edges'[2 * a].now = edges'[2 * a - 1].now
               /\ Sofar(a)' <= Len(text')
    <3>1. CASE a \in Begun
      <4>1. EdgesOK
        BY <1>1 DEF Inv, WriteOK
      <4>2. Sofar(a)' <= Len(text')
        BY <1>2, <1>5, <1>7, <1>11, <3>1
      <4>3. QED
        BY <1>11, <3>1, <4>1, <4>2 DEF EdgesOK
    <3>2. CASE a = line
      BY <1>5, <1>7, <1>8, <1>12, <1>3, <3>2
    <3>3. QED
      BY <1>10, <3>1, <3>2
  <2>2. line' <= Len(lines') + 1 /\ Len(edges') = 2 * line' - 2
    <3>1. line \in Nat /\ Len(lines) \in Nat /\ line <= Len(lines)
      BY <1>1, <1>2
    <3>2. line' = line + 1 /\ lines' = lines /\ Len(edges') = 2 * line
      BY <1>4, <1>8
    <3>3. QED
      BY <3>1, <3>2
  <2>3. phase' # "writing"
    BY <1>1
  <2>4. QED
    BY <1>4, <2>1, <2>2, <2>3 DEF EdgesOK
<1>15. WriteTyped'
  <2>1. moved' \subseteq Copied
    BY <1>9 DEF Inv, WriteTyped
  <2>2. line' \in Nat \ {0}
    BY <1>2, <1>4
  <2>3. rest' \in Seq(Piece) /\ put' \subseteq Nat
    BY <1>1 DEF Inv, WriteTyped
  <2>4. QED
    BY <1>6, <1>8, <2>1, <2>2, <2>3 DEF WriteTyped
<1>16. MovedOK'
  <2>1. ASSUME NEW m \in moved PROVE m.from <= m.to /\ \E a \in Begun' : CopiedOn(m, a)'
    BY <1>1, <1>13, MovedStays DEF CopiedOn
  <2>2. CopiedOn(x, l)'
    <3>1. /\ lines'[l].start <= x.from /\ x.to <= lines'[l].end
          /\ edges'[2 * l - 1].now <= x.at /\ x.at + x.to - x.from <= Sofar(l)'
      BY <1>4, <1>5, <1>7, <1>8, <1>9, <1>12, <1>3
    <3>2. /\ l < line' /\ x.from = lines'[l].start /\ x.to = lines'[l].end
          /\ x.at = edges'[2 * l - 1].now /\ x.at + x.to - x.from = edges'[2 * l].now
      BY <1>4, <1>5, <1>7, <1>8, <1>9, <1>12, <1>3
    <3>3. QED
      BY <3>1, <3>2 DEF CopiedOn
  <2>3. QED
    <3>1. x.from <= x.to /\ l \in Begun'
      BY <1>5, <1>9, <1>10, <1>3
    <3>2. \A m \in moved' : m \in moved \/ m = x
      BY <1>9
    <3>3. QED
      BY <2>1, <2>2, <3>1, <3>2 DEF MovedOK, CopiedOn
<1>17. RangesApart'
  <2>1. ASSUME NEW o \in moved
        PROVE  (o.to <= x.from \/ x.to <= o.from) /\ o.at + o.to - o.from <= x.at
    <3>1. PICK a \in Begun : CopiedOn(o, a)
      BY <1>1 DEF Inv, WriteOK, MovedOK
    <3>2. o.to <= lines[a].end /\ o.at + o.to - o.from <= Sofar(a)
      BY <3>1 DEF CopiedOn
    <3>3. o.to \in Nat /\ o.at \in Nat /\ o.from \in Nat
      BY DEF Inv, WriteTyped, Copied
    <3>4. o.to <= x.from
      <4>1. lines[a].end < x.from /\ lines[a].end \in Nat /\ x.from \in Nat
        BY <1>2, <1>5, <1>9
      <4>2. QED
        BY <3>2, <3>3, <4>1
    <3>5. o.at + o.to - o.from <= x.at
      <4>1. Sofar(a) \in Nat /\ Sofar(a) <= Len(text)
        BY <1>11
      <4>2. Len(text) \in Nat /\ Len(text) <= x.at /\ x.at \in Nat
        BY <1>2, <1>5, <1>9
      <4>3. QED
        BY <3>2, <3>3, <4>1, <4>2
    <3>6. QED
      BY <3>4, <3>5
  <2>2. RangesApart
    BY <1>1 DEF Inv
  <2>3. QED
    BY <1>9, <2>1, <2>2, AddApart
<1>18. OpenedOK'
  BY <1>1 DEF OpenedOK
<1>19. QED
  BY <1>1, <1>13, <1>14, <1>15, <1>16, <1>17, <1>18, Turns

LEMMA TakeLineStarts ==
  ASSUME Inv, phase = "answering", line <= Len(lines), Cut.translates,
         NEW before, before = IF line = 1 THEN text ELSE Append(text, Newline),
         NEW answer \in Answers,
         text' = before,
         edges' = Append(edges, [old |-> Cut.start, now |-> Len(before)]),
         rest' = answer,
         opened' = [n \in DOMAIN kept |-> Nowhere],
         put' = {},
         phase' = "writing",
         UNCHANGED <<page, planVars, line, moved, landed, records>>
  PROVE  Inv'
<1>1. /\ before \in Seq(Nat) /\ Len(before) \in Nat /\ Len(text) \in Nat /\ Len(text) <= Len(before)
      /\ line \in Nat /\ 0 < line /\ line \in DOMAIN lines /\ Len(lines) \in Nat
      /\ Cut.start = lines[line].start /\ lines[line].start \in Nat
      /\ edges \in Seq(Edge) /\ Len(edges) = 2 * line - 2
      /\ lines[line].start # lines[line].end
      /\ \A a \in Begun : a < line /\ lines[a].end < lines[line].start /\ lines[a].end \in Nat
  BY BeforeIs
<1>2. lines' = lines /\ kept' = kept /\ line' = line
  BY DEF planVars
<1>3. PICK start \in Nat, at \in Nat : start = lines[line].start /\ at = Len(before)
  BY <1>1
<1>4. /\ edges' \in Seq(Edge) /\ Len(edges') = 2 * line - 1 /\ edges'[2 * line - 1] = [old |-> start, now |-> at]
      /\ \A j \in DOMAIN edges : edges'[j] = edges[j]
  <2> DEFINE e == [old |-> start, now |-> at]
  <2>1. e \in Edge /\ edges' = Append(edges, e)
    BY <1>1, <1>3 DEF Edge
  <2> HIDE DEF e
  <2>2. edges \in Seq(Edge) /\ line \in Nat /\ Len(edges) = 2 * line - 2
    BY <1>1
  <2>3. /\ edges' \in Seq(Edge) /\ Len(edges') = Len(edges) + 1 /\ edges'[Len(edges) + 1] = e
        /\ \A j \in DOMAIN edges : edges'[j] = edges[j]
    BY <2>1, <2>2
  <2>4. Len(edges) + 1 = 2 * line - 1
    BY <2>2
  <2>5. QED
    BY <2>3, <2>4 DEF e
<1>5. line \in Begun' /\ (\A a \in Begun : a \in Begun') /\ (\A a \in Begun' : a \in Begun \/ a = line)
  BY <1>2, BegunNext
<1>6. ASSUME NEW a \in Begun
      PROVE  /\ a \in DOMAIN lines /\ a \in Nat /\ a < line /\ a < line' /\ a # line
             /\ edges'[2 * a - 1] = edges[2 * a - 1] /\ edges'[2 * a] = edges[2 * a]
             /\ Sofar(a)' = Sofar(a) /\ Sofar(a) \in Nat /\ Sofar(a) <= Len(text)
  <2>1. /\ a \in DOMAIN lines /\ a \in Nat /\ a < line /\ Sofar(a) \in Nat /\ Sofar(a) <= Len(text)
        /\ 2 * a - 1 \in DOMAIN edges /\ 2 * a \in DOMAIN edges
    BY <1>1, BegunIs
  <2>2. a < line' /\ a # line
    BY <1>1, <1>2, <2>1
  <2>3. edges'[2 * a - 1] = edges[2 * a - 1] /\ edges'[2 * a] = edges[2 * a]
    BY <1>4, <2>1
  <2>4. QED
    BY <2>1, <2>2, <2>3 DEF Sofar
<1>7. Sofar(line)' = at /\ Len(text') = at
  BY <1>1, <1>2, <1>3 DEF Sofar
<1>8. Grows
  <2>1. ASSUME NEW a \in Begun
        PROVE  /\ a \in Begun' /\ edges'[2 * a - 1] = edges[2 * a - 1] /\ Sofar(a) <= Sofar(a)'
               /\ a < line => a < line' /\ edges'[2 * a] = edges[2 * a]
               /\ a = line => a < line' \/ put \subseteq put'
               /\ Sofar(a)' \in Nat
    <3>1. a \in Begun' /\ edges'[2 * a - 1] = edges[2 * a - 1] /\ a < line' /\ edges'[2 * a] = edges[2 * a]
      BY <1>5, <1>6
    <3>2. Sofar(a)' = Sofar(a) /\ Sofar(a) \in Nat
      BY <1>6
    <3>3. Sofar(a) <= Sofar(a)' /\ Sofar(a)' \in Nat
      BY <3>2
    <3>4. QED
      BY <3>1, <3>3
  <2>2. QED
    BY <2>1 DEF Grows
<1>9. EdgesOK'
  <2>1. ASSUME NEW a \in Begun'
        PROVE  /\ edges'[2 * a - 1].old = lines[a].start /\ edges'[2 * a - 1].now <= Sofar(a)'
               /\ a < line' => edges'[2 * a].old = lines[a].end
               /\ lines[a].start = lines[a].end => a < line' /\ edges'[2 * a].now = edges'[2 * a - 1].now
               /\ Sofar(a)' <= Len(text')
    <3>1. CASE a \in Begun
      <4>1. EdgesOK
        BY DEF Inv, WriteOK
      <4>2. Sofar(a)' <= Len(text')
        BY <1>1, <1>3, <1>6, <1>7, <3>1
      <4>3. QED
        BY <1>6, <3>1, <4>1, <4>2 DEF EdgesOK
    <3>2. CASE a = line
      BY <1>1, <1>2, <1>3, <1>4, <1>7, <3>2
    <3>3. QED
      BY <1>5, <3>1, <3>2
  <2>2. line' <= Len(lines') + 1 /\ Len(edges') = 2 * line' - 1 /\ line' <= Len(lines')
    BY <1>1, <1>2, <1>4
  <2>3. Cut'.translates
    BY <1>2 DEF Cut
  <2>4. QED
    BY <1>2, <2>1, <2>2, <2>3 DEF EdgesOK
<1>10. WriteTyped'
  BY <1>1, <1>4, AnswersAre DEF Inv, WriteTyped
<1>11. MovedOK'
  <2>1. ASSUME NEW m \in moved PROVE m.from <= m.to /\ \E a \in Begun' : CopiedOn(m, a)'
    BY <1>8, MovedStays DEF CopiedOn
  <2>2. QED
    BY <2>1 DEF MovedOK, CopiedOn
<1>12. OpenedOK'
  <2>1. Nowhere \in Place
    BY DEF Nowhere, Place
  <2>2. opened' \in [DOMAIN kept' -> Place] /\ \A n \in DOMAIN kept' : opened'[n] = Nowhere
    BY <1>2, <2>1
  <2>3. QED
    BY <2>2 DEF OpenedOK
<1>13. RangesApart'
  BY SameMoved
<1>14. QED
  BY <1>8, <1>9, <1>10, <1>11, <1>12, <1>13, Turns

LEMMA TakeLineKeeps == ASSUME Inv, TakeLine PROVE Inv'
<1> DEFINE before == IF line = 1 THEN text ELSE Append(text, Newline)
<1>1. phase = "answering" /\ line <= Len(lines) /\ UNCHANGED <<page, planVars, landed, records>>
  BY DEF TakeLine
<1>2. PICK answer \in Answers :
        IF ~Cut.translates \/ answer = Cut.pieces
        THEN /\ text' = before \o Copy(Cut.start, Cut.end)
             /\ moved' = moved \cup {[from |-> Cut.start, to |-> Cut.end, at |-> Len(before)]}
             /\ edges' = edges \o <<[old |-> Cut.start, now |-> Len(before)],
                                    [old |-> Cut.end, now |-> Len(text')]>>
             /\ line' = line + 1
             /\ UNCHANGED <<phase, rest, opened, put>>
        ELSE /\ text' = before
             /\ edges' = Append(edges, [old |-> Cut.start, now |-> Len(before)])
             /\ rest' = answer
             /\ opened' = [n \in DOMAIN kept |-> Nowhere]
             /\ put' = {}
             /\ phase' = "writing"
             /\ UNCHANGED <<line, moved>>
  BY DEF TakeLine
<1>3. before = IF line = 1 THEN text ELSE Append(text, Newline)
  OBVIOUS
<1> HIDE DEF before
<1>4. CASE ~Cut.translates \/ answer = Cut.pieces
  <2> DEFINE first == [old |-> Cut.start, now |-> Len(before)]
             last == [old |-> Cut.end, now |-> Len(text')]
  <2>1. /\ text' = before \o Copy(Cut.start, Cut.end)
        /\ moved' = moved \cup {[from |-> Cut.start, to |-> Cut.end, at |-> Len(before)]}
        /\ edges' = edges \o <<first, last>>
        /\ line' = line + 1
        /\ UNCHANGED <<phase, rest, opened, put>>
    BY <1>2, <1>4, Zenon
  <2>2. edges \o <<first, last>> = Append(Append(edges, first), last)
    <3>1. edges \in Seq(Edge)
      BY DEF Inv, WriteTyped
    <3> HIDE DEF first, last
    <3>2. QED
      BY <3>1, AppendTwo
  <2>3. /\ first = [old |-> Cut.start, now |-> Len(before)]
        /\ last = [old |-> Cut.end, now |-> Len(text')]
    OBVIOUS
  <2> HIDE DEF first, last
  <2>4. QED
    BY <1>1, <1>3, <2>1, <2>3, <2>2, TakeLineCopies DEF AsItWas
<1>5. CASE ~(~Cut.translates \/ answer = Cut.pieces)
  BY <1>1, <1>2, <1>3, <1>5, TakeLineStarts
<1>6. QED
  BY <1>4, <1>5

(***************************************************************************)
(* Placing the records                                                     *)
(***************************************************************************)
LEMMA EvenOrOdd == ASSUME NEW e \in Nat, 0 < e PROVE \E a \in Nat \ {0} : e = 2 * a - 1 \/ e = 2 * a
<1> DEFINE S == {n \in Nat : \E a \in Nat \ {0} : n + 1 = 2 * a - 1 \/ n + 1 = 2 * a}
<1>1. 0 \in S
  <2>1. 0 + 1 = 2 * 1 - 1 /\ 1 \in Nat \ {0}
    OBVIOUS
  <2>2. QED
    BY <2>1
<1>2. ASSUME NEW n \in S PROVE n + 1 \in S
  <2>1. PICK a \in Nat \ {0} : n + 1 = 2 * a - 1 \/ n + 1 = 2 * a
    OBVIOUS
  <2>2. n \in Nat /\ n + 1 \in Nat /\ a + 1 \in Nat \ {0}
    BY <2>1
  <2>3. CASE n + 1 = 2 * a - 1
    <3>1. (n + 1) + 1 = 2 * a
      BY <2>1, <2>2, <2>3
    <3>2. QED
      BY <2>1, <2>2, <3>1
  <2>4. CASE n + 1 = 2 * a
    <3>1. (n + 1) + 1 = 2 * (a + 1) - 1
      BY <2>1, <2>2, <2>4
    <3>2. QED
      BY <2>2, <3>1
  <2>5. QED
    BY <2>1, <2>3, <2>4
<1>3. S = Nat
  <2>1. S \in SUBSET Nat
    OBVIOUS
  <2> HIDE DEF S
  <2>2. QED
    BY <1>1, <1>2, <2>1, EveryNumber
<1>4. e - 1 \in Nat /\ e - 1 + 1 = e
  OBVIOUS
<1>5. e - 1 \in S
  <2> HIDE DEF S
  <2>1. QED
    BY <1>3, <1>4
<1>6. QED
  BY <1>4, <1>5

\* Every line is written
Written ==
  /\ PlanTyped /\ WriteTyped /\ PlanOK /\ EdgesOK /\ MovedOK /\ LandedOK
  /\ phase # "planning"
  /\ Len(edges) = 2 * Len(lines)
  /\ \A a \in DOMAIN lines :
       /\ 2 * a - 1 \in DOMAIN edges /\ 2 * a \in DOMAIN edges
       /\ edges[2 * a - 1].old = lines[a].start /\ edges[2 * a].old = lines[a].end
       /\ edges[2 * a - 1].now \in Nat /\ edges[2 * a].now \in Nat
       /\ lines[a].start = lines[a].end => edges[2 * a].now = edges[2 * a - 1].now
  /\ Begun = DOMAIN lines
  /\ \A a \in DOMAIN lines : Sofar(a) = edges[2 * a].now /\ ~(a = line)

LEMMA AllWritten == ASSUME Inv, phase = "answering", line > Len(lines) PROVE Written
<1>1. PlanTyped /\ WriteTyped /\ PlanOK /\ EdgesOK /\ MovedOK /\ LandedOK
  BY DEF Inv, WriteOK
<1>2. line \in Nat /\ Len(lines) \in Nat /\ line <= Len(lines) + 1 /\ Len(edges) = 2 * line - 2
  BY <1>1, LinesAre DEF WriteTyped, EdgesOK
<1>3. line = Len(lines) + 1 /\ Len(edges) = 2 * Len(lines)
  BY <1>2
<1>4. \A a \in DOMAIN lines : a \in Nat /\ a < line
  BY <1>1, <1>3, LinesAre
<1>5. Begun = DOMAIN lines
  BY <1>4 DEF Begun
<1>6. \A a \in DOMAIN lines : Sofar(a) = edges[2 * a].now /\ ~(a = line)
  BY <1>2, <1>4 DEF Sofar
<1>7. ASSUME NEW a \in DOMAIN lines
      PROVE  /\ 2 * a - 1 \in DOMAIN edges /\ 2 * a \in DOMAIN edges
             /\ edges[2 * a - 1].old = lines[a].start /\ edges[2 * a].old = lines[a].end
             /\ edges[2 * a - 1].now \in Nat /\ edges[2 * a].now \in Nat
             /\ lines[a].start = lines[a].end => edges[2 * a].now = edges[2 * a - 1].now
  <2>1. a \in Begun /\ a < line
    BY <1>4, <1>5
  <2>2. /\ 2 * a - 1 \in DOMAIN edges /\ 2 * a \in DOMAIN edges
        /\ edges[2 * a - 1].now \in Nat /\ edges[2 * a].now \in Nat
    BY <2>1, BegunIs
  <2>3. /\ edges[2 * a - 1].old = lines[a].start /\ edges[2 * a].old = lines[a].end
        /\ lines[a].start = lines[a].end => edges[2 * a].now = edges[2 * a - 1].now
    BY <1>1, <2>1 DEF EdgesOK
  <2>4. QED
    BY <2>2, <2>3
<1>8. QED
  BY <1>1, <1>3, <1>5, <1>6, <1>7 DEF Written

\* Lines lie one after the other
LEMMA LinesApart ==
  ASSUME PlanTyped, CutOK, NEW a \in DOMAIN lines, NEW b \in DOMAIN lines
  PROVE  /\ a \in Nat /\ b \in Nat
         /\ lines[a].start \in Nat /\ lines[a].end \in Nat /\ lines[b].start \in Nat /\ lines[b].end \in Nat
         /\ lines[a].start <= lines[a].end /\ lines[b].start <= lines[b].end
         /\ lines[a].start <= lines[b].end => a <= b
<1>1. /\ a \in Nat /\ b \in Nat
      /\ lines[a].start \in Nat /\ lines[a].end \in Nat /\ lines[b].start \in Nat /\ lines[b].end \in Nat
  BY LinesAre
<1>2. /\ lines[a].start <= lines[a].end /\ lines[b].start <= lines[b].end
      /\ b < a => lines[b].end < lines[a].start
  BY DEF CutOK
<1>3. QED
  BY <1>1, <1>2

\* An end of a line lands where the line's end went
LEMMA LandsOnEdge ==
  ASSUME Written, NEW a \in DOMAIN lines, NEW isEnd
  PROVE  /\ Land(lines[a].start, isEnd) = edges[2 * a - 1].now + 1
         /\ Land(lines[a].end, isEnd) = edges[2 * a].now + 1
<1>1. PlanTyped /\ CutOK
  BY DEF Written, PlanOK
<1>2. /\ a \in Nat /\ 0 < a /\ 2 * a - 1 \in DOMAIN edges /\ 2 * a \in DOMAIN edges
      /\ edges[2 * a - 1].old = lines[a].start /\ edges[2 * a].old = lines[a].end
      /\ lines[a].start = lines[a].end => edges[2 * a].now = edges[2 * a - 1].now
      /\ lines[a].start \in Nat /\ lines[a].end \in Nat /\ lines[a].start <= lines[a].end
  BY <1>1, LinesAre, LinesApart DEF Written
<1>3. DOMAIN edges \in SUBSET Nat /\ DOMAIN edges = 1..(2 * Len(lines)) /\ Len(lines) \in Nat
  BY <1>1, LinesAre DEF Written, WriteTyped
<1>4. ASSUME NEW e \in DOMAIN edges, edges[e].old = lines[a].start \/ edges[e].old = lines[a].end
      PROVE  e = 2 * a - 1 \/ e = 2 * a
  <2>1. e \in Nat /\ 0 < e /\ e <= 2 * Len(lines)
    BY <1>3
  <2>2. PICK c \in Nat \ {0} : e = 2 * c - 1 \/ e = 2 * c
    BY <2>1, EvenOrOdd
  <2>3. c \in 1..Len(lines)
    BY <1>3, <2>1, <2>2
  <2>4. c \in DOMAIN lines
    BY <1>1, <2>3, LinesAre
  <2>5. edges[2 * c - 1].old = lines[c].start /\ edges[2 * c].old = lines[c].end
    BY <2>4 DEF Written
  <2>6. /\ lines[c].start \in Nat /\ lines[c].end \in Nat /\ lines[c].start <= lines[c].end
        /\ lines[a].start <= lines[c].end => a <= c
        /\ lines[c].start <= lines[a].end => c <= a
    BY <1>1, <2>4, LinesApart
  <2>7. lines[a].start <= lines[c].end /\ lines[c].start <= lines[a].end
    BY <1>2, <1>4, <2>2, <2>5, <2>6
  <2>8. c = a
    BY <1>2, <2>2, <2>6, <2>7
  <2>9. QED
    BY <2>2, <2>8
<1> DEFINE at(p) == {e \in DOMAIN edges : edges[e].old = p}
           least(p) == CHOOSE e \in at(p) : \A f \in at(p) : e <= f
<1>5. ASSUME NEW p, at(p) # {}
      PROVE  Land(p, isEnd) = edges[least(p)].now + 1 /\ least(p) \in at(p) /\ \A f \in at(p) : least(p) <= f
  <2>1. at(p) \in SUBSET Nat
    BY <1>3
  <2>2. \E e \in at(p) : \A f \in at(p) : e <= f
    <3> HIDE DEF at
    <3>1. QED
      BY <1>5, <2>1, FirstExists
  <2>3. Land(p, isEnd) = edges[least(p)].now + 1
    BY <1>5 DEF Land
  <2> HIDE DEF at
  <2>4. QED
    BY <2>2, <2>3
<1>6. 2 * a - 1 \in at(lines[a].start) /\ 2 * a \in at(lines[a].end)
  BY <1>2
<1>7. Land(lines[a].start, isEnd) = edges[2 * a - 1].now + 1
  <2> DEFINE m == least(lines[a].start)
  <2>1. /\ Land(lines[a].start, isEnd) = edges[m].now + 1 /\ m \in at(lines[a].start)
        /\ \A f \in at(lines[a].start) : m <= f
    BY <1>5, <1>6
  <2> HIDE DEF m
  <2>2. m <= 2 * a - 1
    BY <1>6, <2>1
  <2>3. m \in DOMAIN edges /\ edges[m].old = lines[a].start
    BY <2>1
  <2>4. m = 2 * a - 1
    BY <1>2, <1>4, <2>2, <2>3
  <2>5. QED
    BY <2>1, <2>4
<1>8. Land(lines[a].end, isEnd) = edges[2 * a].now + 1
  <2> DEFINE m == least(lines[a].end)
  <2>1. Land(lines[a].end, isEnd) = edges[m].now + 1 /\ m \in at(lines[a].end)
    BY <1>5, <1>6
  <2> HIDE DEF m
  <2>2. m \in DOMAIN edges /\ edges[m].old = lines[a].end
    BY <2>1
  <2>3. m = 2 * a - 1 \/ m = 2 * a
    BY <1>4, <2>2
  <2>4. m = 2 * a - 1 => edges[m].now = edges[2 * a].now
    BY <1>2, <2>2
  <2>5. QED
    BY <2>1, <2>3, <2>4
<1>9. QED
  BY <1>7, <1>8

\* The range that holds a record lies on a line
LEMMA HeldIs ==
  ASSUME Written, NEW r, r.from \in Nat, r.to \in Nat, NEW m \in Held(r)
  PROVE  /\ m \in Copied /\ m.from <= r.from /\ r.to <= m.to
         /\ \E c \in DOMAIN lines : CopiedOn(m, c)
<1>1. m \in moved /\ m.from <= r.from /\ r.to <= m.to
  BY DEF Held, LastFrom
<1>2. m \in Copied
  BY <1>1 DEF Written, WriteTyped
<1>3. \E c \in Begun : CopiedOn(m, c)
  BY <1>1 DEF Written, MovedOK
<1>4. QED
  BY <1>1, <1>2, <1>3 DEF Written

LEMMA BlockPlace ==
  ASSUME Written, NEW a \in DOMAIN lines, NEW b \in DOMAIN lines, NEW r,
         r = [from |-> lines[a].start, to |-> lines[b].end], r.from < r.to,
         LinkOf(r) = {}, \A n \in DOMAIN kept : kept[n] # r
  PROVE  PlaceOf(r) = [s |-> edges[2 * a - 1].now + 1, e |-> edges[2 * b].now + 1]
<1>1. PlanTyped /\ CutOK
  BY DEF Written, PlanOK
<1>2. /\ a \in Nat /\ b \in Nat /\ r.from \in Nat /\ r.to \in Nat
      /\ r.from = lines[a].start /\ r.to = lines[b].end /\ a <= b
  BY <1>1, LinesApart
<1>3. CASE Held(r) # {}
  <2> DEFINE m == CHOOSE x \in Held(r) : TRUE
  <2>1. m \in Held(r)
    BY <1>3
  <2>2. PlaceOf(r) = [s |-> m.at + r.from - m.from + 1, e |-> m.at + r.to - m.from + 1]
    BY <1>3 DEF PlaceOf
  <2> HIDE DEF m
  <2>3. m \in Copied /\ m.from <= r.from /\ r.to <= m.to
    BY <1>2, <2>1, HeldIs
  <2>4. PICK c \in DOMAIN lines : CopiedOn(m, c)
    BY <1>2, <2>1, HeldIs
  <2>5. m.from \in Nat /\ m.to \in Nat /\ m.at \in Nat
    BY <2>3 DEF Copied
  <2>6. lines[c].start <= m.from /\ m.to <= lines[c].end
    BY <2>4 DEF CopiedOn
  <2>7. /\ lines[c].start \in Nat /\ lines[c].end \in Nat /\ c \in Nat
        /\ lines[b].start <= lines[b].end /\ lines[b].start \in Nat /\ lines[b].end \in Nat
        /\ lines[a].start <= lines[a].end /\ lines[a].start \in Nat /\ lines[a].end \in Nat
    BY <1>1, LinesApart
  <2>8. c <= a
    <3>1. lines[c].start <= lines[a].end
      BY <1>2, <2>3, <2>5, <2>6, <2>7
    <3>2. QED
      BY <1>1, <3>1, LinesApart
  <2>9. b <= c
    <3>1. lines[b].start <= lines[c].end
      BY <1>2, <2>3, <2>5, <2>6, <2>7
    <3>2. QED
      BY <1>1, <3>1, LinesApart
  <2>10. c = a /\ b = a
    BY <1>2, <2>7, <2>8, <2>9
  <2>11. m.from = r.from /\ m.to = r.to
    BY <1>2, <2>3, <2>5, <2>6, <2>7, <2>10
  <2>12. ASSUME NEW n \in Nums(lines[c].pieces), kept[n] # NoRange, kept[n].from = m.from, kept[n].to = m.to
         PROVE  FALSE
    <3>1. n \in DOMAIN kept
      BY DEF Written, PlanOK, CutKept, Inside
    <3>2. kept[n] \in Span
      BY <1>1, <3>1 DEF PlanTyped
    <3>3. kept[n] = r
      BY <1>2, <2>11, <2>12, <3>2 DEF Span
    <3>4. QED
      BY <3>1, <3>3
  <2>13. m.at = edges[2 * a - 1].now /\ m.at + m.to - m.from = edges[2 * a].now
    BY <2>4, <2>10, <2>12 DEF CopiedOn
  <2>14. m.at + r.from - m.from + 1 = edges[2 * a - 1].now + 1 /\ m.at + r.to - m.from + 1 = edges[2 * b].now + 1
    BY <1>2, <2>5, <2>10, <2>11, <2>13
  <2>15. QED
    BY <2>2, <2>14
<1>4. CASE Held(r) = {}
  <2>1. PlaceOf(r) = [s |-> Land(r.from, FALSE), e |-> Land(r.to, TRUE)]
    BY <1>4 DEF PlaceOf
  <2>2. QED
    BY <1>2, <2>1, LandsOnEdge
<1>5. QED
  BY <1>3, <1>4

LEMMA LinkPlace ==
  ASSUME Written, NEW l \in DOMAIN links, NEW r, r = [from |-> links[l].from, to |-> links[l].to], Found(r)
  PROVE  \E a \in DOMAIN lines :
           /\ lines[a].start <= links[l].from /\ links[l].to <= lines[a].end
           /\ edges[2 * a - 1].now <= PlaceOf(r).s - 1 /\ PlaceOf(r).e - 1 <= edges[2 * a].now
<1>1. PlanTyped /\ CutOK /\ LinksOK
  BY DEF Written, PlanOK
<1>2. links[l].from \in Nat /\ links[l].to \in Nat /\ r.from = links[l].from /\ r.to = links[l].to /\ r.from < r.to
  <2>1. links[l] \in Link
    BY <1>1 DEF PlanTyped
  <2>2. links[l].from < links[l].to
    BY <1>1 DEF LinksOK
  <2>3. QED
    BY <2>1, <2>2 DEF Link
<1>3. PlaceOf(r).s # 0
  BY DEF Found
<1>4. CASE Held(r) # {}
  <2> DEFINE m == CHOOSE x \in Held(r) : TRUE
  <2>1. m \in Held(r)
    BY <1>4
  <2>2. PlaceOf(r).s = m.at + r.from - m.from + 1 /\ PlaceOf(r).e = m.at + r.to - m.from + 1
    BY <1>4 DEF PlaceOf
  <2> HIDE DEF m
  <2>3. m \in Copied /\ m.from <= r.from /\ r.to <= m.to
    BY <1>2, <2>1, HeldIs
  <2>4. PICK c \in DOMAIN lines : CopiedOn(m, c)
    BY <1>2, <2>1, HeldIs
  <2>5. m.from \in Nat /\ m.to \in Nat /\ m.at \in Nat
    BY <2>3 DEF Copied
  <2>6. /\ lines[c].start <= m.from /\ m.to <= lines[c].end
        /\ edges[2 * c - 1].now <= m.at /\ m.at + m.to - m.from <= edges[2 * c].now
    BY <2>4 DEF CopiedOn, Written
  <2>7. /\ lines[c].start \in Nat /\ lines[c].end \in Nat /\ edges[2 * c - 1].now \in Nat /\ edges[2 * c].now \in Nat
    BY <1>1, LinesApart DEF Written
  <2>8. lines[c].start <= links[l].from /\ links[l].to <= lines[c].end
    BY <1>2, <2>3, <2>5, <2>6, <2>7
  <2>9. edges[2 * c - 1].now <= PlaceOf(r).s - 1 /\ PlaceOf(r).e - 1 <= edges[2 * c].now
    BY <1>2, <2>2, <2>3, <2>5, <2>6, <2>7
  <2>10. QED
    BY <2>8, <2>9
<1>5. CASE Held(r) = {}
  <2> DEFINE j == CHOOSE x \in LinkOf(r) : TRUE
             n == links[j].n
  <2>1. l \in LinkOf(r)
    BY <1>2 DEF LinkOf
  <2>2. j \in LinkOf(r)
    BY <2>1
  <2>3. PlaceOf(r) = landed[n]
    BY <1>5, <2>1 DEF PlaceOf
  <2> HIDE DEF j
  <2>4. j \in DOMAIN links /\ links[j].from = r.from /\ links[j].to = r.to
    BY <2>2 DEF LinkOf
  <2>5. PICK a \in DOMAIN lines : LinkOn(links[j], lines[a].pieces, lines[a].start, lines[a].end)
    BY <1>1, <2>4 DEF LinksOK, Written
  <2>6. n \in Nums(lines[a].pieces) /\ lines[a].start <= links[l].from /\ links[l].to <= lines[a].end
    BY <1>2, <2>4, <2>5 DEF LinkOn
  <2>7. n \in DOMAIN kept
    BY <2>6 DEF Written, PlanOK, CutKept, Inside
  <2> HIDE DEF n
  <2>8. landed[n].s \in Nat /\ landed[n].e \in Nat
    BY <2>7 DEF Written, LandedOK, Place
  <2>9. landed[n] # Nowhere
    BY <1>3, <2>3 DEF Nowhere
  <2>10. PICK c \in DOMAIN lines : /\ n \in Nums(lines[c].pieces)
                                   /\ edges[2 * c - 1].now < landed[n].s /\ landed[n].e <= edges[2 * c].now + 1
    BY <2>7, <2>9 DEF Written, LandedOK
  <2>11. c = a
    <3>1. c \in Nat /\ a \in Nat
      BY <1>1, LinesAre
    <3>2. ~(c < a) /\ ~(a < c)
      BY <1>1, <2>6, <2>10 DEF CutOK
    <3>3. QED
      BY <3>1, <3>2
  <2>12. edges[2 * a - 1].now \in Nat /\ edges[2 * a].now \in Nat
    BY DEF Written
  <2>13. edges[2 * a - 1].now <= PlaceOf(r).s - 1 /\ PlaceOf(r).e - 1 <= edges[2 * a].now
    BY <2>3, <2>8, <2>10, <2>11, <2>12
  <2>14. QED
    BY <2>6, <2>13
<1>6. QED
  BY <1>4, <1>5

\* What the invariant says of a state with nothing more to write, but of its records
LEMMA Settled ==
  ASSUME Inv, phase # "planning", phase # "writing", phase' # "planning", phase' # "writing",
         phase' \in {"answering", "writing", "done"}, UNCHANGED <<page, planVars, writeVars>>, RecordsOK'
  PROVE  Inv'
<1>1. /\ line' = line /\ rest' = rest /\ opened' = opened /\ put' = put /\ text' = text /\ edges' = edges
      /\ moved' = moved /\ landed' = landed
  BY DEF writeVars
<1>2. PlanTyped' /\ PlanOK' /\ lines' = lines /\ kept' = kept /\ page' = page
  BY PlanStays
<1>3. WriteTyped' /\ RangesApart'
  BY <1>1 DEF Inv, WriteTyped, RangesApart
<1>4. Begun' = Begun
  BY <1>1, <1>2 DEF Begun
<1>5. EdgesOK /\ MovedOK /\ LandedOK
  BY DEF Inv, WriteOK
<1>6. EdgesOK'
  BY <1>1, <1>2, <1>4, <1>5 DEF EdgesOK, Sofar
<1>7. MovedOK'
  BY <1>1, <1>2, <1>4, <1>5 DEF MovedOK, CopiedOn, Sofar
<1>8. LandedOK'
  BY <1>1, <1>2, <1>4, <1>5 DEF LandedOK, Sofar
<1>9. OpenedOK'
  BY DEF OpenedOK
<1>10. QED
  BY <1>2, <1>3, <1>6, <1>7, <1>8, <1>9 DEF Inv, WriteOK

LEMMA PlaceRecordsKeeps == ASSUME Inv, PlaceRecords PROVE Inv'
<1>1. /\ phase = "answering" /\ phase' = "done" /\ line > Len(lines)
      /\ UNCHANGED <<page, planVars, writeVars>>
      /\ lines' = lines /\ kept' = kept /\ links' = links /\ page' = page /\ edges' = edges
  BY DEF PlaceRecords, planVars, writeVars
<1>2. records' = {[r |-> r, s |-> PlaceOf(r).s - 1, e |-> PlaceOf(r).e - 1] : r \in {x \in Ranges : Found(x)}}
  BY DEF PlaceRecords
<1>3. Written
  BY <1>1, AllWritten
<1>4. Ranges' = Ranges
  BY <1>1 DEF Ranges, Blocks
<1>5. BlocksStay'
  <2> SUFFICES ASSUME NEW a \in DOMAIN lines, NEW b \in DOMAIN lines, NEW r,
                      r = [from |-> lines[a].start, to |-> lines[b].end],
                      r \in Ranges, LinkOf(r) = {}, \A n \in DOMAIN kept : kept[n] # r,
                      edges[2 * a - 1].now < edges[2 * b].now
               PROVE  [r |-> r, s |-> edges[2 * a - 1].now, e |-> edges[2 * b].now] \in records'
    BY <1>1, <1>4 DEF BlocksStay, LinkOf
  <2>1. r.from < r.to
    <3>1. page \in Pages
      BY <1>3 DEF Written, PlanTyped
    <3>2. \A k \in page.keep \cup page.sent : k.from < k.to
      BY <3>1, PageIs
    <3>3. QED
      BY <3>2 DEF Ranges
  <2>2. PlaceOf(r) = [s |-> edges[2 * a - 1].now + 1, e |-> edges[2 * b].now + 1]
    BY <1>3, <2>1, BlockPlace
  <2>3. edges[2 * a - 1].now \in Nat /\ edges[2 * b].now \in Nat
    BY <1>3 DEF Written
  <2>4. /\ PlaceOf(r).s = edges[2 * a - 1].now + 1 /\ PlaceOf(r).e = edges[2 * b].now + 1
        /\ PlaceOf(r).s - 1 = edges[2 * a - 1].now /\ PlaceOf(r).e - 1 = edges[2 * b].now
    BY <2>2, <2>3
  <2>5. Found(r)
    BY <2>3, <2>4 DEF Found
  <2>6. QED
    BY <1>2, <2>4, <2>5
<1>6. LinksStayOnTheirLine'
  <2> SUFFICES ASSUME NEW l \in DOMAIN links, NEW x \in records', NEW r,
                      r = [from |-> links[l].from, to |-> links[l].to], x.r = r
               PROVE  \E a \in DOMAIN lines :
                        /\ lines[a].start <= links[l].from /\ links[l].to <= lines[a].end
                        /\ edges[2 * a - 1].now <= x.s /\ x.e <= edges[2 * a].now
    BY <1>1 DEF LinksStayOnTheirLine
  <2>1. PICK o \in Ranges : Found(o) /\ x = [r |-> o, s |-> PlaceOf(o).s - 1, e |-> PlaceOf(o).e - 1]
    BY <1>2
  <2>2. o = r
    BY <2>1
  <2>3. x.s = PlaceOf(r).s - 1 /\ x.e = PlaceOf(r).e - 1 /\ Found(r)
    BY <2>1, <2>2
  <2>4. QED
    BY <1>3, <2>3, LinkPlace
<1>7. QED
  BY <1>1, <1>5, <1>6, Settled DEF RecordsOK

LEMMA StutterKeeps == ASSUME Inv, UNCHANGED vars PROVE Inv'
<1>1. /\ page' = page /\ phase' = phase /\ i' = i /\ from' = from /\ outer' = outer /\ closes' = closes
      /\ pieces' = pieces /\ lines' = lines /\ kept' = kept /\ links' = links
      /\ line' = line /\ rest' = rest /\ opened' = opened /\ put' = put /\ text' = text /\ edges' = edges
      /\ moved' = moved /\ landed' = landed /\ records' = records
  BY DEF vars, planVars, writeVars
<1>2. End' = End /\ LineStart' = LineStart /\ Begun' = Begun
  BY <1>1 DEF End, LineStart, Begun
<1>3. LineEnd' = LineEnd
  BY <1>1, <1>2 DEF LineEnd, CharAt
<1>4. PlanTyped' /\ WriteTyped'
  BY <1>1 DEF Inv, PlanTyped, WriteTyped
<1>5. PlanOK'
  <2>1. CutOK' /\ InOrder(kept') /\ CutKept(kept)'
    BY <1>1, <1>2 DEF Inv, PlanOK, CutOK, CutKept
  <2>2. LinksOK'
    BY <1>1, <1>2, <1>3 DEF Inv, PlanOK, LinksOK
  <2>3. phase' = "planning" => PlanningOK'
    BY <1>1, <1>2, <1>3 DEF Inv, PlanOK, PlanningOK, Numbered, CutKept
  <2>4. QED
    BY <2>1, <2>2, <2>3 DEF PlanOK
<1>6. phase' # "planning" => WriteOK' /\ RangesApart'
  <2> SUFFICES ASSUME phase # "planning" PROVE WriteOK' /\ RangesApart'
    BY <1>1
  <2>1. EdgesOK /\ MovedOK /\ LandedOK /\ OpenedOK /\ RangesApart
    BY DEF Inv, WriteOK
  <2>2. EdgesOK' /\ OpenedOK' /\ RangesApart'
    BY <1>1, <1>2, <2>1 DEF EdgesOK, OpenedOK, RangesApart, Sofar, Cut
  <2>3. MovedOK'
    BY <1>1, <1>2, <2>1 DEF MovedOK, CopiedOn, Sofar
  <2>4. LandedOK'
    BY <1>1, <1>2, <2>1 DEF LandedOK, Sofar
  <2>5. QED
    BY <2>2, <2>3, <2>4 DEF WriteOK
<1>7. RecordsOK'
  <2>1. Ranges' = Ranges
    BY <1>1 DEF Ranges, Blocks
  <2>2. QED
    BY <1>1, <2>1 DEF Inv, RecordsOK, BlocksStay, LinksStayOnTheirLine, LinkOf
<1>8. QED
  BY <1>4, <1>5, <1>6, <1>7 DEF Inv

LEMMA NextKeeps == Inv /\ [Next]_vars => Inv'
<1> SUFFICES ASSUME Inv, [Next]_vars PROVE Inv'
  OBVIOUS
<1>1. CASE CloseLink
  BY <1>1, CloseLinkKeeps
<1>2. CASE OpenLink
  BY <1>2, OpenLinkKeeps
<1>3. CASE KeepPart
  BY <1>3, KeepPartKeeps
<1>4. CASE Advance
  BY <1>4, AdvanceKeeps
<1>5. CASE EndLine
  BY <1>5, EndLineKeeps
<1>6. CASE TakeLine
  BY <1>6, TakeLineKeeps
<1>7. CASE TakeWord
  BY <1>7, TakeWordKeeps
<1>8. CASE TakeOpen
  BY <1>8, TakeOpenKeeps
<1>9. CASE TakeClose
  BY <1>9, TakeCloseKeeps
<1>10. CASE TakeKept
  BY <1>10, TakeKeptKeeps
<1>11. CASE TakeLost
  BY <1>11, TakeLostKeeps
<1>12. CASE EndAnswer
  BY <1>12, EndAnswerKeeps
<1>13. CASE PlaceRecords
  BY <1>13, PlaceRecordsKeeps
<1>14. CASE Done \/ UNCHANGED vars
  BY <1>14, StutterKeeps DEF Done
<1>15. QED
  BY <1>1, <1>2, <1>3, <1>4, <1>5, <1>6, <1>7, <1>8, <1>9, <1>10, <1>11, <1>12, <1>13, <1>14
     DEF Next, Planning, Write

LEMMA AlwaysInv == Spec => []Inv
<1>1. Init => Inv
  BY InitInv
<1>2. QED
  BY <1>1, NextKeeps, PTL DEF Spec

-----------------------------------------------------------------------------
\* What becomes of the kept parts.  A stretch of a kept part on one line
KeptRun(a, b) ==
  /\ a < b
  /\ \E k \in Spared : k.from <= a /\ b <= k.to
  /\ \A p \in a..(b - 1) : CharAt(p) # "newline"

\* One of the parts k holds it
Covered(k, a, b) == \E n \in DOMAIN k : k[n].from <= a /\ b <= k[n].to

\* What is left of a part not yet cut begins where the part does, or where a line does
RestOfPart(o) ==
  \E k \in page.keep : /\ k.from <= o.from /\ o.to = k.to /\ o.dropped = k.dropped
                       /\ o.from = k.from \/ CharAt(o.from - 1) = "newline"

OuterOK(o) ==
  /\ \A a, b \in DOMAIN o : a < b => o[a].to <= o[b].from
  /\ \A a \in DOMAIN o : RestOfPart(o[a])

\* None of them goes on across the place reached, and those to come are all there
OuterAhead(o, at) ==
  /\ \A a \in DOMAIN o : o[a].from < at => o[a].to <= at
  /\ \A a, b \in Nat : KeptRun(a, b) /\ at <= a =>
       \E j \in DOMAIN o : ~o[j].dropped /\ o[j].from <= a /\ b <= o[j].to

\* The parts passed have numbers, and each number is a line's
RunsCut(k, at) == \A a, b \in Nat : KeptRun(a, b) /\ a < at => Covered(k, a, b)

Given ==
  \A n \in DOMAIN kept :
    \/ \E a \in DOMAIN lines : n \in Nums(lines[a].pieces)
    \/ phase = "planning" /\ n \in Nums(pieces)

PartsOK ==
  /\ Given
  /\ phase = "planning" => OuterOK(outer)
  /\ ~RunsOverEmptyLine =>
       /\ phase = "planning" => OuterAhead(outer, i) /\ RunsCut(kept, i)
       /\ phase # "planning" => RunsCut(kept, End)

\* Each range mv is in the new text t, which holds nothing else of the old one
TextOf(t, mv) ==
  /\ \A m \in mv : /\ m.to <= End /\ m.at + m.to - m.from <= Len(t)
                   /\ \A p \in m.from..(m.to - 1) : t[m.at + p - m.from + 1] = p
  /\ \A x \in DOMAIN t : \/ t[x] \in {NewWord, Newline}
                         \/ \E m \in mv : m.at < x /\ x <= m.at + m.to - m.from

\* The parts of the lines written, and of this line as far as they were put, are copied
PutOK ==
  \A a \in Begun : \A n \in Nums(lines[a].pieces) :
    kept[n] # NoRange /\ (a < line \/ n \in put) => \E m \in moved : m.from <= kept[n].from /\ kept[n].to <= m.to

KeptInv ==
  /\ PartsOK
  /\ phase # "planning" => TextOf(text, moved) /\ PutOK
  /\ phase = "done" => line > Len(lines)

(***************************************************************************)
(* Every kept part is in an outermost one, unless a dropped domain takes   *)
(* its beginning                                                           *)
(***************************************************************************)
\* The parts of s are apart, and what does not come after them is in them
Gathered(s) ==
  /\ \A a, b \in DOMAIN s : a < b => s[a].to <= s[b].from
  /\ \A k \in Spared : k \in Past(s) \/ \E j \in DOMAIN s : ~s[j].dropped /\ Holds(s[j], k)

LEMMA OneMoreGathers ==
  ASSUME page \in Pages, NEW s \in Seq(page.keep), Gathered(s)
  PROVE  /\ Gathered(OneMore(s))
         /\ Past(s) # {} => Past(OneMore(s)) \subseteq Past(s) \ {Foremost(Past(s))}
<1>1. CASE Past(s) = {}
  BY <1>1 DEF OneMore
<1>2. CASE Past(s) # {}
  <2> DEFINE f == Foremost(Past(s))
             t == OneMore(s)
             l == Len(s)
  <2>1. f \in Past(s) /\ f \in page.keep
    BY <1>2, OneMoreIs DEF Past
  <2>2. t = Append(s, f)
    BY <1>2 DEF OneMore
  <2>3. \A o \in Past(s) : f.from < o.from \/ (f.from = o.from /\ f.to >= o.to)
    BY <1>2, ForemostIs DEF Past
  <2> HIDE DEF f, t
  <2>4. /\ t \in Seq(page.keep) /\ Len(t) = l + 1 /\ l \in Nat /\ DOMAIN t = 1..(l + 1) /\ DOMAIN s = 1..l
        /\ t[l + 1] = f /\ (\A j \in 1..l : t[j] = s[j]) /\ Last(t) = f /\ t # <<>>
    BY <2>1, <2>2 DEF Last
  <2>5. \A k \in page.keep : k.from \in Nat /\ k.to \in Nat /\ k.from < k.to
    BY PageIs
  <2>6. \A j \in 1..l : s[j] \in page.keep
    BY <2>4
  <2>7. \A j \in 1..l : s[j].to <= f.from
    <3>1. ASSUME NEW j \in 1..l PROVE s[j].to <= f.from
      <4>1. s # <<>> /\ Last(s) = s[l] /\ l \in 1..l
        BY <2>4 DEF Last
      <4>2. f.from >= s[l].to
        BY <2>1, <4>1 DEF Past
      <4>3. CASE j = l
        BY <2>1, <2>5, <2>6, <4>1, <4>2, <4>3
      <4>4. CASE j < l
        <5>1. s[j].to <= s[l].from
          BY <2>4, <4>1, <4>4 DEF Gathered
        <5>2. s[j] \in page.keep /\ s[l] \in page.keep
          BY <2>6, <4>1
        <5>3. QED
          BY <2>1, <2>5, <4>2, <5>1, <5>2
      <4>5. QED
        BY <2>4, <4>3, <4>4
    <3>2. QED
      BY <3>1
  <2>8. ASSUME NEW a \in DOMAIN t, NEW b \in DOMAIN t, a < b PROVE t[a].to <= t[b].from
    <3>1. a \in 1..l
      BY <2>4, <2>8
    <3>2. CASE b = l + 1
      BY <2>4, <2>7, <3>1, <3>2
    <3>3. CASE b \in 1..l
      BY <2>4, <2>8, <3>1, <3>3 DEF Gathered
    <3>4. QED
      BY <2>4, <3>2, <3>3
  <2>9. Past(t) = {k \in page.keep : k.from >= f.to}
    BY <2>4 DEF Past
  <2>10. \A k \in page.keep : k \in Past(s) \/ ~(k.from >= f.to)
    <3>1. CASE s = <<>>
      BY <3>1 DEF Past
    <3>2. CASE s # <<>>
      <4>1. Last(s) = s[l] /\ l \in 1..l
        BY <2>4, <3>2 DEF Last
      <4>2. s[l].to <= f.from /\ s[l].to \in Nat /\ f.from \in Nat /\ f.to \in Nat /\ f.from < f.to
        BY <2>1, <2>5, <2>6, <2>7, <4>1
      <4>3. ASSUME NEW k \in page.keep, k.from >= f.to PROVE k.from >= Last(s).to
        BY <2>5, <4>1, <4>2, <4>3
      <4>4. QED
        BY <4>3 DEF Past
    <3>3. QED
      BY <3>1, <3>2
  <2>11. Past(t) \subseteq Past(s) \ {f}
    BY <2>1, <2>5, <2>9, <2>10
  <2>12. ASSUME NEW k \in Spared, k \notin Past(t) PROVE \E j \in DOMAIN t : ~t[j].dropped /\ Holds(t[j], k)
    <3>1. CASE k \notin Past(s)
      <4>1. PICK j \in DOMAIN s : ~s[j].dropped /\ Holds(s[j], k)
        BY <3>1 DEF Gathered
      <4>2. QED
        BY <2>4, <4>1
    <3>2. CASE k \in Past(s)
      <4>0. k \in page.keep /\ ~k.dropped
        BY DEF Spared
      <4>1. k.from < f.to /\ (f.from < k.from \/ (f.from = k.from /\ f.to >= k.to))
        BY <2>1, <2>3, <2>5, <2>9, <2>12, <3>2, <4>0
      <4>7. ~f.dropped
        BY <2>1, <2>5, <4>0, <4>1 DEF Spared
      <4>2. f.to <= k.from \/ k.to <= f.from \/ Holds(f, k) \/ Holds(k, f)
        BY <2>1, <4>0, <4>7, PagesArePages
      <4>3. f.from \in Nat /\ f.to \in Nat /\ k.from \in Nat /\ k.to \in Nat /\ k.from < k.to /\ f.from < f.to
        BY <2>1, <2>5, <4>0
      <4>4. CASE Holds(f, k)
        BY <2>4, <4>4, <4>7
      <4>5. CASE Holds(k, f)
        BY <2>4, <4>1, <4>3, <4>5, <4>7 DEF Holds
      <4>6. QED
        BY <4>1, <4>2, <4>3, <4>4, <4>5
    <3>3. QED
      BY <3>1, <3>2
  <2>13. Gathered(t)
    BY <2>8, <2>12 DEF Gathered
  <2>14. QED
    BY <2>11, <2>13 DEF f, t
<1>3. QED
  BY <1>1, <1>2

LEMMA OutermostGathers ==
  ASSUME page \in Pages
  PROVE  /\ \A a, b \in DOMAIN Outermost(page.keep) : a < b => Outermost(page.keep)[a].to <= Outermost(page.keep)[b].from
         /\ \A k \in Spared : \E j \in DOMAIN Outermost(page.keep) :
              ~Outermost(page.keep)[j].dropped /\ Holds(Outermost(page.keep)[j], k)
<1> DEFINE c == Cardinality(page.keep)
<1>1. PICK h \in [Nat -> Seq(page.keep)] :
        h[0] = <<>> /\ (\A k \in Nat : h[k + 1] = OneMore(h[k])) /\ Outermost(page.keep) = h[c]
  BY OutermostRuns
<1>2. IsFiniteSet(page.keep) /\ c \in Nat
  BY PagesArePages, FS_CardinalityType
<1> HIDE DEF c
<1> DEFINE Fewer(k) == IsFiniteSet(Past(h[k])) /\ (Past(h[k]) = {} \/ Cardinality(Past(h[k])) + k <= c)
           S == {k \in Nat : Gathered(h[k]) /\ Fewer(k)}
<1>3. 0 \in S
  <2>1. Past(h[0]) = page.keep
    BY <1>1 DEF Past
  <2>2. Gathered(h[0])
    <3>1. DOMAIN h[0] = {}
      BY <1>1
    <3>2. QED
      BY <2>1, <3>1 DEF Gathered, Spared
  <2>3. Cardinality(Past(h[0])) + 0 <= c
    BY <1>2, <2>1 DEF c
  <2>4. QED
    BY <1>2, <2>1, <2>2, <2>3
<1>4. ASSUME NEW k \in S PROVE k + 1 \in S
  <2>1. k \in Nat /\ k + 1 \in Nat /\ Gathered(h[k]) /\ Fewer(k) /\ h[k] \in Seq(page.keep) /\ h[k + 1] = OneMore(h[k])
    BY <1>1
  <2> DEFINE P == Past(h[k])
             Q == Past(h[k + 1])
             f == Foremost(P)
  <2>2. Gathered(h[k + 1]) /\ (P # {} => Q \subseteq P \ {f} /\ f \in P)
    BY <2>1, OneMoreGathers, OneMoreIs
  <2>3. CASE P = {}
    <3>1. h[k + 1] = h[k]
      BY <2>1, <2>3 DEF OneMore
    <3>2. QED
      BY <2>1, <2>2, <2>3, <3>1
  <2>4. CASE P # {}
    <3> HIDE DEF P, Q, f
    <3>1. IsFiniteSet(P) /\ Cardinality(P) + k <= c
      BY <2>1, <2>4 DEF P
    <3>2. f \in P /\ Q \subseteq P \ {f}
      BY <2>2, <2>4
    <3>3. IsFiniteSet(P \ {f}) /\ Cardinality(P \ {f}) = Cardinality(P) - 1 /\ Cardinality(P) \in Nat
      BY <3>1, <3>2, FS_RemoveElement, FS_CardinalityType
    <3>4. IsFiniteSet(Q) /\ Cardinality(Q) <= Cardinality(P \ {f}) /\ Cardinality(Q) \in Nat
      BY <3>2, <3>3, FS_Subset, FS_CardinalityType
    <3>5. Cardinality(Q) + (k + 1) <= c
      BY <1>2, <2>1, <3>1, <3>3, <3>4
    <3>6. QED
      BY <2>1, <2>2, <3>4, <3>5 DEF Q
  <2>5. QED
    BY <2>3, <2>4
<1>5. S = Nat
  <2>1. S \in SUBSET Nat
    OBVIOUS
  <2> HIDE DEF S
  <2>2. QED
    BY <1>3, <1>4, <2>1, EveryNumber
<1>6. Gathered(h[c]) /\ Fewer(c)
  BY <1>2, <1>5
<1>7. Past(h[c]) = {}
  <2>1. CASE Cardinality(Past(h[c])) + c <= c
    <3>1. IsFiniteSet(Past(h[c])) /\ Cardinality(Past(h[c])) \in Nat
      BY <1>6, FS_CardinalityType
    <3>2. Cardinality(Past(h[c])) = 0
      BY <1>2, <2>1, <3>1
    <3>3. QED
      BY <3>1, <3>2, FS_EmptySet
  <2>2. QED
    BY <1>6, <2>1
<1>8. QED
  BY <1>1, <1>6, <1>7 DEF Gathered

(***************************************************************************)
(* Cutting the kept parts                                                  *)
(***************************************************************************)
LEMMA OuterIs ==
  ASSUME page \in Pages
  PROVE  /\ OuterOK(Outermost(page.keep)) /\ OuterAhead(Outermost(page.keep), 0)
<1> DEFINE o == Outermost(page.keep)
<1>1. o \in Seq(page.keep)
  BY OutermostIs
<1>2. /\ \A a, b \in DOMAIN o : a < b => o[a].to <= o[b].from
      /\ \A k \in Spared : \E j \in DOMAIN o : ~o[j].dropped /\ Holds(o[j], k)
  BY OutermostGathers
<1> HIDE DEF o
<1>3. \A a \in DOMAIN o : o[a] \in page.keep
  BY <1>1
<1>4. \A k \in page.keep : k.from \in Nat /\ k.to \in Nat
  BY PageIs
<1>5. OuterOK(o)
  BY <1>2, <1>3, <1>4 DEF OuterOK, RestOfPart
<1>6. ASSUME NEW a \in Nat, NEW b \in Nat, KeptRun(a, b)
      PROVE  \E j \in DOMAIN o : ~o[j].dropped /\ o[j].from <= a /\ b <= o[j].to
  <2>1. PICK k \in Spared : k.from <= a /\ b <= k.to
    BY <1>6 DEF KeptRun
  <2>2. PICK j \in DOMAIN o : ~o[j].dropped /\ Holds(o[j], k)
    BY <1>2
  <2>3. k \in page.keep
    BY DEF Spared
  <2>4. o[j].from <= a /\ b <= o[j].to
    BY <1>3, <1>4, <2>1, <2>2, <2>3 DEF Holds
  <2>5. QED
    BY <2>2, <2>4
<1>7. \A a \in DOMAIN o : ~(o[a].from < 0)
  BY <1>3, <1>4
<1>8. OuterAhead(o, 0)
  BY <1>6, <1>7 DEF OuterAhead
<1>9. QED
  BY <1>5, <1>8 DEF o

\* A line ends at a newline or the end of the text
LEMMA LineEndAt ==
  ASSUME page \in Pages, LineStart \in Nat, LineStart <= End
  PROVE  /\ LineEnd = End \/ CharAt(LineEnd) = "newline"
         /\ \A q \in LineStart..(LineEnd - 1) : CharAt(q) # "newline"
<1> DEFINE S == {p \in LineStart..End : p = End \/ CharAt(p) = "newline"}
<1>1. End \in Nat
  BY PageIs
<1>2. S \in SUBSET Nat /\ S # {}
  BY <1>1
<1>3. PICK d \in S : \A e \in S : d <= e
  BY <1>2, FirstExists
<1>4. d \in LineStart..End /\ (d = End \/ CharAt(d) = "newline")
  BY <1>3
<1>5. ASSUME NEW q \in LineStart..(d - 1) PROVE CharAt(q) # "newline"
  <2>1. q \in LineStart..End /\ ~(d <= q)
    BY <1>1, <1>4
  <2>2. QED
    BY <1>3, <2>1
<1>6. QED
  BY <1>4, <1>5 DEF LineEnd

\* The kept parts ahead are those not yet cut from some one on
LEMMA AheadFrom ==
  ASSUME PlanTyped
  PROVE  \E m \in Nat :
           /\ 0 < m /\ Ahead \in Seq(Part)
           /\ \A j \in DOMAIN Ahead : m + j - 1 \in DOMAIN outer /\ Ahead[j] = outer[m + j - 1]
           /\ \A j \in DOMAIN outer : j < m => outer[j].to <= i /\ outer[j].from < i
           /\ \A j \in DOMAIN outer : m <= j => j - m + 1 \in DOMAIN Ahead
           /\ Ahead # <<>> => Ahead[1].to > i \/ Ahead[1].from >= i
<1> DEFINE I == {j \in 1..Len(outer) : outer[j].to > i \/ outer[j].from >= i}
<1>1. outer \in Seq(Part) /\ Len(outer) \in Nat /\ I \in SUBSET (1..Len(outer)) /\ DOMAIN outer = 1..Len(outer)
  BY DEF PlanTyped
<1>2. \A j \in DOMAIN outer : outer[j].to \in Nat /\ outer[j].from \in Nat
  <2>1. \A j \in DOMAIN outer : outer[j] \in Part
    BY <1>1
  <2>2. QED
    BY <2>1 DEF Part
<1>3. i \in Nat
  BY DEF PlanTyped
<1>4. \A j \in DOMAIN outer : j \notin I => outer[j].to <= i /\ outer[j].from < i
  BY <1>1, <1>2, <1>3
<1>5. CASE I = {}
  <2>1. Ahead = <<>>
    BY <1>5 DEF Ahead, SelectInSeq
  <2>2. /\ 0 < Len(outer) + 1 /\ Len(outer) + 1 \in Nat /\ \A j \in DOMAIN outer : ~(Len(outer) + 1 <= j)
    BY <1>1
  <2> HIDE DEF I
  <2>3. Ahead \in Seq(Part) /\ DOMAIN Ahead = {}
    BY <2>1
  <2>4. QED
    BY <1>4, <1>5, <2>1, <2>2, <2>3
<1>6. CASE I # {}
  <2>1. Ahead = IF Min(I) = 0 THEN <<>> ELSE SubSeq(outer, Min(I), Len(outer))
    BY <1>6 DEF Ahead, SelectInSeq
  <2>2. I \in SUBSET Nat
    OBVIOUS
  <2>3. \E d \in I : \A e \in I : d <= e
    BY <1>6, <2>2, FirstExists
  <2> DEFINE m == Min(I)
  <2>4. m \in I /\ \A e \in I : m <= e
    BY <2>3 DEF Min
  <2>5. outer[m].to > i \/ outer[m].from >= i
    BY <2>4
  <2>6. \A j \in I : j \in Nat
    BY <2>2
  <2> HIDE DEF m, I
  <2>7. m \in 1..Len(outer)
    BY <1>1, <2>4
  <2>8. Ahead = SubSeq(outer, m, Len(outer))
    BY <2>1, <2>7 DEF m
  <2>9. \A j \in m..Len(outer) : outer[j] \in Part
    BY <1>1, <2>7
  <2>10. /\ Ahead \in Seq(Part)
         /\ Len(Ahead) = Len(outer) - m + 1
         /\ \A j \in 1..(Len(outer) - m + 1) : Ahead[j] = outer[m + j - 1]
    <3>1. /\ Ahead \in Seq(Part)
          /\ Len(Ahead) = IF m <= Len(outer) THEN Len(outer) - m + 1 ELSE 0
          /\ \A j \in 1..(Len(outer) - m + 1) : Ahead[j] = outer[m + j - 1]
      BY <1>1, <2>7, <2>8, <2>9, SubSeqProperties
    <3>2. QED
      BY <1>1, <2>7, <3>1
  <2>11. DOMAIN Ahead = 1..(Len(outer) - m + 1)
    BY <2>10
  <2>12. \A j \in DOMAIN Ahead : m + j - 1 \in DOMAIN outer /\ Ahead[j] = outer[m + j - 1]
    BY <1>1, <2>7, <2>10, <2>11
  <2>13. ASSUME NEW j \in DOMAIN outer, j < m PROVE outer[j].to <= i /\ outer[j].from < i
    <3>1. j \notin I
      BY <1>1, <2>4, <2>7, <2>13
    <3>2. QED
      BY <1>4, <3>1
  <2>14. \A j \in DOMAIN outer : m <= j => j - m + 1 \in DOMAIN Ahead
    BY <1>1, <2>7, <2>11
  <2>15. Ahead[1] = outer[m]
    <3>1. 1 \in DOMAIN Ahead /\ m + 1 - 1 = m
      BY <1>1, <2>7, <2>11
    <3>2. QED
      BY <2>12, <3>1
  <2>16. m \in Nat /\ 0 < m
    BY <1>1, <2>7
  <2>17. QED
    BY <2>5, <2>10, <2>12, <2>13, <2>14, <2>15, <2>16
<1>7. QED
  BY <1>5, <1>6

LEMMA AheadOK ==
  ASSUME PlanTyped, OuterOK(outer), \A j \in DOMAIN outer : outer[j].from <= outer[j].to
  PROVE  /\ OuterOK(Ahead)
         /\ OuterAhead(outer, i) => OuterAhead(Ahead, i) /\ \A a \in DOMAIN Ahead : i <= Ahead[a].from
<1>1. PICK m \in Nat :
           /\ 0 < m /\ Ahead \in Seq(Part)
           /\ \A j \in DOMAIN Ahead : m + j - 1 \in DOMAIN outer /\ Ahead[j] = outer[m + j - 1]
           /\ \A j \in DOMAIN outer : j < m => outer[j].to <= i /\ outer[j].from < i
           /\ \A j \in DOMAIN outer : m <= j => j - m + 1 \in DOMAIN Ahead
           /\ Ahead # <<>> => Ahead[1].to > i \/ Ahead[1].from >= i
  BY AheadFrom
<1>2. /\ \A j \in DOMAIN Ahead : j \in Nat /\ 1 <= j /\ 1 \in DOMAIN Ahead /\ Ahead # <<>>
                                 /\ Ahead[j].from \in Nat /\ Ahead[j].to \in Nat
      /\ i \in Nat
  <2>1. \A j \in DOMAIN Ahead : j \in Nat /\ 1 <= j /\ 1 \in DOMAIN Ahead /\ Ahead # <<>> /\ Ahead[j] \in Part
    BY <1>1
  <2>2. QED
    BY <2>1 DEF PlanTyped, Part
<1>3. \A j \in DOMAIN Ahead : Ahead[j].from <= Ahead[j].to
  BY <1>1
<1>4. OuterOK(Ahead)
  <2>1. ASSUME NEW a \in DOMAIN Ahead, NEW b \in DOMAIN Ahead, a < b PROVE Ahead[a].to <= Ahead[b].from
    <3>1. m + a - 1 < m + b - 1
      BY <1>2, <2>1
    <3>2. QED
      BY <1>1, <3>1 DEF OuterOK
  <2>2. QED
    BY <1>1, <2>1 DEF OuterOK
<1>5. ASSUME OuterAhead(outer, i) PROVE OuterAhead(Ahead, i) /\ \A a \in DOMAIN Ahead : i <= Ahead[a].from
  <2>1. ASSUME NEW a \in DOMAIN Ahead PROVE i <= Ahead[a].from
    <3>1. i <= Ahead[1].from
      <4>1. Ahead[1].from < i => Ahead[1].to <= i
        BY <1>1, <1>2, <1>5 DEF OuterAhead
      <4>2. Ahead[1].from \in Nat /\ Ahead[1].to \in Nat /\ (Ahead[1].to > i \/ Ahead[1].from >= i)
        BY <1>1, <1>2
      <4>3. QED
        BY <1>2, <4>1, <4>2
    <3>2. CASE a = 1
      BY <3>1, <3>2
    <3>3. CASE a # 1
      <4>1. Ahead[1].to <= Ahead[a].from
        BY <1>2, <1>4, <3>3 DEF OuterOK
      <4>2. Ahead[1].from <= Ahead[1].to
        BY <1>2, <1>3
      <4>3. QED
        BY <1>2, <3>1, <4>1, <4>2
    <3>4. QED
      BY <3>2, <3>3
  <2>2. ASSUME NEW a \in Nat, NEW b \in Nat, KeptRun(a, b), i <= a
        PROVE  \E j \in DOMAIN Ahead : ~Ahead[j].dropped /\ Ahead[j].from <= a /\ b <= Ahead[j].to
    <3>1. PICK j \in DOMAIN outer : ~outer[j].dropped /\ outer[j].from <= a /\ b <= outer[j].to
      BY <1>5, <2>2 DEF OuterAhead
    <3>2. a < b
      BY <2>2 DEF KeptRun
    <3>3. j \in Nat /\ outer[j].to \in Nat
      <4>1. outer \in Seq(Part)
        BY DEF PlanTyped
      <4>2. outer[j] \in Part /\ j \in Nat
        BY <4>1
      <4>3. QED
        BY <4>2 DEF Part
    <3>4. ~(outer[j].to <= i)
      BY <1>2, <2>2, <3>1, <3>2, <3>3
    <3>5. m <= j
      BY <1>1, <3>3, <3>4
    <3>6. j - m + 1 \in DOMAIN Ahead
      BY <1>1, <3>5
    <3>7. m + (j - m + 1) - 1 = j
      BY <1>1, <3>3
    <3>8. Ahead[j - m + 1] = outer[j]
      BY <1>1, <3>6, <3>7
    <3>9. QED
      BY <3>1, <3>6, <3>8
  <2>3. \A a \in DOMAIN Ahead : ~(Ahead[a].from < i)
    BY <1>2, <2>1
  <2>4. QED
    BY <2>1, <2>2, <2>3 DEF OuterAhead
<1>6. QED
  BY <1>4, <1>5

\* Words take nothing from the parts, and a number given while they are flushed is the line's
LEMMA FlushGives ==
  ASSUME PlanTyped, CutOK, PlanningOK, Given, phase = "planning"
  PROVE  /\ \A n \in DOMAIN kept : n \in DOMAIN Flushed.kept /\ Flushed.kept[n] = kept[n]
         /\ \A n \in DOMAIN Flushed.kept :
              \/ \E a \in DOMAIN lines : n \in Nums(lines[a].pieces)
              \/ n \in Nums(Flushed.pieces)
<1>1. FlushedTo(Flushed, pieces, kept, from, i)
  BY FlushedIs DEF PlanningOK
<1>2. kept \in Seq(Span) /\ Flushed.kept \in Seq(Span) /\ Len(kept) <= Len(Flushed.kept)
  BY <1>1 DEF PlanTyped, FlushedTo
<1>3. \A n \in DOMAIN kept : n \in DOMAIN Flushed.kept
  <2> DEFINE k == Flushed.kept
  <2>1. DOMAIN kept = 1..Len(kept) /\ DOMAIN k = 1..Len(k) /\ Len(kept) \in Nat /\ Len(k) \in Nat
    BY <1>2
  <2>2. QED
    BY <1>2, <2>1
<1>4. QED
  BY <1>1, <1>3 DEF FlushedTo, Given

LEMMA SamePage ==
  ASSUME page' = page
  PROVE  /\ End' = End /\ NewWord' = NewWord /\ Newline' = Newline /\ RunsOverEmptyLine' = RunsOverEmptyLine
         /\ \A o : OuterOK(o) => OuterOK(o)'
         /\ \A o, at : OuterAhead(o, at) => OuterAhead(o, at)'
         /\ \A k, at : RunsCut(k, at) => RunsCut(k, at)'
<1>1. \A p : CharAt(p)' = CharAt(p)
  BY DEF CharAt
<1>2. RunsOverEmptyLine' = RunsOverEmptyLine
  BY <1>1 DEF RunsOverEmptyLine
<1>3. ASSUME NEW o, OuterOK(o) PROVE OuterOK(o)'
  BY <1>1, <1>3 DEF OuterOK, RestOfPart
<1>4. \A a, b : KeptRun(a, b)' => KeptRun(a, b)
  BY <1>1 DEF KeptRun, Spared
<1>5. ASSUME NEW o, NEW at, OuterAhead(o, at) PROVE OuterAhead(o, at)'
  BY <1>4, <1>5 DEF OuterAhead
<1>6. ASSUME NEW k, NEW at, RunsCut(k, at) PROVE RunsCut(k, at)'
  BY <1>4, <1>6 DEF RunsCut, Covered
<1>7. End' = End /\ NewWord' = NewWord /\ Newline' = Newline
  BY DEF End, NewWord, Newline
<1>8. QED
  BY <1>2, <1>3, <1>5, <1>6, <1>7

LEMMA PartsNext ==
  ASSUME page' = page, Given', NEW o, NEW k, NEW at, outer' = o, kept' = k, i' = at, phase' = "planning" => OuterOK(o),
         ~RunsOverEmptyLine => /\ phase' = "planning" => OuterAhead(o, at) /\ RunsCut(k, at)
                               /\ phase' # "planning" => RunsCut(k, End)
  PROVE  PartsOK'
<1> DEFINE e == End
<1>1. e' = e /\ RunsOverEmptyLine' = RunsOverEmptyLine
  BY SamePage
<1>2. phase' = "planning" => OuterOK(o)'
  BY SamePage
<1>3. ~RunsOverEmptyLine => /\ phase' = "planning" => OuterAhead(o, at)' /\ RunsCut(k, at)'
                            /\ phase' # "planning" => \A x : x = End => RunsCut(k, x)'
  BY SamePage
<1>4. phase' = "planning" => OuterOK(outer)'
  BY <1>2 DEF OuterOK, RestOfPart
<1>5. ~RunsOverEmptyLine => (phase' = "planning" => OuterAhead(outer, i)' /\ RunsCut(kept, i)')
  BY <1>3 DEF OuterAhead, RunsCut, Covered
<1>6. ~RunsOverEmptyLine => (phase' # "planning" => RunsCut(kept, End)')
  BY <1>1, <1>3 DEF RunsCut, Covered
<1>7. QED
  BY <1>1, <1>4, <1>5, <1>6 DEF PartsOK

\* Where process goes on within a line
LEMMA PartsStep ==
  ASSUME phase = "planning", phase' = phase, page' = page, lines' = lines,
         NEW o, NEW k, NEW at, outer' = o, kept' = k, i' = at,
         \A n \in DOMAIN k : n \in Nums(pieces') \/ \E a \in DOMAIN lines : n \in Nums(lines[a].pieces),
         OuterOK(o), ~RunsOverEmptyLine => OuterAhead(o, at) /\ RunsCut(k, at)
  PROVE  KeptInv'
<1>1. Given'
  BY DEF Given
<1>2. PartsOK'
  BY <1>1, PartsNext
<1>3. QED
  BY <1>2 DEF KeptInv

\* What the steps of planning start from
LEMMA PlanningIs ==
  ASSUME Inv, KeptInv, phase = "planning"
  PROVE  /\ PlanTyped /\ PlanOK /\ CutOK /\ PlanningOK /\ Given /\ OuterOK(outer) /\ page \in Pages
         /\ ~RunsOverEmptyLine => OuterAhead(outer, i) /\ RunsCut(kept, i)
         /\ \A j \in DOMAIN outer : outer[j].from <= outer[j].to
         /\ i \in Nat /\ LineStart \in Nat /\ LineEnd \in Nat /\ LineStart <= i /\ i <= LineEnd
         /\ LineEnd <= End /\ End \in Nat
<1>1. PlanTyped /\ PlanOK /\ CutOK /\ PlanningOK
  BY DEF Inv, PlanOK
<1>2. LineStart <= from /\ from <= i /\ i <= LineEnd /\ \A j \in DOMAIN outer : outer[j].from <= outer[j].to
  BY <1>1 DEF PlanningOK
<1>3. i \in Nat /\ from \in Nat /\ LineStart \in Nat /\ LineEnd \in Nat /\ LineEnd <= End /\ End \in Nat
  BY <1>1, AtLine DEF PlanTyped
<1>4. Given /\ OuterOK(outer) /\ (~RunsOverEmptyLine => OuterAhead(outer, i) /\ RunsCut(kept, i))
  BY DEF KeptInv, PartsOK
<1>5. page \in Pages
  BY <1>1 DEF PlanTyped
<1>6. LineStart <= i
  BY <1>2, <1>3
<1>7. QED
  BY <1>1, <1>2, <1>3, <1>4, <1>5, <1>6

LEMMA MoreCovered ==
  ASSUME NEW k, NEW u, NEW at, RunsCut(k, at), \A n \in DOMAIN k : n \in DOMAIN u /\ u[n] = k[n]
  PROVE  RunsCut(u, at)
BY DEF RunsCut, Covered

LEMMA CloseLinkParts == ASSUME Inv, KeptInv, CloseLink PROVE KeptInv'
<1>1. /\ phase = "planning" /\ phase' = phase /\ page' = page /\ lines' = lines /\ outer' = outer /\ i' = i
      /\ kept' = Flushed.kept
  BY DEF CloseLink, Cutting
<1>2. PICK x \in Piece : pieces' = Append(Flushed.pieces, x)
  <2> DEFINE j == CHOOSE c \in Ending : \A d \in Ending : c <= d
  <2>1. Ending # {} /\ pieces' = Append(Flushed.pieces, [kind |-> "close", n |-> closes[j].n])
    BY DEF CloseLink
  <2>2. closes \in Seq(Closing)
    BY DEF Inv, PlanTyped
  <2>3. Ending \in SUBSET Nat
    BY <2>2 DEF Ending
  <2>4. \E c \in Ending : \A d \in Ending : c <= d
    BY <2>1, <2>3, FirstExists
  <2>5. j \in DOMAIN closes
    BY <2>4 DEF Ending
  <2> HIDE DEF j
  <2>6. closes[j].n \in Nat
    <3>1. closes[j] \in Closing
      BY <2>2, <2>5
    <3>2. QED
      BY <3>1 DEF Closing
  <2>7. QED
    BY <2>1, <2>6 DEF Piece
<1>3. /\ PlanTyped /\ CutOK /\ PlanningOK /\ Given /\ OuterOK(outer)
      /\ ~RunsOverEmptyLine => OuterAhead(outer, i) /\ RunsCut(kept, i)
  BY <1>1, PlanningIs
<1>4. /\ \A n \in DOMAIN kept : n \in DOMAIN Flushed.kept /\ Flushed.kept[n] = kept[n]
      /\ \A n \in DOMAIN Flushed.kept :
           n \in Nums(Flushed.pieces) \/ \E a \in DOMAIN lines : n \in Nums(lines[a].pieces)
  BY <1>1, <1>3, FlushGives
<1>5. Nums(Flushed.pieces) \subseteq Nums(pieces')
  <2>1. Flushed.pieces \in Seq(Piece)
    BY <1>3, FlushNumbers
  <2>2. QED
    BY <1>2, <2>1, NumsAppend
<1>6. ~RunsOverEmptyLine => RunsCut(Flushed.kept, i)
  BY <1>3, <1>4, MoreCovered
<1>7. \A n \in DOMAIN Flushed.kept : n \in Nums(pieces') \/ \E a \in DOMAIN lines : n \in Nums(lines[a].pieces)
  BY <1>4, <1>5
<1>8. QED
  BY <1>1, <1>3, <1>6, <1>7, PartsStep

LEMMA OpenLinkParts == ASSUME Inv, KeptInv, OpenLink PROVE KeptInv'
<1> DEFINE n == Len(Flushed.kept) + 1
           x == [kind |-> "open", n |-> n]
           k == Append(Flushed.kept, NoRange)
<1>1. /\ phase = "planning" /\ phase' = phase /\ page' = page /\ lines' = lines /\ outer' = outer /\ i' = i
      /\ kept' = k /\ pieces' = Append(Flushed.pieces, x)
  BY DEF OpenLink, Cutting
<1>2. /\ PlanTyped /\ CutOK /\ PlanningOK /\ Given /\ OuterOK(outer)
      /\ ~RunsOverEmptyLine => OuterAhead(outer, i) /\ RunsCut(kept, i)
  BY <1>1, PlanningIs
<1>3. /\ \A m \in DOMAIN kept : m \in DOMAIN Flushed.kept /\ Flushed.kept[m] = kept[m]
      /\ \A m \in DOMAIN Flushed.kept :
           m \in Nums(Flushed.pieces) \/ \E a \in DOMAIN lines : m \in Nums(lines[a].pieces)
  BY <1>1, <1>2, FlushGives
<1>4. Flushed.pieces \in Seq(Piece) /\ Flushed.kept \in Seq(Span)
  BY <1>2, FlushNumbers
<1>5. /\ \A m \in DOMAIN Flushed.kept : m \in DOMAIN k /\ k[m] = Flushed.kept[m]
      /\ \A m \in DOMAIN k : m = n \/ m \in DOMAIN Flushed.kept
  BY <1>4
<1> HIDE DEF k
<1>6. Nums(pieces') = Nums(Flushed.pieces) \cup {n}
  <2>1. x \in Piece /\ x.kind = "open" /\ x.n = n
    BY <1>4 DEF Piece
  <2> HIDE DEF x, n
  <2>2. QED
    BY <1>1, <1>4, <2>1, NumsAppend
<1>7. ~RunsOverEmptyLine => RunsCut(k, i)
  BY <1>2, <1>3, <1>5, MoreCovered
<1>8. \A m \in DOMAIN k : m \in Nums(pieces') \/ \E a \in DOMAIN lines : m \in Nums(lines[a].pieces)
  BY <1>3, <1>5, <1>6
<1>9. QED
  BY <1>1, <1>2, <1>7, <1>8, PartsStep

LEMMA AdvanceParts == ASSUME Inv, KeptInv, Advance, Inv' PROVE KeptInv'
<1> DEFINE places == {closes[j].end : j \in DOMAIN closes} \cup {l.from : l \in Standing}
                       \cup (IF Ahead = <<>> THEN {} ELSE {Ahead[1].from})
           next == {p \in places : i < p /\ p < LineEnd} \cup {LineEnd}
<1>1. /\ phase = "planning" /\ phase' = phase /\ page' = page /\ lines' = lines /\ outer' = Ahead
      /\ kept' = kept /\ pieces' = pieces /\ ~Keeping /\ i < LineEnd
      /\ i' = CHOOSE p \in next : \A q \in next : p <= q
  BY DEF Advance, Cutting
<1>2. /\ PlanTyped /\ Given /\ OuterOK(outer) /\ i \in Nat /\ LineEnd \in Nat
      /\ ~RunsOverEmptyLine => OuterAhead(outer, i) /\ RunsCut(kept, i)
      /\ \A j \in DOMAIN outer : outer[j].from <= outer[j].to
  BY <1>1, PlanningIs
<1>3. /\ OuterOK(Ahead)
      /\ OuterAhead(outer, i) => OuterAhead(Ahead, i) /\ \A a \in DOMAIN Ahead : i <= Ahead[a].from
  BY <1>2, AheadOK
<1>4. /\ Ahead \in Seq(Part)
      /\ \A j \in DOMAIN Ahead : Ahead[j].from <= Ahead[j].to
  BY <1>2, AheadIs
<1>5. \A j \in DOMAIN Ahead : j \in Nat /\ 1 <= j /\ 1 \in DOMAIN Ahead /\ Ahead # <<>>
                              /\ Ahead[j].from \in Nat /\ Ahead[j].to \in Nat
  <2>1. \A j \in DOMAIN Ahead : j \in Nat /\ 1 <= j /\ 1 \in DOMAIN Ahead /\ Ahead # <<>> /\ Ahead[j] \in Part
    BY <1>4
  <2>2. QED
    BY <2>1 DEF Part
<1>6. i' \in next /\ \A q \in next : i' <= q
  <2>1. places \in SUBSET Nat
    <3>1. \A j \in DOMAIN closes : closes[j].end \in Nat
      <4>1. \A j \in DOMAIN closes : closes[j] \in Closing
        BY <1>2 DEF PlanTyped
      <4>2. QED
        BY <4>1 DEF Closing
    <3>2. \A l \in Standing : l.from \in Nat
      BY <1>2, PageIs DEF PlanTyped, Standing, Coming
    <3>3. Ahead # <<>> => Ahead[1].from \in Nat
      <4>1. Ahead # <<>> => 1 \in DOMAIN Ahead
        BY <1>4
      <4>2. QED
        BY <1>5, <4>1
    <3>4. QED
      BY <3>1, <3>2, <3>3
  <2> HIDE DEF places
  <2>2. next \in SUBSET Nat /\ next # {}
    BY <1>2, <2>1
  <2>3. \E p \in next : \A q \in next : p <= q
    <3> HIDE DEF next
    <3>1. QED
      BY <2>2, FirstExists
  <2>4. QED
    BY <1>1, <2>3
<1>7. i' \in Nat
  BY DEF Inv, PlanTyped
<1>8. ASSUME ~RunsOverEmptyLine PROVE OuterAhead(Ahead, i') /\ RunsCut(kept, i')
  <2>1. OuterAhead(Ahead, i) /\ RunsCut(kept, i) /\ \A a \in DOMAIN Ahead : i <= Ahead[a].from
    BY <1>2, <1>3, <1>8
  <2>2. ASSUME NEW a \in DOMAIN Ahead PROVE i' <= Ahead[a].from
    <3>1. Ahead # <<>> /\ 1 \in DOMAIN Ahead /\ Ahead[1].from \in Nat /\ Ahead[1].to \in Nat
      BY <1>5
    <3>2. Ahead[1].from # i
      BY <1>1, <3>1 DEF Keeping
    <3>3. i < Ahead[1].from
      BY <1>2, <2>1, <3>1, <3>2
    <3>4. i' <= Ahead[1].from
      <4>1. CASE Ahead[1].from < LineEnd
        <5>1. Ahead[1].from \in next
          BY <3>1, <3>3, <4>1
        <5>2. QED
          BY <1>6, <5>1
      <4>2. CASE ~(Ahead[1].from < LineEnd)
        BY <1>2, <1>6, <1>7, <3>1, <4>2
      <4>3. QED
        BY <4>1, <4>2
    <3>5. CASE a = 1
      BY <3>4, <3>5
    <3>6. CASE a # 1
      <4>1. Ahead[1].to <= Ahead[a].from
        BY <1>3, <1>5, <3>6 DEF OuterOK
      <4>2. Ahead[1].from <= Ahead[1].to
        BY <1>4, <3>1
      <4>3. QED
        BY <1>5, <1>7, <3>1, <3>4, <4>1, <4>2
    <3>7. QED
      BY <3>5, <3>6
  <2>3. i <= i'
    <3> HIDE DEF places
    <3>1. i < i' \/ i' = LineEnd
      BY <1>6
    <3>2. i < LineEnd
      BY <1>1
    <3>3. QED
      BY <1>2, <1>7, <3>1, <3>2
  <2>4. ASSUME NEW a \in Nat, NEW b \in Nat, KeptRun(a, b), i' <= a
        PROVE  \E j \in DOMAIN Ahead : ~Ahead[j].dropped /\ Ahead[j].from <= a /\ b <= Ahead[j].to
    <3>1. i <= a
      BY <1>2, <1>7, <2>3, <2>4
    <3>2. QED
      BY <2>1, <2>4, <3>1 DEF OuterAhead
  <2>5. \A a \in DOMAIN Ahead : ~(Ahead[a].from < i')
    BY <1>5, <1>7, <2>2
  <2>6. OuterAhead(Ahead, i')
    BY <2>4, <2>5 DEF OuterAhead
  <2>7. ASSUME NEW a \in Nat, NEW b \in Nat, KeptRun(a, b), a < i' PROVE Covered(kept, a, b)
    <3>1. CASE a < i
      BY <2>1, <2>7, <3>1 DEF RunsCut
    <3>2. CASE i <= a
      <4>1. PICK j \in DOMAIN Ahead : Ahead[j].from <= a
        BY <2>1, <2>7, <3>2 DEF OuterAhead
      <4>2. i' <= a
        BY <1>5, <1>7, <2>2, <4>1
      <4>3. QED
        BY <1>7, <2>7, <4>2
    <3>3. QED
      BY <1>2, <3>1, <3>2
  <2>8. RunsCut(kept, i')
    BY <2>7 DEF RunsCut
  <2>9. QED
    BY <2>6, <2>8
<1>9. \A n \in DOMAIN kept : n \in Nums(pieces') \/ \E a \in DOMAIN lines : n \in Nums(lines[a].pieces)
  BY <1>1, <1>2 DEF Given
<1>10. QED
  BY <1>1, <1>3, <1>8, <1>9, PartsStep

\* What is left of the kept parts when one has been cut up to its end or its line's
LEMMA RestGoesOn ==
  ASSUME Inv, KeptInv, KeepPart,
         NEW to, to = IF Ahead[1].to <= LineEnd THEN Ahead[1].to ELSE LineEnd
  PROVE  /\ OuterOK(RestOf(Ahead, to))
         /\ ~RunsOverEmptyLine => OuterAhead(RestOf(Ahead, to), to)
<1> DEFINE o == RestOf(Ahead, to)
           f == Ahead[1]
<1>1. phase = "planning" /\ i < LineEnd /\ Ahead # <<>> /\ f.from = i
  BY DEF KeepPart, Cutting, Keeping
<1>2. /\ PlanTyped /\ OuterOK(outer) /\ i \in Nat /\ LineEnd \in Nat /\ End \in Nat /\ LineEnd <= End /\ page \in Pages
      /\ ~RunsOverEmptyLine => OuterAhead(outer, i)
      /\ \A j \in DOMAIN outer : outer[j].from <= outer[j].to
      /\ LineStart \in Nat /\ LineStart <= End
  BY <1>1, PlanningIs
<1>3. /\ OuterOK(Ahead)
      /\ ~RunsOverEmptyLine => OuterAhead(Ahead, i)
  BY <1>2, AheadOK
<1>4. Ahead \in Seq(Part) /\ \A j \in DOMAIN Ahead : Ahead[j].from <= Ahead[j].to
  BY <1>2, AheadIs
<1>5. /\ 1 \in DOMAIN Ahead
      /\ \A j \in DOMAIN Ahead : j \in Nat /\ 1 <= j /\ Ahead[j] \in Part /\ Ahead[j].from \in Nat /\ Ahead[j].to \in Nat
  <2>1. 1 \in DOMAIN Ahead /\ \A j \in DOMAIN Ahead : j \in Nat /\ 1 <= j /\ Ahead[j] \in Part
    BY <1>1, <1>4
  <2>2. QED
    BY <2>1 DEF Part
<1> HIDE DEF f
<1>6. to \in Nat /\ i <= to /\ to <= LineEnd /\ to <= f.to
  <2>1. f.to \in Nat /\ i <= f.to
    BY <1>1, <1>4, <1>5 DEF f
  <2>2. QED
    BY <1>1, <1>2, <2>1 DEF f
<1>7. \A j \in DOMAIN Ahead : j # 1 => f.to <= Ahead[j].from
  BY <1>3, <1>5 DEF OuterOK, f
<1>8. CASE to = f.to
  <2>1. o = Tail(Ahead)
    BY <1>8 DEF RestOf, f
  <2>2. /\ Tail(Ahead) \in Seq(Part) /\ Len(Tail(Ahead)) = Len(Ahead) - 1
        /\ \A j \in 1..Len(Tail(Ahead)) : Tail(Ahead)[j] = Ahead[j + 1]
    BY <1>1, <1>4, HeadTailProperties
  <2>3. \A j \in DOMAIN o : j \in Nat /\ j + 1 \in DOMAIN Ahead /\ j + 1 # 1 /\ o[j] = Ahead[j + 1]
    BY <1>4, <2>1, <2>2
  <2>4. \A j \in DOMAIN Ahead : j # 1 => j - 1 \in DOMAIN o /\ o[j - 1] = Ahead[j]
    <3>1. \A j \in DOMAIN Ahead : j # 1 => j - 1 \in DOMAIN o /\ j - 1 + 1 = j
      BY <1>4, <2>1, <2>2
    <3>2. QED
      BY <2>3, <3>1
  <2> HIDE DEF o
  <2>5. OuterOK(o)
    <3>1. ASSUME NEW a \in DOMAIN o, NEW b \in DOMAIN o, a < b PROVE o[a].to <= o[b].from
      <4>1. a + 1 < b + 1
        BY <2>3, <3>1
      <4>2. QED
        BY <1>3, <2>3, <4>1 DEF OuterOK
    <3>2. QED
      BY <1>3, <2>3, <3>1 DEF OuterOK
  <2>6. ASSUME ~RunsOverEmptyLine PROVE OuterAhead(o, to)
    <3>1. ASSUME NEW a \in DOMAIN o PROVE ~(o[a].from < to)
      <4>1. to <= Ahead[a + 1].from /\ Ahead[a + 1].from \in Nat
        BY <1>5, <1>7, <1>8, <2>3
      <4>2. QED
        BY <1>6, <2>3, <4>1
    <3>2. ASSUME NEW a \in Nat, NEW b \in Nat, KeptRun(a, b), to <= a
          PROVE  \E j \in DOMAIN o : ~o[j].dropped /\ o[j].from <= a /\ b <= o[j].to
      <4>1. i <= a
        BY <1>2, <1>6, <3>2
      <4>2. PICK j \in DOMAIN Ahead : ~Ahead[j].dropped /\ Ahead[j].from <= a /\ b <= Ahead[j].to
        BY <1>3, <2>6, <3>2, <4>1 DEF OuterAhead
      <4>3. a < b
        BY <3>2 DEF KeptRun
      <4>4. j # 1
        <5>1. b <= f.to => FALSE
          BY <1>6, <1>8, <3>2, <4>3
        <5>2. QED
          BY <4>2, <5>1 DEF f
      <4>5. QED
        BY <2>4, <4>2, <4>4
    <3>3. QED
      BY <3>1, <3>2 DEF OuterAhead
  <2>7. QED
    BY <2>5, <2>6 DEF o
<1>9. CASE to # f.to
  <2> DEFINE g == [f EXCEPT !.from = LineEnd + 1]
  <2>1. to = LineEnd /\ LineEnd < f.to /\ f.to \in Nat
    BY <1>2, <1>5, <1>9 DEF f
  <2>2. o = [Ahead EXCEPT ![1] = g]
    BY <1>9 DEF RestOf, f
  <2>3. g.from = LineEnd + 1 /\ g.to = f.to /\ g.dropped = f.dropped
    <3>1. PICK r \in Nat, t \in Nat, d \in BOOLEAN : f = [from |-> r, to |-> t, dropped |-> d]
      BY <1>5 DEF Part, f
    <3>2. QED
      BY <3>1
  <2>4. /\ DOMAIN o = DOMAIN Ahead /\ o[1] = g
        /\ \A j \in DOMAIN Ahead : j # 1 => o[j] = Ahead[j]
    BY <1>5, <2>2
  <2> HIDE DEF o, g
  <2>5. RestOfPart(f)
    BY <1>3, <1>5 DEF OuterOK, f
  <2>6. PICK k \in page.keep : k.from <= f.from /\ f.to = k.to /\ f.dropped = k.dropped
    BY <2>5 DEF RestOfPart
  <2>7. CharAt(LineEnd) = "newline"
    <3>1. k.to <= End /\ k.to \in Nat
      BY <1>2, PageIs
    <3>2. LineEnd # End
      BY <1>2, <2>1, <2>6, <3>1
    <3>3. QED
      BY <1>2, <3>2, LineEndAt
  <2>8. RestOfPart(g)
    <3>1. k.from <= LineEnd + 1
      <4>1. k.from \in Nat
        BY <1>2, PageIs
      <4>2. QED
        BY <1>1, <1>2, <2>6, <4>1
    <3>2. g.from - 1 = LineEnd
      BY <1>2, <2>3
    <3>3. QED
      BY <2>3, <2>6, <2>7, <3>1, <3>2 DEF RestOfPart
  <2>9. OuterOK(o)
    <3>1. ASSUME NEW a \in DOMAIN o, NEW b \in DOMAIN o, a < b PROVE o[a].to <= o[b].from
      <4>1. b # 1 /\ a \in DOMAIN Ahead /\ b \in DOMAIN Ahead
        BY <1>5, <2>4, <3>1
      <4>2. Ahead[a].to <= Ahead[b].from
        BY <1>3, <3>1, <4>1 DEF OuterOK
      <4>3. o[a].to = Ahead[a].to
        BY <2>3, <2>4, <4>1 DEF f
      <4>4. QED
        BY <2>4, <4>1, <4>2, <4>3
    <3>2. ASSUME NEW a \in DOMAIN o PROVE RestOfPart(o[a])
      BY <1>3, <2>4, <2>8 DEF OuterOK
    <3>3. QED
      BY <3>1, <3>2 DEF OuterOK
  <2>10. ASSUME ~RunsOverEmptyLine PROVE OuterAhead(o, to)
    <3>1. ASSUME NEW a \in DOMAIN o PROVE ~(o[a].from < to)
      <4>1. CASE a = 1
        BY <1>2, <2>1, <2>3, <2>4, <4>1
      <4>2. CASE a # 1
        <5>1. f.to <= Ahead[a].from /\ Ahead[a].from \in Nat
          BY <1>5, <1>7, <2>4, <4>2
        <5>2. QED
          BY <1>2, <2>1, <2>4, <4>2, <5>1
      <4>3. QED
        BY <4>1, <4>2
    <3>2. ASSUME NEW a \in Nat, NEW b \in Nat, KeptRun(a, b), to <= a
          PROVE  \E j \in DOMAIN o : ~o[j].dropped /\ o[j].from <= a /\ b <= o[j].to
      <4>1. i <= a
        BY <1>2, <1>6, <3>2
      <4>2. PICK j \in DOMAIN Ahead : ~Ahead[j].dropped /\ Ahead[j].from <= a /\ b <= Ahead[j].to
        BY <1>3, <2>10, <3>2, <4>1 DEF OuterAhead
      <4>3. a # LineEnd
        <5>1. a < b /\ \A p \in a..(b - 1) : CharAt(p) # "newline"
          BY <3>2 DEF KeptRun
        <5>2. a \in a..(b - 1)
          BY <5>1
        <5>3. QED
          BY <2>7, <5>1, <5>2
      <4>4. CASE j = 1
        <5>1. LineEnd + 1 <= a
          BY <1>2, <2>1, <3>2, <4>3
        <5>2. QED
          BY <1>5, <2>3, <2>4, <4>2, <4>4, <5>1 DEF f
      <4>5. CASE j # 1
        BY <2>4, <4>2, <4>5
      <4>6. QED
        BY <4>4, <4>5
    <3>3. QED
      BY <3>1, <3>2 DEF OuterAhead
  <2>11. QED
    BY <2>9, <2>10 DEF o
<1>10. QED
  BY <1>8, <1>9

LEMMA KeepPartParts == ASSUME Inv, KeptInv, KeepPart PROVE KeptInv'
<1> DEFINE f == Ahead[1]
           to == IF f.to <= LineEnd THEN f.to ELSE LineEnd
           n == Len(Flushed.kept) + 1
           x == [kind |-> "kept", n |-> n]
           r == [from |-> i, to |-> to]
           o == RestOf(Ahead, to)
<1>1. /\ phase = "planning" /\ phase' = phase /\ page' = page /\ lines' = lines /\ outer' = o /\ i' = to
      /\ IF f.dropped THEN pieces' = Flushed.pieces /\ kept' = Flushed.kept
         ELSE pieces' = Append(Flushed.pieces, x) /\ kept' = Append(Flushed.kept, r)
      /\ Ahead # <<>> /\ f.from = i
  BY DEF KeepPart, Cutting, Keeping
<1>2. /\ PlanTyped /\ CutOK /\ PlanningOK /\ Given /\ OuterOK(outer) /\ i \in Nat /\ LineEnd \in Nat /\ End \in Nat
      /\ ~RunsOverEmptyLine => OuterAhead(outer, i) /\ RunsCut(kept, i)
      /\ \A j \in DOMAIN outer : outer[j].from <= outer[j].to
      /\ LineStart \in Nat /\ LineStart <= i /\ i <= LineEnd /\ LineEnd <= End /\ page \in Pages
  BY <1>1, PlanningIs
<1>3. OuterOK(o) /\ (~RunsOverEmptyLine => OuterAhead(o, to))
  BY RestGoesOn
<1>4. /\ \A m \in DOMAIN kept : m \in DOMAIN Flushed.kept /\ Flushed.kept[m] = kept[m]
      /\ \A m \in DOMAIN Flushed.kept :
           m \in Nums(Flushed.pieces) \/ \E a \in DOMAIN lines : m \in Nums(lines[a].pieces)
  BY <1>1, <1>2, FlushGives
<1>5. Flushed.pieces \in Seq(Piece) /\ Flushed.kept \in Seq(Span)
  BY <1>2, FlushNumbers
<1>6. /\ OuterOK(Ahead)
      /\ ~RunsOverEmptyLine => OuterAhead(Ahead, i) /\ \A a \in DOMAIN Ahead : i <= Ahead[a].from
  BY <1>2, AheadOK
<1>7. Ahead \in Seq(Part) /\ \A j \in DOMAIN Ahead : Ahead[j].from <= Ahead[j].to
  BY <1>2, AheadIs
<1>8. /\ 1 \in DOMAIN Ahead
      /\ \A j \in DOMAIN Ahead : j \in Nat /\ 1 <= j /\ Ahead[j] \in Part /\ Ahead[j].from \in Nat /\ Ahead[j].to \in Nat
  <2>1. 1 \in DOMAIN Ahead /\ \A j \in DOMAIN Ahead : j \in Nat /\ 1 <= j /\ Ahead[j] \in Part
    BY <1>1, <1>7
  <2>2. QED
    BY <2>1 DEF Part
<1>9. to \in Nat /\ i <= to /\ to <= LineEnd /\ to <= f.to /\ (to = f.to \/ to = LineEnd) /\ f.to \in Nat
  <2>1. f.to \in Nat /\ i <= f.to
    BY <1>1, <1>7, <1>8
  <2> HIDE DEF f
  <2>2. QED
    BY <1>2, <2>1
<1>10. f.dropped \in BOOLEAN
  BY <1>8 DEF Part
<1> HIDE DEF f, to, o
<1>11. /\ \A m \in DOMAIN Flushed.kept : m \in DOMAIN kept' /\ kept'[m] = Flushed.kept[m]
       /\ ~f.dropped => n \in DOMAIN kept' /\ kept'[n] = r
       /\ \A m \in DOMAIN kept' : m \in DOMAIN Flushed.kept \/ (m = n /\ ~f.dropped)
  <2>1. CASE f.dropped
    BY <1>1, <2>1
  <2>2. CASE ~f.dropped
    <3>1. kept' = Append(Flushed.kept, r)
      BY <1>1, <2>2
    <3>2. QED
      BY <1>5, <2>2, <3>1
  <2>3. QED
    BY <1>10, <2>1, <2>2
<1>12. /\ Nums(Flushed.pieces) \subseteq Nums(pieces')
       /\ ~f.dropped => n \in Nums(pieces')
  <2>1. CASE f.dropped
    BY <1>1, <2>1
  <2>2. CASE ~f.dropped
    <3>1. x \in Piece /\ x.kind = "kept" /\ x.n = n
      BY <1>5 DEF Piece
    <3>2. pieces' = Append(Flushed.pieces, x)
      BY <1>1, <2>2
    <3> HIDE DEF x, n
    <3>3. QED
      BY <1>5, <3>1, <3>2, NumsAppend
  <2>3. QED
    BY <1>10, <2>1, <2>2
<1>13. \A m \in DOMAIN kept' : m \in Nums(pieces') \/ \E a \in DOMAIN lines : m \in Nums(lines[a].pieces)
  BY <1>4, <1>11, <1>12
<1>14. r.from = i /\ r.to = to
  OBVIOUS
<1> HIDE DEF n, r, x
<1>15. ASSUME ~RunsOverEmptyLine PROVE RunsCut(kept', to)
  <2>1. ASSUME NEW a \in Nat, NEW b \in Nat, KeptRun(a, b), a < to PROVE Covered(kept', a, b)
    <3>1. CASE a < i
      <4>1. Covered(kept, a, b)
        BY <1>2, <1>15, <2>1, <3>1 DEF RunsCut
      <4>2. QED
        BY <1>4, <1>11, <4>1 DEF Covered
    <3>2. CASE i <= a
      <4>1. PICK j \in DOMAIN Ahead : ~Ahead[j].dropped /\ Ahead[j].from <= a /\ b <= Ahead[j].to
        BY <1>6, <1>15, <2>1, <3>2 DEF OuterAhead
      <4>2. j = 1
        <5>1. ASSUME j # 1 PROVE FALSE
          <6>1. f.to <= Ahead[j].from
            BY <1>6, <1>8, <5>1 DEF OuterOK, f
          <6>2. QED
            BY <1>8, <1>9, <2>1, <4>1, <6>1
        <5>2. QED
          BY <5>1
      <4>3. ~f.dropped /\ b <= f.to
        BY <4>1, <4>2 DEF f
      <4>4. a < b /\ (\A p \in a..(b - 1) : CharAt(p) # "newline") /\ b <= End
        <5>1. PICK k \in page.keep : b <= k.to
          BY <2>1 DEF KeptRun, Spared
        <5>2. k.to <= End /\ k.to \in Nat
          BY <1>2, PageIs
        <5>3. b <= End
          BY <1>2, <5>1, <5>2
        <5>4. QED
          BY <2>1, <5>3 DEF KeptRun
      <4>5. b <= LineEnd
        <5>1. ASSUME LineEnd < b PROVE FALSE
          <6>1. LineEnd \in a..(b - 1)
            BY <1>2, <1>9, <2>1, <5>1
          <6>2. LineEnd # End
            BY <1>2, <4>4, <5>1
          <6>3. LineStart <= End
            BY <1>2
          <6>4. CharAt(LineEnd) = "newline"
            BY <1>2, <6>2, <6>3, LineEndAt
          <6>5. QED
            BY <4>4, <6>1, <6>4
        <5>2. QED
          BY <1>2, <5>1
      <4>6. b <= to
        BY <1>9, <4>3, <4>5
      <4>7. QED
        BY <1>11, <1>14, <3>2, <4>3, <4>6 DEF Covered
    <3>3. QED
      BY <1>2, <3>1, <3>2
  <2>2. QED
    BY <2>1 DEF RunsCut
<1>16. QED
  BY <1>1, <1>3, <1>13, <1>15, PartsStep

\* A place where a line begins is where no part still goes on across it, unless over an empty line
LEMMA NextLineAhead ==
  ASSUME Inv, KeptInv, EndLine, LineEnd # End, ~RunsOverEmptyLine
  PROVE  OuterAhead(outer, LineEnd + 1)
<1>1. /\ PlanTyped /\ OuterOK(outer) /\ OuterAhead(outer, i) /\ i \in Nat /\ i = LineEnd /\ page \in Pages
      /\ LineStart \in Nat /\ LineStart <= End /\ End \in Nat
      /\ \A j \in DOMAIN outer : outer[j].from <= outer[j].to
  BY PlanningIs DEF EndLine
<1>2. CharAt(i) = "newline"
  BY <1>1, LineEndAt
<1>3. \A j \in DOMAIN outer : outer[j].to \in Nat /\ outer[j].from \in Nat
  <2>1. \A j \in DOMAIN outer : outer[j] \in Part
    BY <1>1 DEF PlanTyped
  <2>2. QED
    BY <2>1 DEF Part
<1>4. ASSUME NEW a \in DOMAIN outer, outer[a].from < i + 1 PROVE outer[a].to <= i + 1
  <2>1. CASE outer[a].from < i
    BY <1>1, <1>3, <2>1 DEF OuterAhead
  <2>2. CASE outer[a].from = i
    <3>1. PICK k \in page.keep : /\ k.from <= outer[a].from /\ outer[a].to = k.to
                                 /\ outer[a].from = k.from \/ CharAt(outer[a].from - 1) = "newline"
      BY <1>1 DEF OuterOK, RestOfPart
    <3>2. k.from \in Nat /\ k.to \in Nat /\ k.from < k.to
      BY <1>1, PageIs
    <3>3. ASSUME i + 1 < k.to PROVE FALSE
      <4>1. i \in k.from..(k.to - 1)
        BY <1>1, <2>2, <3>1, <3>2, <3>3
      <4>2. i = k.from \/ CharAt(i - 1) = "newline"
        BY <2>2, <3>1
      <4>3. QED
        BY <1>2, <4>1, <4>2 DEF RunsOverEmptyLine
    <3>4. QED
      BY <1>1, <3>1, <3>2, <3>3
  <2>3. QED
    BY <1>1, <1>3, <1>4, <2>1, <2>2
<1>5. ASSUME NEW a \in Nat, NEW b \in Nat, KeptRun(a, b), i + 1 <= a
      PROVE  \E j \in DOMAIN outer : ~outer[j].dropped /\ outer[j].from <= a /\ b <= outer[j].to
  <2>1. i <= a
    BY <1>1, <1>5
  <2>2. QED
    BY <1>1, <1>5, <2>1 DEF OuterAhead
<1>6. OuterAhead(outer, i + 1)
  BY <1>4, <1>5 DEF OuterAhead
<1>7. QED
  BY <1>1, <1>6

LEMMA EndLineParts == ASSUME Inv, KeptInv, EndLine PROVE KeptInv'
<1>1. /\ phase = "planning" /\ i = LineEnd /\ page' = page /\ kept' = Flushed.kept /\ outer' = outer
      /\ i' = LineEnd + 1 /\ UNCHANGED <<line, put, text, moved>>
      /\ IF LineEnd = End THEN phase' = "answering" ELSE phase' = phase
  BY DEF EndLine
<1>2. /\ PlanTyped /\ CutOK /\ PlanningOK /\ Given /\ OuterOK(outer) /\ i \in Nat /\ End \in Nat /\ page \in Pages
      /\ ~RunsOverEmptyLine => OuterAhead(outer, i) /\ RunsCut(kept, i)
      /\ LineStart \in Nat /\ LineStart <= End /\ LineEnd <= End /\ LineEnd \in Nat
  BY <1>1, PlanningIs
<1>3. PICK cut \in CutLine :
        /\ lines' = Append(lines, cut) /\ Nums(cut.pieces) = Nums(Flushed.pieces)
  BY LineCut
<1>4. /\ \A n \in DOMAIN kept : n \in DOMAIN Flushed.kept /\ Flushed.kept[n] = kept[n]
      /\ \A n \in DOMAIN Flushed.kept :
           n \in Nums(Flushed.pieces) \/ \E a \in DOMAIN lines : n \in Nums(lines[a].pieces)
  BY <1>1, <1>2, FlushGives
<1>5. /\ \A a \in DOMAIN lines : a \in DOMAIN lines' /\ lines'[a] = lines[a]
      /\ \E a \in DOMAIN lines' : lines'[a] = cut
  <2>1. lines \in Seq(CutLine)
    BY <1>2 DEF PlanTyped
  <2>2. \A a \in DOMAIN lines : a \in DOMAIN lines' /\ lines'[a] = lines[a]
    BY <1>3, <2>1
  <2>3. Len(lines) + 1 \in DOMAIN lines' /\ lines'[Len(lines) + 1] = cut
    BY <1>3, <2>1
  <2>4. QED
    BY <2>2, <2>3
<1>6. Given'
  BY <1>1, <1>3, <1>4, <1>5 DEF Given
<1>7. ~RunsOverEmptyLine => RunsCut(kept', i)
  BY <1>1, <1>2, <1>4, MoreCovered
<1>8. CASE LineEnd = End
  <2>1. phase' = "answering" /\ i = End
    BY <1>1, <1>8
  <2>2. OuterOK(outer) /\ (~RunsOverEmptyLine => RunsCut(kept', End))
    BY <1>2, <1>7, <2>1
  <2>3. PartsOK'
    BY <1>1, <1>6, <2>1, <2>2, PartsNext
  <2>5. line' = 1 /\ text' = <<>> /\ moved' = {}
    BY <1>1, <1>2 DEF PlanningOK
  <2>6. TextOf(text, moved)'
    BY <2>5 DEF TextOf
  <2>7. \A a \in DOMAIN lines' : ~(a < 1)
    <3>1. lines' \in Seq(CutLine)
      BY <1>2, <1>3 DEF PlanTyped
    <3>2. QED
      BY <3>1
  <2>8. PutOK'
    BY <2>1, <2>5, <2>7 DEF PutOK, Begun
  <2>9. QED
    BY <2>1, <2>3, <2>6, <2>8 DEF KeptInv
<1>9. CASE LineEnd # End
  <2>1. phase' = "planning"
    BY <1>1, <1>9
  <2>2. ~RunsOverEmptyLine => OuterAhead(outer, i + 1) /\ RunsCut(kept', i + 1)
    <3> SUFFICES ASSUME ~RunsOverEmptyLine PROVE OuterAhead(outer, i + 1) /\ RunsCut(kept', i + 1)
      OBVIOUS
    <3>1. OuterAhead(outer, i + 1)
      BY <1>1, <1>9, NextLineAhead
    <3>2. ASSUME NEW a \in Nat, NEW b \in Nat, KeptRun(a, b), a < i + 1 PROVE Covered(kept', a, b)
      <4>1. a # i
        <5>1. CharAt(i) = "newline"
          BY <1>1, <1>2, <1>9, LineEndAt
        <5>2. a < b /\ \A p \in a..(b - 1) : CharAt(p) # "newline"
          BY <3>2 DEF KeptRun
        <5>3. a \in a..(b - 1)
          BY <5>2
        <5>4. QED
          BY <5>1, <5>2, <5>3
      <4>2. a < i
        BY <1>2, <3>2, <4>1
      <4>3. QED
        BY <1>7, <3>2, <4>2 DEF RunsCut
    <3>3. QED
      BY <3>1, <3>2 DEF RunsCut
  <2>3. i' = i + 1
    BY <1>1
  <2>5. PartsOK'
    BY <1>1, <1>2, <1>6, <2>1, <2>2, <2>3, PartsNext
  <2>6. QED
    BY <2>1, <2>5 DEF KeptInv
<1>10. QED
  BY <1>8, <1>9

LEMMA InitParts == ASSUME Init PROVE KeptInv
<1>1. /\ page \in Pages /\ phase = "planning" /\ i = 0 /\ kept = <<>> /\ outer = Outermost(page.keep)
  BY DEF Init
<1>2. OuterOK(outer) /\ OuterAhead(outer, i)
  BY <1>1, OuterIs
<1>3. Given
  BY <1>1 DEF Given
<1>4. RunsCut(kept, i)
  BY <1>1 DEF RunsCut
<1>5. QED
  BY <1>1, <1>2, <1>3, <1>4 DEF KeptInv, PartsOK

(***************************************************************************)
(* The kept parts written                                                  *)
(***************************************************************************)
LEMMA PartsStay ==
  ASSUME KeptInv, phase # "planning", phase' # "planning", UNCHANGED <<page, planVars>>
  PROVE  PartsOK' /\ lines' = lines /\ kept' = kept /\ page' = page
<1>1. /\ page' = page /\ lines' = lines /\ kept' = kept /\ outer' = outer /\ i' = i /\ pieces' = pieces
  BY DEF planVars
<1>2. Given' /\ (~RunsOverEmptyLine => RunsCut(kept, End))
  BY <1>1 DEF KeptInv, PartsOK, Given
<1>3. PartsOK'
  BY <1>1, <1>2, PartsNext
<1>4. QED
  BY <1>1, <1>3

LEMMA TextSame ==
  ASSUME page' = page, NEW t, NEW mv, text' = t, moved' = mv, TextOf(t, mv)
  PROVE  TextOf(text, moved)'
<1>1. End' = End /\ NewWord' = NewWord /\ Newline' = Newline
  BY SamePage
<1>2. QED
  BY <1>1 DEF TextOf

\* Words of the translator and ends of lines are no places of the old text
LEMMA TextWord ==
  ASSUME NEW t \in Seq(Nat), NEW mv \in SUBSET Copied, TextOf(t, mv), NEW x \in {NewWord, Newline}
  PROVE  TextOf(Append(t, x), mv)
<1> DEFINE u == Append(t, x)
<1>1. Len(t) \in Nat /\ DOMAIN t = 1..Len(t) /\ DOMAIN u = 1..(Len(t) + 1) /\ Len(u) = Len(t) + 1
      /\ u[Len(t) + 1] = x /\ \A y \in 1..Len(t) : u[y] = t[y]
  OBVIOUS
<1> HIDE DEF u
<1>2. ASSUME NEW m \in mv
      PROVE  /\ m.to <= End /\ m.at + m.to - m.from <= Len(u)
             /\ \A p \in m.from..(m.to - 1) : u[m.at + p - m.from + 1] = p
  <2>1. m.from \in Nat /\ m.to \in Nat /\ m.at \in Nat
    BY DEF Copied
  <2>2. m.to <= End /\ m.at + m.to - m.from <= Len(t)
    BY DEF TextOf
  <2>3. ASSUME NEW p \in m.from..(m.to - 1)
        PROVE  m.at + p - m.from + 1 \in 1..Len(t) /\ t[m.at + p - m.from + 1] = p
    <3>1. t[m.at + p - m.from + 1] = p
      BY DEF TextOf
    <3>2. Len(t) \in Nat
      OBVIOUS
    <3>3. m.at + p - m.from + 1 \in 1..Len(t)
      BY <2>1, <2>2, <3>2
    <3>4. QED
      BY <3>1, <3>3
  <2>4. QED
    BY <1>1, <2>1, <2>2, <2>3
<1>3. ASSUME NEW y \in DOMAIN u
      PROVE  u[y] \in {NewWord, Newline} \/ \E m \in mv : m.at < y /\ y <= m.at + m.to - m.from
  <2>1. CASE y = Len(t) + 1
    BY <1>1, <2>1
  <2>2. CASE y \in 1..Len(t)
    BY <1>1, <2>2 DEF TextOf
  <2>3. QED
    BY <1>1, <2>1, <2>2
<1>4. QED
  BY <1>2, <1>3 DEF TextOf, u

\* A range copied to the end is there, and nothing else has come with it
LEMMA TextCopy ==
  ASSUME page \in Pages, NEW t \in Seq(Nat), NEW mv \in SUBSET Copied, TextOf(t, mv),
         NEW a \in Nat, NEW b \in Nat, a <= b, b <= End
  PROVE  TextOf(t \o Copy(a, b), mv \cup {[from |-> a, to |-> b, at |-> Len(t)]})
<1> DEFINE c == Copy(a, b)
           u == t \o c
           x == [from |-> a, to |-> b, at |-> Len(t)]
<1>1. c \in Seq(Nat) /\ Len(c) = b - a
  BY CopyIs
<1>2. \A j \in 1..(b - a) : c[j] = a + j - 1
  BY DEF Copy
<1> HIDE DEF c
<1>3. /\ Len(t) \in Nat /\ DOMAIN t = 1..Len(t) /\ Len(u) = Len(t) + (b - a) /\ DOMAIN u = 1..(Len(t) + (b - a))
      /\ \A y \in 1..Len(t) : u[y] = t[y]
      /\ \A j \in 1..(b - a) : u[Len(t) + j] = c[j]
  BY <1>1
<1>4. x.from = a /\ x.to = b /\ x.at = Len(t)
  OBVIOUS
<1> HIDE DEF u, x
<1>5. ASSUME NEW m \in mv
      PROVE  /\ m.to <= End /\ m.at + m.to - m.from <= Len(u)
             /\ \A p \in m.from..(m.to - 1) : u[m.at + p - m.from + 1] = p
  <2>1. m.from \in Nat /\ m.to \in Nat /\ m.at \in Nat
    BY DEF Copied
  <2>2. m.to <= End /\ m.at + m.to - m.from <= Len(t)
    BY DEF TextOf
  <2>3. ASSUME NEW p \in m.from..(m.to - 1)
        PROVE  m.at + p - m.from + 1 \in 1..Len(t) /\ t[m.at + p - m.from + 1] = p
    <3>1. t[m.at + p - m.from + 1] = p
      BY DEF TextOf
    <3>2. Len(t) \in Nat
      OBVIOUS
    <3>3. m.at + p - m.from + 1 \in 1..Len(t)
      BY <2>1, <2>2, <3>2
    <3>4. QED
      BY <3>1, <3>3
  <2>4. m.at + m.to - m.from <= Len(u)
    BY <1>3, <2>1, <2>2
  <2>5. QED
    BY <1>3, <2>2, <2>3, <2>4
<1>6. /\ x.to <= End /\ x.at + x.to - x.from <= Len(u)
      /\ \A p \in x.from..(x.to - 1) : u[x.at + p - x.from + 1] = p
  <2>1. x.at + x.to - x.from <= Len(u)
    BY <1>3, <1>4
  <2>2. ASSUME NEW p \in a..(b - 1) PROVE u[Len(t) + p - a + 1] = p
    <3>1. p - a + 1 \in 1..(b - a) /\ Len(t) + p - a + 1 = Len(t) + (p - a + 1) /\ a + (p - a + 1) - 1 = p
      BY <1>3
    <3>2. u[Len(t) + (p - a + 1)] = c[p - a + 1] /\ c[p - a + 1] = a + (p - a + 1) - 1
      BY <1>2, <1>3, <3>1
    <3>3. QED
      BY <3>1, <3>2
  <2>3. QED
    BY <1>4, <2>1, <2>2
<1>7. ASSUME NEW y \in DOMAIN u
      PROVE  u[y] \in {NewWord, Newline} \/ \E m \in mv \cup {x} : m.at < y /\ y <= m.at + m.to - m.from
  <2>1. CASE y \in 1..Len(t)
    BY <1>3, <2>1 DEF TextOf
  <2>2. CASE y \notin 1..Len(t)
    <3>1. x.at < y /\ y <= x.at + x.to - x.from
      BY <1>3, <1>4, <2>2
    <3>2. QED
      BY <3>1
  <2>3. QED
    BY <2>1, <2>2
<1>8. TextOf(u, mv \cup {x})
  BY <1>5, <1>6, <1>7 DEF TextOf
<1>9. QED
  BY <1>8 DEF u, x, c

\* Within a line's answer, when no part or one more is put
LEMMA PutGoesOn ==
  ASSUME Inv, KeptInv, phase = "writing", phase' = phase, UNCHANGED <<page, planVars, line>>,
         moved \subseteq moved',
         \A n \in put' : n \in put \/ \E m \in moved' : m.from <= kept[n].from /\ kept[n].to <= m.to
  PROVE  PutOK'
<1>1. lines' = lines /\ kept' = kept /\ line' = line /\ Begun' = Begun
  BY DEF planVars, Begun
<1>2. PutOK
  BY DEF KeptInv
<1>3. QED
  BY <1>1, <1>2 DEF PutOK

LEMMA WritingParts ==
  ASSUME Inv, KeptInv, phase = "writing", phase' = phase, UNCHANGED <<page, planVars, line>>,
         moved \subseteq moved',
         \A n \in put' : n \in put \/ \E m \in moved' : m.from <= kept[n].from /\ kept[n].to <= m.to,
         NEW t, NEW mv, text' = t, moved' = mv, TextOf(t, mv)
  PROVE  KeptInv'
<1>1. PartsOK' /\ page' = page
  BY PartsStay
<1>2. TextOf(text, moved)'
  BY <1>1, TextSame
<1>3. PutOK'
  BY PutGoesOn
<1>4. QED
  BY <1>1, <1>2, <1>3 DEF KeptInv

LEMMA SameTextParts ==
  ASSUME Inv, KeptInv, phase = "writing", phase' = phase, UNCHANGED <<page, planVars, line, put, text, moved>>
  PROVE  KeptInv'
<1>1. TextOf(text, moved)
  BY DEF KeptInv
<1>2. moved' = moved /\ text' = text /\ put' = put
  OBVIOUS
<1>3. QED
  BY <1>1, <1>2, WritingParts

LEMMA TakeWordParts == ASSUME Inv, KeptInv, TakeWord PROVE KeptInv'
<1>1. /\ phase = "writing" /\ phase' = phase /\ UNCHANGED <<page, planVars, line>> /\ moved' = moved /\ put' = put
      /\ text' = Append(text, NewWord)
  BY DEF TakeWord, Writing
<1>2. TextOf(text, moved) /\ text \in Seq(Nat) /\ moved \in SUBSET Copied
  BY <1>1 DEF KeptInv, Inv, WriteTyped
<1>3. TextOf(Append(text, NewWord), moved)
  BY <1>2, TextWord
<1>4. QED
  BY <1>1, <1>3, WritingParts

\* A part put where the text ends
LEMMA PutParts ==
  ASSUME Inv, KeptInv, phase = "writing", phase' = phase, UNCHANGED <<page, planVars, line>>,
         NEW n \in Mine, kept[n] # NoRange,
         put' = put \cup {n},
         moved' = moved \cup {[from |-> kept[n].from, to |-> kept[n].to, at |-> Len(text)]},
         text' = text \o Copy(kept[n].from, kept[n].to)
  PROVE  KeptInv'
<1> DEFINE x == [from |-> kept[n].from, to |-> kept[n].to, at |-> Len(text)]
<1>1. TextOf(text, moved) /\ text \in Seq(Nat) /\ moved \in SUBSET Copied /\ page \in Pages
  BY DEF KeptInv, Inv, WriteTyped, PlanTyped
<1>2. kept[n].from \in Nat /\ kept[n].to \in Nat /\ kept[n].from <= kept[n].to /\ kept[n].to <= End
  <2>1. /\ line \in DOMAIN lines /\ Mine \subseteq DOMAIN kept
        /\ kept[n].from <= kept[n].to /\ kept[n].to <= lines[line].end
    BY MineIs
  <2>2. kept[n].from \in Nat /\ kept[n].to \in Nat /\ lines[line].end \in Nat
    BY <2>1, LinesAre DEF Inv
  <2>3. lines[line].end <= End /\ End \in Nat
    BY <1>1, <2>1, PageIs DEF Inv, PlanOK, CutOK
  <2>4. QED
    BY <2>1, <2>2, <2>3
<1>3. TextOf(text \o Copy(kept[n].from, kept[n].to), moved \cup {x})
  BY <1>1, <1>2, TextCopy
<1>4. x.from <= kept[n].from /\ kept[n].to <= x.to
  BY <1>2
<1> HIDE DEF x
<1>5. moved' = moved \cup {x}
  BY DEF x
<1>6. \A y \in put' : y \in put \/ \E m \in moved' : m.from <= kept[y].from /\ kept[y].to <= m.to
  BY <1>4, <1>5
<1>7. QED
  BY <1>3, <1>5, <1>6, WritingParts

LEMMA TakeKeptParts == ASSUME Inv, KeptInv, TakeKept PROVE KeptInv'
<1>1. phase = "writing" /\ phase' = phase /\ UNCHANGED <<page, planVars, line>>
  BY DEF TakeKept, Writing
<1>2. CASE MayPut(Marker)
  BY <1>1, <1>2, PutParts DEF TakeKept, MayPut
<1>3. CASE ~MayPut(Marker)
  BY <1>1, <1>3, SameTextParts DEF TakeKept
<1>4. QED
  BY <1>2, <1>3

LEMMA TakeLostParts == ASSUME Inv, KeptInv, TakeLost PROVE KeptInv'
<1> DEFINE n == CHOOSE m \in Lost : \A o \in Lost : m <= o
<1>1. /\ phase = "writing" /\ phase' = phase /\ UNCHANGED <<page, planVars, line>> /\ Lost # {}
      /\ put' = put \cup {n}
      /\ moved' = moved \cup {[from |-> kept[n].from, to |-> kept[n].to, at |-> Len(text)]}
      /\ text' = text \o Copy(kept[n].from, kept[n].to)
  BY DEF TakeLost
<1>2. Lost \in SUBSET Nat
  <2>1. Mine \subseteq DOMAIN kept
    BY <1>1, MineIs
  <2>2. \A m \in DOMAIN kept : m \in Nat
    BY LinesAre DEF Inv
  <2>3. QED
    BY <2>1, <2>2 DEF Lost
<1>3. n \in Lost
  <2>1. \E m \in Lost : \A o \in Lost : m <= o
    BY <1>1, <1>2, FirstExists
  <2>2. QED
    BY <2>1
<1>4. n \in Mine /\ kept[n] # NoRange
  BY <1>3 DEF Lost
<1> HIDE DEF n
<1>5. QED
  BY <1>1, <1>4, PutParts

LEMMA TakeLineParts == ASSUME Inv, KeptInv, TakeLine PROVE KeptInv'
<1> DEFINE before == IF line = 1 THEN text ELSE Append(text, Newline)
           b == before
<1>1. /\ phase = "answering" /\ line <= Len(lines) /\ UNCHANGED <<page, planVars>>
      /\ \/ /\ text' = before \o Copy(Cut.start, Cut.end)
            /\ moved' = moved \cup {[from |-> Cut.start, to |-> Cut.end, at |-> Len(before)]}
            /\ line' = line + 1 /\ phase' = phase
         \/ /\ text' = before /\ moved' = moved /\ put' = {} /\ phase' = "writing" /\ line' = line
  BY DEF TakeLine
<1>2. /\ PartsOK' /\ lines' = lines /\ kept' = kept /\ page' = page /\ phase' # "planning" /\ phase' # "done"
  BY <1>1, PartsStay
<1>3. TextOf(text, moved) /\ text \in Seq(Nat) /\ moved \in SUBSET Copied /\ page \in Pages /\ PutOK
  BY <1>1 DEF KeptInv, Inv, WriteTyped, PlanTyped
<1>4. TextOf(before, moved)
  BY <1>3, TextWord
<1>5. /\ before \in Seq(Nat) /\ line \in DOMAIN lines /\ line \in Nat
      /\ Cut.start = lines[line].start /\ Cut.end = lines[line].end
      /\ lines[line].start \in Nat /\ lines[line].end \in Nat /\ lines[line].start <= lines[line].end
  BY <1>1, BeforeIs
<1>6. lines[line].end <= End
  BY <1>5 DEF Inv, PlanOK, CutOK
<1>7. Begun = {a \in DOMAIN lines : a < line} /\ \A a \in DOMAIN lines : a \in Nat
  BY <1>1, LinesAre DEF Begun, Inv
<1> HIDE DEF before
<1>8. CASE /\ text' = before \o Copy(Cut.start, Cut.end)
           /\ moved' = moved \cup {[from |-> Cut.start, to |-> Cut.end, at |-> Len(before)]}
           /\ line' = line + 1 /\ phase' = phase
  <2> DEFINE t == before \o Copy(Cut.start, Cut.end)
             x == [from |-> Cut.start, to |-> Cut.end, at |-> Len(before)]
             mv == moved \cup {x}
  <2>1. TextOf(t, mv)
    BY <1>3, <1>4, <1>5, <1>6, TextCopy
  <2>2. x.from = lines[line].start /\ x.to = lines[line].end /\ text' = t /\ moved' = mv
    BY <1>5, <1>8
  <2> HIDE DEF t, x
  <2>3. TextOf(text, moved)'
    <3> HIDE DEF mv
    <3>1. QED
      BY <1>2, <2>1, <2>2, TextSame
  <2>4. ASSUME NEW a \in Begun', NEW n \in Nums(lines[a].pieces), kept[n] # NoRange
        PROVE  \E m \in moved' : m.from <= kept[n].from /\ kept[n].to <= m.to
    <3>1. a \in DOMAIN lines /\ a < line + 1 /\ a \in Nat
      BY <1>1, <1>2, <1>7, <1>8 DEF Begun
    <3>2. CASE a < line
      <4>1. a \in Begun
        BY <1>7, <3>1, <3>2
      <4>2. \E m \in moved : m.from <= kept[n].from /\ kept[n].to <= m.to
        BY <1>3, <2>4, <3>2, <4>1 DEF PutOK
      <4>3. QED
        BY <2>2, <4>2
    <3>3. CASE a = line
      <4>1. Inside(kept, Nums(lines[line].pieces), lines[line].start, lines[line].end)
        BY <1>5 DEF Inv, PlanOK, CutKept
      <4>2. lines[line].start <= kept[n].from /\ kept[n].to <= lines[line].end
        BY <2>4, <3>3, <4>1 DEF Inside
      <4>3. QED
        BY <2>2, <4>2
    <3>4. QED
      BY <1>5, <3>1, <3>2, <3>3
  <2>5. PutOK'
    BY <1>2, <2>4 DEF PutOK
  <2>6. QED
    BY <1>2, <2>3, <2>5 DEF KeptInv
<1>9. CASE text' = before /\ moved' = moved /\ put' = {} /\ phase' = "writing" /\ line' = line
  <2>1. TextOf(text, moved)'
    BY <1>2, <1>4, <1>9, TextSame
  <2>2. \A a \in Begun' : a \in DOMAIN lines /\ (a < line => a \in Begun)
    BY <1>2, <1>7 DEF Begun
  <2>3. PutOK'
    BY <1>2, <1>3, <1>9, <2>2 DEF PutOK
  <2>4. QED
    BY <1>2, <2>1, <2>3 DEF KeptInv
<1>10. QED
  BY <1>1, <1>8, <1>9

LEMMA EndAnswerParts == ASSUME Inv, KeptInv, EndAnswer PROVE KeptInv'
<1>1. /\ phase = "writing" /\ phase' = "answering" /\ UNCHANGED <<page, planVars, put, text, moved>>
      /\ line' = line + 1 /\ Lost = {}
  BY DEF EndAnswer
<1>2. PartsOK' /\ lines' = lines /\ kept' = kept /\ page' = page
  BY <1>1, PartsStay
<1>3. TextOf(text, moved) /\ PutOK
  BY <1>1 DEF KeptInv
<1>4. TextOf(text, moved)'
  BY <1>1, <1>2, <1>3, TextSame
<1>5. line \in Begun /\ line \in Nat /\ Mine = Nums(lines[line].pieces) /\ \A a \in DOMAIN lines : a \in Nat
  BY <1>1, MineIs, LinesAre DEF Inv, WriteTyped
<1>6. ASSUME NEW a \in Begun', NEW n \in Nums(lines[a].pieces), kept[n] # NoRange
      PROVE  \E m \in moved : m.from <= kept[n].from /\ kept[n].to <= m.to
  <2>1. a \in DOMAIN lines /\ a < line + 1 /\ a \in Nat
    BY <1>1, <1>2, <1>5 DEF Begun
  <2>2. CASE a < line
    BY <1>3, <1>6, <2>1, <2>2 DEF PutOK, Begun
  <2>3. CASE a = line
    <3>1. n \in put
      BY <1>1, <1>5, <1>6, <2>3 DEF Lost
    <3>2. QED
      BY <1>3, <1>5, <1>6, <2>3, <3>1 DEF PutOK
  <2>4. QED
    BY <1>5, <2>1, <2>2, <2>3
<1>7. PutOK'
  BY <1>1, <1>2, <1>6 DEF PutOK
<1>8. QED
  BY <1>1, <1>2, <1>4, <1>7 DEF KeptInv

LEMMA SettledParts ==
  ASSUME Inv, KeptInv, phase # "planning", phase # "writing", phase' # "planning", phase' # "writing",
         UNCHANGED <<page, planVars, writeVars>>, phase' = "done" => line > Len(lines)
  PROVE  KeptInv'
<1>1. PartsOK' /\ lines' = lines /\ kept' = kept /\ page' = page
  BY PartsStay
<1>2. line' = line /\ text' = text /\ moved' = moved /\ put' = put
  BY DEF writeVars
<1>3. TextOf(text, moved) /\ PutOK
  BY DEF KeptInv
<1>4. TextOf(text, moved)'
  BY <1>1, <1>2, <1>3, TextSame
<1>5. PutOK'
  BY <1>1, <1>2, <1>3 DEF PutOK, Begun
<1>6. QED
  BY <1>1, <1>2, <1>4, <1>5 DEF KeptInv

LEMMA StutterParts == ASSUME Inv, KeptInv, UNCHANGED vars PROVE KeptInv'
<1>1. /\ page' = page /\ phase' = phase /\ i' = i /\ outer' = outer /\ lines' = lines /\ kept' = kept /\ pieces' = pieces
      /\ line' = line /\ put' = put /\ text' = text /\ moved' = moved
  BY DEF vars, planVars, writeVars
<1>2. PartsOK'
  BY <1>1, PartsNext DEF KeptInv, PartsOK, Given
<1>3. phase # "planning" => TextOf(text, moved)' /\ PutOK'
  BY <1>1, TextSame DEF KeptInv, PutOK, Begun
<1>4. QED
  BY <1>1, <1>2, <1>3 DEF KeptInv

LEMMA NextKeepsParts == Inv /\ KeptInv /\ [Next]_vars => KeptInv'
<1> SUFFICES ASSUME Inv, KeptInv, [Next]_vars PROVE KeptInv'
  OBVIOUS
<1>1. CASE CloseLink
  BY <1>1, CloseLinkParts
<1>2. CASE OpenLink
  BY <1>2, OpenLinkParts
<1>3. CASE KeepPart
  BY <1>3, KeepPartParts
<1>4. CASE Advance
  BY <1>4, AdvanceKeeps, AdvanceParts
<1>5. CASE EndLine
  BY <1>5, EndLineParts
<1>6. CASE TakeLine
  BY <1>6, TakeLineParts
<1>7. CASE TakeWord
  BY <1>7, TakeWordParts
<1>8. CASE TakeOpen
  BY <1>8, SameTextParts DEF TakeOpen, Writing
<1>9. CASE TakeClose
  BY <1>9, SameTextParts DEF TakeClose, Writing
<1>10. CASE TakeKept
  BY <1>10, TakeKeptParts
<1>11. CASE TakeLost
  BY <1>11, TakeLostParts
<1>12. CASE EndAnswer
  BY <1>12, EndAnswerParts
<1>13. CASE PlaceRecords
  BY <1>13, SettledParts DEF PlaceRecords
<1>14. CASE Done \/ UNCHANGED vars
  BY <1>14, StutterParts DEF Done
<1>15. QED
  BY <1>1, <1>2, <1>3, <1>4, <1>5, <1>6, <1>7, <1>8, <1>9, <1>10, <1>11, <1>12, <1>13, <1>14
     DEF Next, Planning, Write

LEMMA AlwaysKept == Spec => [](Inv /\ KeptInv)
<1>1. Init => Inv /\ KeptInv
  BY InitInv, InitParts
<1>2. Inv /\ KeptInv /\ [Next]_vars => (Inv /\ KeptInv)'
  BY NextKeeps, NextKeepsParts
<1>3. QED
  BY <1>1, <1>2, PTL DEF Spec

\* A place that was copied is in the new text where it was copied to, and nowhere else
LEMMA CopiedOnce ==
  ASSUME Inv, TextOf(text, moved), phase # "planning", NEW m \in moved, NEW p \in m.from..(m.to - 1)
  PROVE  {x \in DOMAIN text : text[x] = p} = {m.at + p - m.from + 1}
<1> DEFINE y == m.at + p - m.from + 1
<1>1. /\ text \in Seq(Nat) /\ End \in Nat /\ moved \in SUBSET Copied
      /\ \A o \in moved : o.from \in Nat /\ o.to \in Nat /\ o.at \in Nat
  BY PageIs DEF Inv, WriteTyped, PlanTyped, Copied
<1>2. m.to <= End /\ m.at + m.to - m.from <= Len(text)
  BY DEF TextOf
<1>3. text[y] = p
  BY DEF TextOf
<1>4. Len(text) \in Nat /\ DOMAIN text = 1..Len(text) /\ p \in Nat /\ p < End /\ m.from <= p /\ p < m.to
  BY <1>1, <1>2
<1>5. y \in DOMAIN text
  BY <1>1, <1>2, <1>4
<1>6. ASSUME NEW x \in DOMAIN text, text[x] = p PROVE x = y
  <2>1. text[x] \notin {NewWord, Newline}
    BY <1>1, <1>4, <1>6 DEF NewWord, Newline
  <2>2. PICK o \in moved : o.at < x /\ x <= o.at + o.to - o.from
    BY <2>1 DEF TextOf
  <2> DEFINE q == x - o.at - 1 + o.from
  <2>3. q \in o.from..(o.to - 1) /\ o.at + q - o.from + 1 = x /\ x \in Nat
    <3>1. o.from \in Nat /\ o.to \in Nat /\ o.at \in Nat /\ x \in Nat
      BY <1>1, <1>4
    <3>2. QED
      BY <2>2, <3>1
  <2> HIDE DEF q
  <2>4. text[o.at + q - o.from + 1] = q
    BY <2>3 DEF TextOf
  <2>5. q = p
    BY <1>6, <2>3, <2>4
  <2>6. o = m
    <3>1. m # o => m.to <= o.from \/ o.to <= m.from
      BY DEF Inv, RangesApart
    <3>2. o.from <= p /\ p < o.to
      BY <1>1, <1>4, <2>3, <2>5
    <3>3. QED
      BY <1>1, <1>4, <3>1, <3>2
  <2>7. QED
    BY <2>3, <2>5, <2>6
<1>7. QED
  BY <1>3, <1>5, <1>6

\* Each place of a kept part that no empty line is in was copied
LEMMA KeptIsCopied ==
  ASSUME Inv, KeptInv, phase # "planning", line > Len(lines), ~RunsOverEmptyLine,
         NEW a \in Nat, NEW b \in Nat, KeptRun(a, b)
  PROVE  \E m \in moved : m.from <= a /\ b <= m.to
<1>1. PICK k \in page.keep : b <= k.to
  BY DEF KeptRun, Spared
<1>2. k.to <= End /\ k.to \in Nat /\ End \in Nat /\ a < b
  BY PageIs DEF Inv, PlanTyped, KeptRun
<1>3. Covered(kept, a, b)
  BY <1>1, <1>2 DEF KeptInv, PartsOK, RunsCut
<1>4. PICK n \in DOMAIN kept : kept[n].from <= a /\ b <= kept[n].to
  BY <1>3 DEF Covered
<1>5. kept[n].from \in Nat /\ kept[n].to \in Nat
  BY LinesAre DEF Inv
<1>6. kept[n] # NoRange
  BY <1>2, <1>4, <1>5 DEF NoRange
<1>7. PICK l \in DOMAIN lines : n \in Nums(lines[l].pieces)
  BY DEF KeptInv, PartsOK, Given
<1>8. l < line
  <2>1. line > Len(lines) /\ line \in Nat
    BY DEF KeptInv, Inv, WriteTyped
  <2>2. l \in Nat /\ l <= Len(lines) /\ Len(lines) \in Nat
    BY LinesAre DEF Inv
  <2>3. QED
    BY <2>1, <2>2
<1>9. PICK m \in moved : m.from <= kept[n].from /\ kept[n].to <= m.to
  BY <1>6, <1>7, <1>8 DEF KeptInv, PutOK, Begun
<1>10. m.from \in Nat /\ m.to \in Nat
  BY DEF Inv, WriteTyped, Copied
<1>11. m.from <= a /\ b <= m.to
  BY <1>2, <1>4, <1>5, <1>9, <1>10
<1>12. QED
  BY <1>11

(***************************************************************************)
(* Where records go                                                        *)
(***************************************************************************)
\* The lines cut follow each other, and none has the end of a line in it
LinesTile ==
  /\ \A a \in DOMAIN lines :
       /\ a = 1 => lines[a].start = 0
       /\ a + 1 \in DOMAIN lines => lines[a + 1].start = lines[a].end + 1
       /\ lines[a].end = End \/ CharAt(lines[a].end) = "newline"
       /\ \A q \in lines[a].start..(lines[a].end - 1) : CharAt(q) # "newline"
  /\ phase # "planning" => lines # <<>> /\ lines[Len(lines)].end = End

\* Each new line but the first begins after an end of line
JoinedAt(e, t, a) ==
  IF a = 1 THEN e[2 * a - 1].now = 0
  ELSE e[2 * a - 1].now = e[2 * a - 2].now + 1 /\ t[e[2 * a - 1].now] = Newline

EdgesJoin ==
  /\ \A a \in Begun : JoinedAt(edges, text, a)
  /\ phase # "writing" => IF line = 1 THEN text = <<>> ELSE edges[2 * line - 2].now = Len(text)

RecordsFit == \A x \in records : x.s < x.e /\ x.e <= Len(text)

ExactInv ==
  /\ LinesTile
  /\ phase # "planning" => i <= End + 1 /\ from <= i /\ EdgesJoin
  /\ phase # "done" => records = {}
  /\ RecordsFit /\ Unchanged /\ KeptRecordsExact

LEMMA NotDone ==
  ASSUME phase' # "done", records' = {}
  PROVE  RecordsFit' /\ Unchanged' /\ KeptRecordsExact'
BY DEF RecordsFit, Unchanged, KeptRecordsExact

LEMMA SameTiles ==
  ASSUME LinesTile, page' = page, lines' = lines, phase' # "planning" => phase # "planning"
  PROVE  LinesTile'
<1>1. End' = End /\ \A p : CharAt(p)' = CharAt(p)
  BY SamePage DEF CharAt
<1>2. QED
  BY <1>1 DEF LinesTile

LEMMA InitExact == ASSUME Init PROVE ExactInv
<1>1. phase = "planning" /\ lines = <<>> /\ records = {}
  BY DEF Init
<1>2. LinesTile
  BY <1>1 DEF LinesTile
<1>3. QED
  BY <1>1, <1>2 DEF ExactInv, RecordsFit, Unchanged, KeptRecordsExact

LEMMA CuttingExact == ASSUME ExactInv, CloseLink \/ OpenLink \/ KeepPart \/ Advance PROVE ExactInv'
<1>1. phase = "planning" /\ phase' = phase /\ page' = page /\ lines' = lines /\ records' = records
  BY DEF CloseLink, OpenLink, KeepPart, Advance, Cutting
<1>2. LinesTile /\ records = {}
  BY <1>1 DEF ExactInv
<1>3. LinesTile'
  BY <1>1, <1>2, SameTiles
<1>4. QED
  BY <1>1, <1>2, <1>3, NotDone DEF ExactInv

LEMMA EndLineExact == ASSUME Inv, KeptInv, ExactInv, EndLine PROVE ExactInv'
<1>1. /\ phase = "planning" /\ i' = LineEnd + 1 /\ from' = LineEnd + 1 /\ page' = page
      /\ records' = records /\ line' = line /\ text' = text /\ edges' = edges
      /\ IF LineEnd = End THEN phase' = "answering" ELSE phase' = phase
  BY DEF EndLine
<1>2. /\ PlanTyped /\ CutOK /\ PlanningOK /\ End \in Nat /\ page \in Pages
      /\ LineStart \in Nat /\ LineStart <= End /\ LineEnd <= End /\ LineEnd \in Nat
  BY <1>1, PlanningIs
<1>3. PICK cut \in CutLine : lines' = Append(lines, cut) /\ cut.start = LineStart /\ cut.end = LineEnd
  BY LineCut
<1> DEFINE l == Len(lines) + 1
<1>4. /\ lines \in Seq(CutLine) /\ DOMAIN lines' = 1..l /\ DOMAIN lines = 1..(l - 1) /\ l \in Nat
      /\ Len(lines') = l /\ lines'[l] = cut /\ \A a \in DOMAIN lines : lines'[a] = lines[a]
      /\ lines' # <<>> /\ (lines = <<>> => l = 1) /\ (l = 1 => lines = <<>>) /\ (lines # <<>> => l - 1 \in DOMAIN lines)
  <2>1. lines \in Seq(CutLine) /\ Len(lines) \in Nat
    BY <1>2 DEF PlanTyped
  <2>2. /\ DOMAIN lines' = 1..l /\ DOMAIN lines = 1..(l - 1) /\ l \in Nat
        /\ Len(lines') = l /\ lines'[l] = cut /\ (\A a \in DOMAIN lines : lines'[a] = lines[a]) /\ lines' # <<>>
    BY <1>3, <2>1
  <2>3. (lines = <<>> => Len(lines) = 0) /\ (Len(lines) = 0 => lines = <<>>)
    BY <2>1
  <2>4. lines # <<>> => l - 1 \in DOMAIN lines
    BY <2>1, <2>3
  <2>5. QED
    BY <2>1, <2>2, <2>3, <2>4
<1>5. LineStart = IF lines = <<>> THEN 0 ELSE lines[l - 1].end + 1
  BY <1>4 DEF LineStart
<1> HIDE DEF l
<1>6. LineEnd = End \/ CharAt(LineEnd) = "newline"
  BY <1>2, LineEndAt
<1>7. \A q \in LineStart..(LineEnd - 1) : CharAt(q) # "newline"
  BY <1>2, LineEndAt
<1>8. LinesTile /\ records = {}
  BY <1>1 DEF ExactInv
<1>9. End' = End /\ \A p : CharAt(p)' = CharAt(p)
  BY <1>1, SamePage DEF CharAt
<1>10. ASSUME NEW a \in DOMAIN lines'
       PROVE  /\ a = 1 => lines'[a].start = 0
              /\ a + 1 \in DOMAIN lines' => lines'[a + 1].start = lines'[a].end + 1
              /\ lines'[a].end = End \/ CharAt(lines'[a].end) = "newline"
              /\ \A q \in lines'[a].start..(lines'[a].end - 1) : CharAt(q) # "newline"
  <2>1. CASE a = l
    <3>1. ~(a + 1 \in DOMAIN lines')
      BY <1>4, <2>1
    <3>2. a = 1 => lines = <<>>
      BY <1>4, <2>1
    <3>3. QED
      BY <1>3, <1>4, <1>5, <1>6, <1>7, <2>1, <3>1, <3>2
  <2>2. CASE a # l
    <3>1. a \in DOMAIN lines /\ lines'[a] = lines[a]
      BY <1>4, <2>2
    <3>2. ASSUME a + 1 \in DOMAIN lines' PROVE lines'[a + 1].start = lines[a].end + 1
      <4>1. CASE a + 1 = l
        <5>1. a = l - 1 /\ lines # <<>>
          BY <1>4, <3>1, <4>1
        <5>2. QED
          BY <1>3, <1>4, <1>5, <4>1, <5>1
      <4>2. CASE a + 1 # l
        <5>1. a + 1 \in DOMAIN lines
          BY <1>4, <3>2, <4>2
        <5>2. QED
          BY <1>4, <1>8, <3>1, <5>1 DEF LinesTile
      <4>3. QED
        BY <4>1, <4>2
    <3>3. QED
      BY <1>8, <3>1, <3>2 DEF LinesTile
  <2>3. QED
    BY <2>1, <2>2
<1>11. phase' # "planning" => lines' # <<>> /\ lines'[Len(lines')].end = End
  BY <1>1, <1>3, <1>4
<1>12. LinesTile'
  BY <1>9, <1>10, <1>11 DEF LinesTile
<1>13. ASSUME phase' # "planning" PROVE i' <= End + 1 /\ from' <= i' /\ EdgesJoin'
  <2>1. line' = 1 /\ text' = <<>> /\ phase' = "answering"
    BY <1>1, <1>2, <1>13 DEF PlanningOK
  <2>2. \A a \in DOMAIN lines' : ~(a < 1)
    BY <1>4
  <2>3. Begun' = {}
    BY <2>1, <2>2 DEF Begun
  <2>4. EdgesJoin'
    BY <2>1, <2>3 DEF EdgesJoin
  <2>5. QED
    BY <1>1, <1>2, <2>4
<1>14. QED
  BY <1>1, <1>8, <1>9, <1>12, <1>13, NotDone DEF ExactInv

\* While the answer is written
LEMMA WritingExact ==
  ASSUME ExactInv, phase # "planning", phase # "done", phase' # "planning", phase' # "done",
         UNCHANGED <<page, planVars, records>>, EdgesJoin'
  PROVE  ExactInv'
<1>1. page' = page /\ lines' = lines /\ i' = i /\ from' = from /\ records' = records
  BY DEF planVars
<1>2. LinesTile /\ i <= End + 1 /\ from <= i /\ records = {}
  BY DEF ExactInv
<1>3. LinesTile' /\ End' = End
  BY <1>1, <1>2, SameTiles, SamePage
<1>4. QED
  BY <1>1, <1>2, <1>3, NotDone DEF ExactInv

\* What is written after a line has begun leaves its beginning as it was
LEMMA JoinedStays ==
  ASSUME Inv, ExactInv, phase # "planning", page' = page, NEW a \in Begun, text' \in Seq(Nat),
         \A y \in DOMAIN text : text'[y] = text[y],
         edges'[2 * a - 1] = edges[2 * a - 1], a # 1 => edges'[2 * a - 2] = edges[2 * a - 2]
  PROVE  JoinedAt(edges, text, a)'
<1>1. JoinedAt(edges, text, a)
  BY DEF ExactInv, EdgesJoin
<1>2. Newline' = Newline
  BY SamePage
<1>3. /\ 2 * a - 1 \in DOMAIN edges /\ edges[2 * a - 1].now \in Nat
      /\ edges[2 * a - 1].now <= Len(text) /\ Len(text) \in Nat /\ a \in Nat /\ 0 < a
  BY BegunIs
<1>4. CASE a = 1
  BY <1>1, <1>4 DEF JoinedAt
<1>5. CASE a # 1
  <2>1. edges[2 * a - 1].now = edges[2 * a - 2].now + 1 /\ text[edges[2 * a - 1].now] = Newline
    BY <1>1, <1>5 DEF JoinedAt
  <2>2. edges[2 * a - 1].now # 0
    <3>1. a - 1 \in Begun /\ a - 1 < line
      <4>1. a \in DOMAIN lines /\ a <= line /\ line \in Nat
        BY BegunIs
      <4>2. a - 1 \in DOMAIN lines /\ a - 1 < line
        BY <1>3, <1>5, <4>1, LinesAre DEF Inv
      <4>3. QED
        BY <4>2 DEF Begun
    <3>2. edges[2 * (a - 1)].now \in Nat /\ 2 * (a - 1) = 2 * a - 2
      BY <1>3, <3>1, BegunIs
    <3>3. QED
      BY <2>1, <3>2
  <2>3. edges[2 * a - 1].now \in DOMAIN text
    BY <1>3, <2>2 DEF Inv, WriteTyped
  <2>4. text'[edges[2 * a - 1].now] = Newline
    BY <2>1, <2>3
  <2>5. QED
    BY <1>2, <1>5, <2>1, <2>4 DEF JoinedAt
<1>6. QED
  BY <1>4, <1>5

LEMMA AnsweringExact ==
  ASSUME Inv, ExactInv, phase = "writing", phase' = phase, UNCHANGED <<page, planVars, records, line, edges>>,
         NEW more \in Seq(Nat), text' = text \o more
  PROVE  ExactInv'
<1>1. Begun' = Begun /\ lines' = lines
  BY DEF Begun, planVars
<1>2. text \in Seq(Nat)
  BY DEF Inv, WriteTyped
<1>3. text' \in Seq(Nat) /\ \A y \in DOMAIN text : text'[y] = text[y]
  BY <1>2
<1>4. \A a \in Begun' : JoinedAt(edges, text, a)'
  BY <1>1, <1>3, JoinedStays
<1>5. EdgesJoin'
  BY <1>4 DEF EdgesJoin
<1>6. QED
  BY <1>5, WritingExact

LEMMA TakeAnswerExact ==
  ASSUME Inv, ExactInv, TakeWord \/ TakeOpen \/ TakeClose
  PROVE  ExactInv'
<1>1. /\ phase = "writing" /\ phase' = phase /\ UNCHANGED <<page, planVars, records, line, edges>>
      /\ text' = Append(text, NewWord) \/ text' = text
  BY DEF TakeWord, TakeOpen, TakeClose, Writing
<1>2. text \in Seq(Nat) /\ NewWord \in Nat
  BY PageIs DEF Inv, WriteTyped, PlanTyped, NewWord
<1>3. <<NewWord>> \in Seq(Nat) /\ <<>> \in Seq(Nat)
  BY <1>2
<1>4. Append(text, NewWord) = text \o <<NewWord>> /\ text = text \o <<>>
  BY <1>2
<1>5. QED
  BY <1>1, <1>3, <1>4, AnsweringExact

LEMMA PutExact == ASSUME Inv, ExactInv, TakeKept \/ TakeLost PROVE ExactInv'
<1>1. /\ phase = "writing" /\ phase' = phase /\ UNCHANGED <<page, planVars, records, line, edges>>
      /\ text' = text \/ \E n \in Mine : kept[n] # NoRange /\ text' = text \o Copy(kept[n].from, kept[n].to)
  <2>1. CASE TakeKept
    BY <2>1 DEF TakeKept, Writing, MayPut
  <2>2. CASE TakeLost
    <3> DEFINE n == CHOOSE m \in Lost : \A o \in Lost : m <= o
    <3>1. phase = "writing" /\ Lost # {} /\ text' = text \o Copy(kept[n].from, kept[n].to)
      BY <2>2 DEF TakeLost
    <3>2. Lost \in SUBSET Nat
      <4>1. Mine \subseteq DOMAIN kept
        BY <3>1, MineIs
      <4>2. \A m \in DOMAIN kept : m \in Nat
        BY LinesAre DEF Inv
      <4>3. QED
        BY <4>1, <4>2 DEF Lost
    <3>3. \E m \in Lost : \A o \in Lost : m <= o
      BY <3>1, <3>2, FirstExists
    <3>4. n \in Lost
      BY <3>3
    <3> HIDE DEF n
    <3>5. n \in Mine /\ kept[n] # NoRange
      BY <3>4 DEF Lost
    <3>6. phase' = phase /\ UNCHANGED <<page, planVars, records, line, edges>>
      BY <2>2 DEF TakeLost
    <3>7. QED
      BY <3>1, <3>5, <3>6
  <2>3. QED
    BY <2>1, <2>2
<1>2. PICK more \in Seq(Nat) : text' = text \o more
  <2>1. CASE text' = text
    <3>1. text \in Seq(Nat)
      BY DEF Inv, WriteTyped
    <3>2. <<>> \in Seq(Nat) /\ text = text \o <<>>
      BY <3>1
    <3>3. QED
      BY <2>1, <3>2
  <2>2. CASE \E n \in Mine : kept[n] # NoRange /\ text' = text \o Copy(kept[n].from, kept[n].to)
    <3>1. PICK n \in Mine : kept[n] # NoRange /\ text' = text \o Copy(kept[n].from, kept[n].to)
      BY <2>2
    <3>2. n \in DOMAIN kept /\ kept[n].from <= kept[n].to
      BY <1>1, <3>1, MineIs
    <3>3. kept[n].from \in Nat /\ kept[n].to \in Nat
      BY <3>2, LinesAre DEF Inv
    <3>4. Copy(kept[n].from, kept[n].to) \in Seq(Nat)
      BY <3>2, <3>3, CopyIs
    <3>5. QED
      BY <3>1, <3>4
  <2>3. QED
    BY <1>1, <2>1, <2>2
<1>3. QED
  BY <1>1, <1>2, AnsweringExact

\* A line's beginning in the new text
LEMMA LineBegins ==
  ASSUME Inv, ExactInv, phase = "answering", line <= Len(lines),
         NEW before, before = IF line = 1 THEN text ELSE Append(text, Newline)
  PROVE  /\ before \in Seq(Nat) /\ \A y \in DOMAIN text : before[y] = text[y]
         /\ line = 1 => Len(before) = 0
         /\ line # 1 => /\ Len(before) = edges[2 * line - 2].now + 1 /\ before[Len(before)] = Newline
                        /\ Len(before) \in DOMAIN before
<1>1. text \in Seq(Nat) /\ before \in Seq(Nat)
  BY BeforeIs DEF Inv, WriteTyped
<1>2. IF line = 1 THEN text = <<>> ELSE edges[2 * line - 2].now = Len(text)
  BY DEF ExactInv, EdgesJoin
<1>3. QED
  BY <1>1, <1>2

LEMMA TakeLineExact == ASSUME Inv, ExactInv, TakeLine PROVE ExactInv'
<1> DEFINE before == IF line = 1 THEN text ELSE Append(text, Newline)
           first == [old |-> Cut.start, now |-> Len(before)]
           last == [old |-> Cut.end, now |-> Len(text')]
<1>1. /\ phase = "answering" /\ line <= Len(lines) /\ UNCHANGED <<page, planVars, records>>
      /\ \/ /\ text' = before \o Copy(Cut.start, Cut.end) /\ edges' = edges \o <<first, last>>
            /\ line' = line + 1 /\ phase' = phase
         \/ /\ text' = before /\ edges' = Append(edges, first) /\ phase' = "writing" /\ line' = line
  BY DEF TakeLine
<1>2. /\ before \in Seq(Nat) /\ (\A y \in DOMAIN text : before[y] = text[y])
      /\ line = 1 => Len(before) = 0
      /\ line # 1 => /\ Len(before) = edges[2 * line - 2].now + 1 /\ before[Len(before)] = Newline
                     /\ Len(before) \in DOMAIN before
  BY <1>1, LineBegins
<1>3. /\ line \in Nat /\ 0 < line /\ edges \in Seq(Edge) /\ Len(edges) = 2 * line - 2
      /\ Cut.start \in Nat /\ Cut.end \in Nat /\ Cut.start <= Cut.end
      /\ \A a \in Begun : a < line
  BY <1>1, BeforeIs
<1>4. text \in Seq(Nat)
  BY DEF Inv, WriteTyped
<1> HIDE DEF before
<1>5. first.now = Len(before) /\ last.now = Len(text')
  OBVIOUS
<1> HIDE DEF first, last
<1>6. page' = page /\ lines' = lines /\ Newline' = Newline
  BY <1>1, SamePage DEF planVars
<1>7. PICK more \in Seq(Nat) : text' = before \o more
  <2>1. Copy(Cut.start, Cut.end) \in Seq(Nat)
    BY <1>3, CopyIs
  <2>2. <<>> \in Seq(Nat) /\ before = before \o <<>>
    BY <1>2
  <2>3. QED
    BY <1>1, <2>1, <2>2
<1>8. text' \in Seq(Nat) /\ \A y \in DOMAIN before : text'[y] = before[y]
  BY <1>2, <1>7
<1>9. \A y \in DOMAIN text : y \in DOMAIN before
  <2>1. CASE line = 1
    BY <2>1 DEF before
  <2>2. CASE line # 1
    BY <1>4, <2>2 DEF before
  <2>3. QED
    BY <2>1, <2>2
<1>10. \A y \in DOMAIN text : text'[y] = text[y]
  BY <1>2, <1>8, <1>9
<1>11. /\ edges'[2 * line - 1] = first /\ \A y \in 1..(2 * line - 2) : edges'[y] = edges[y]
       /\ line' = line + 1 => edges'[2 * line] = last
  <2>1. edges \o <<first, last>> = Append(Append(edges, first), last)
    BY <1>3, AppendTwo
  <2>2. Append(edges, first)[2 * line - 1] = first /\ \A y \in 1..(2 * line - 2) : Append(edges, first)[y] = edges[y]
    BY <1>3
  <2>3. Append(edges, first) \in Seq(Edge \cup {first}) /\ Len(Append(edges, first)) = 2 * line - 1
    BY <1>3
  <2> DEFINE f == Append(edges, first)
  <2> HIDE DEF f
  <2>4. CASE edges' = Append(f, last)
    <3>1. f[2 * line - 1] = first /\ (\A y \in 1..(2 * line - 2) : f[y] = edges[y])
          /\ f \in Seq(Edge \cup {first}) /\ Len(f) = 2 * line - 1
      BY <2>2, <2>3 DEF f
    <3>2. \A y \in 1..(2 * line - 1) : edges'[y] = f[y]
      BY <1>3, <2>4, <3>1
    <3>3. edges'[2 * line] = last
      BY <1>3, <2>4, <3>1
    <3>4. QED
      BY <1>3, <3>1, <3>2, <3>3
  <2>5. CASE edges' = f /\ line' = line
    <3>1. line' # line + 1
      BY <1>3, <2>5
    <3>2. QED
      BY <2>2, <2>5, <3>1 DEF f
  <2>6. QED
    BY <1>1, <2>1, <2>4, <2>5 DEF f
<1>12. ASSUME NEW a \in Begun PROVE JoinedAt(edges, text, a)'
  <2>1. a \in Nat /\ 0 < a /\ a < line
    BY <1>1, <1>3, BegunIs
  <2>2. 2 * a - 1 \in 1..(2 * line - 2) /\ (a # 1 => 2 * a - 2 \in 1..(2 * line - 2))
    BY <1>3, <2>1
  <2>3. edges'[2 * a - 1] = edges[2 * a - 1] /\ (a # 1 => edges'[2 * a - 2] = edges[2 * a - 2])
    BY <1>11, <2>2
  <2>4. QED
    BY <1>1, <1>6, <1>8, <1>10, <2>3, JoinedStays
<1>13. ASSUME NEW a, a = line PROVE JoinedAt(edges, text, a)'
  <2>1. CASE line = 1
    BY <1>2, <1>5, <1>11, <1>13, <2>1 DEF JoinedAt
  <2>2. CASE line # 1
    <3>1. edges'[2 * line - 2] = edges[2 * line - 2]
      <4>1. 2 * line - 2 \in 1..(2 * line - 2)
        BY <1>3, <2>2
      <4>2. QED
        BY <1>11, <4>1
    <3>2. text'[Len(before)] = Newline
      BY <1>2, <1>8, <2>2
    <3>3. QED
      BY <1>2, <1>5, <1>6, <1>11, <1>13, <2>2, <3>1, <3>2 DEF JoinedAt
  <2>3. QED
    BY <2>1, <2>2
<1>14. \A a \in Begun' : a \in Begun \/ a = line
  BY <1>1, <1>6, BegunNext
<1>15. phase' # "writing" => line' # 1 /\ edges'[2 * line' - 2].now = Len(text')
  <2>1. phase' # "writing" => line' = line + 1
    BY <1>1
  <2>2. 2 * (line + 1) - 2 = 2 * line /\ line + 1 # 1
    BY <1>3
  <2>3. QED
    BY <1>5, <1>11, <2>1, <2>2
<1>16. EdgesJoin'
  BY <1>12, <1>13, <1>14, <1>15 DEF EdgesJoin
<1>17. QED
  BY <1>1, <1>16, WritingExact

LEMMA EndAnswerExact == ASSUME Inv, ExactInv, EndAnswer PROVE ExactInv'
<1> DEFINE last == [old |-> Cut.end, now |-> Len(text)]
<1>1. /\ phase = "writing" /\ phase' = "answering" /\ UNCHANGED <<page, planVars, records, text>>
      /\ line' = line + 1 /\ edges' = Append(edges, last)
  BY DEF EndAnswer
<1>2. last.now = Len(text)
  OBVIOUS
<1> HIDE DEF last
<1>3. /\ edges \in Seq(Edge) /\ Len(edges) = 2 * line - 1 /\ line \in Nat /\ 0 < line /\ text' \in Seq(Nat)
      /\ page' = page /\ lines' = lines
  BY <1>1 DEF Inv, WriteTyped, WriteOK, EdgesOK, planVars
<1>4. edges'[2 * line] = last /\ \A y \in 1..(2 * line - 1) : edges'[y] = edges[y]
  BY <1>1, <1>3
<1>5. \A a \in DOMAIN lines : a \in Nat
  BY LinesAre DEF Inv
<1>6. \A a \in Begun' : a \in Begun
  BY <1>1, <1>3, <1>5 DEF Begun
<1>7. ASSUME NEW a \in Begun PROVE JoinedAt(edges, text, a)'
  <2>1. a \in Nat /\ 0 < a /\ a <= line
    BY <1>1, BegunIs
  <2>2. 2 * a - 1 \in 1..(2 * line - 1) /\ (a # 1 => 2 * a - 2 \in 1..(2 * line - 1))
    BY <1>3, <2>1
  <2>3. edges'[2 * a - 1] = edges[2 * a - 1] /\ (a # 1 => edges'[2 * a - 2] = edges[2 * a - 2])
    BY <1>4, <2>2
  <2>4. QED
    BY <1>1, <1>3, <2>3, JoinedStays
<1>8. line' # 1 /\ edges'[2 * line' - 2].now = Len(text')
  <2>1. 2 * (line + 1) - 2 = 2 * line /\ line + 1 # 1
    BY <1>3
  <2>2. QED
    BY <1>1, <1>2, <1>4, <2>1
<1>9. EdgesJoin'
  BY <1>6, <1>7, <1>8 DEF EdgesJoin
<1>10. QED
  BY <1>1, <1>9, WritingExact

LEMMA StutterExact == ASSUME Inv, ExactInv, UNCHANGED vars PROVE ExactInv'
<1>1. /\ page' = page /\ phase' = phase /\ i' = i /\ from' = from /\ lines' = lines /\ links' = links
      /\ line' = line /\ text' = text /\ edges' = edges /\ moved' = moved /\ records' = records
  BY DEF vars, planVars, writeVars
<1>2. /\ End' = End /\ Newline' = Newline /\ RunsOverEmptyLine' = RunsOverEmptyLine
      /\ (\A p : CharAt(p)' = CharAt(p)) /\ Begun' = Begun
  BY <1>1, SamePage DEF CharAt, Begun
<1>3. LinesTile'
  BY <1>1, SameTiles DEF ExactInv
<1>4. phase # "planning" => EdgesJoin'
  BY <1>1, <1>2 DEF ExactInv, EdgesJoin, JoinedAt
<1>5. Ranges' = Ranges
  BY <1>1 DEF Ranges, Blocks
<1>6. RecordsFit' /\ Unchanged'
  BY <1>1, <1>2, <1>5 DEF ExactInv, RecordsFit, Unchanged
<1>7. KeptRecordsExact'
  BY <1>1, <1>2 DEF ExactInv, KeptRecordsExact, Spared, Copy
<1>8. QED
  BY <1>1, <1>2, <1>3, <1>4, <1>6, <1>7 DEF ExactInv

\* All is written, and the records are to be placed
Landing ==
  /\ Written /\ RangesApart /\ TextOf(text, moved) /\ LinesTile /\ EdgesJoin
  /\ line = Len(lines) + 1 /\ phase = "answering"

LEMMA IsLanding == ASSUME Inv, KeptInv, ExactInv, PlaceRecords PROVE Landing
<1>1. phase = "answering" /\ line > Len(lines)
  BY DEF PlaceRecords
<1>2. Written
  BY <1>1, AllWritten
<1>3. line <= Len(lines) + 1 /\ line \in Nat /\ Len(lines) \in Nat
  BY <1>2, LinesAre DEF Written, EdgesOK, WriteTyped
<1>4. QED
  BY <1>1, <1>2, <1>3 DEF Landing, Inv, KeptInv, ExactInv

LEMMA MovedAre ==
  ASSUME Landing
  PROVE  \A m \in moved : /\ m.from \in Nat /\ m.to \in Nat /\ m.at \in Nat /\ m.from <= m.to
                          /\ m.at + m.to - m.from <= Len(text)
BY DEF Landing, Written, MovedOK, WriteTyped, Copied, TextOf

\* Every edge is an end of a line, and lands in the text
LEMMA EdgesAre ==
  ASSUME Landing, NEW e \in DOMAIN edges
  PROVE  /\ edges[e].now \in Nat /\ edges[e].now <= Len(text) /\ Len(text) \in Nat
         /\ \E a \in DOMAIN lines : \/ e = 2 * a - 1 /\ edges[e].old = lines[a].start
                                    \/ e = 2 * a /\ edges[e].old = lines[a].end
<1>1. Written /\ PlanTyped /\ text \in Seq(Nat) /\ EdgesOK
  BY DEF Landing, Written, WriteTyped
<1>2. DOMAIN edges = 1..(2 * Len(lines)) /\ Len(lines) \in Nat
  BY <1>1, LinesAre DEF Written, WriteTyped
<1>3. e \in Nat /\ 0 < e /\ e <= 2 * Len(lines)
  BY <1>2
<1>4. PICK c \in Nat \ {0} : e = 2 * c - 1 \/ e = 2 * c
  BY <1>3, EvenOrOdd
<1>5. c \in 1..Len(lines)
  BY <1>2, <1>3, <1>4
<1>6. c \in DOMAIN lines
  BY <1>1, <1>5, LinesAre
<1>7. /\ edges[2 * c - 1].old = lines[c].start /\ edges[2 * c].old = lines[c].end
      /\ edges[2 * c - 1].now \in Nat /\ edges[2 * c].now \in Nat
      /\ edges[2 * c - 1].now <= Sofar(c) /\ Sofar(c) <= Len(text) /\ Sofar(c) = edges[2 * c].now
  BY <1>1, <1>6 DEF Written, EdgesOK
<1>8. Len(text) \in Nat
  BY <1>1
<1>9. QED
  BY <1>4, <1>6, <1>7, <1>8

\* A copied range a place is in, or ends
Over(m, p, isEnd) == IF isEnd THEN m.from < p /\ p <= m.to ELSE m.from <= p /\ p < m.to

\* The search finds the only one
LEMMA OverLast ==
  ASSUME Landing, NEW w \in moved, NEW p \in Nat, NEW isEnd \in BOOLEAN, Over(w, p, isEnd)
  PROVE  w \in LastFrom(p, isEnd) /\ \A x \in moved : Over(x, p, isEnd) => x = w
<1>1. \A m \in moved : m.from \in Nat /\ m.to \in Nat /\ m.from <= m.to
  BY MovedAre
<1>2. \A o \in moved : o # w => o.to <= w.from \/ w.to <= o.from
  BY DEF Landing, RangesApart
<1>3. ASSUME NEW o \in moved, IF isEnd THEN o.from < p ELSE o.from <= p
      PROVE  o.from < w.from \/ (o.from = w.from /\ o.to <= w.to)
  <2>1. CASE o = w
    BY <1>1, <2>1
  <2>2. CASE o # w
    <3>1. o.from \in Nat /\ o.to \in Nat /\ o.from <= o.to /\ w.from \in Nat /\ w.to \in Nat /\ w.from <= w.to
      BY <1>1
    <3>2. ~(w.to <= o.from)
      BY <1>3, <3>1 DEF Over
    <3>3. o.to <= w.from
      BY <1>2, <2>2, <3>2
    <3>4. QED
      BY <3>1, <3>3
  <2>3. QED
    BY <2>1, <2>2
<1>4. w \in LastFrom(p, isEnd)
  BY <1>3 DEF LastFrom, Over
<1>5. ASSUME NEW x \in moved, Over(x, p, isEnd) PROVE x = w
  <2>1. x.from \in Nat /\ x.to \in Nat /\ w.from \in Nat /\ w.to \in Nat
    BY <1>1
  <2>2. ~(x.to <= w.from) /\ ~(w.to <= x.from)
    BY <1>5, <2>1 DEF Over
  <2>3. QED
    BY <1>2, <2>2
<1>6. QED
  BY <1>4, <1>5

\* A record in a copied range is held by that range
LEMMA HeldBy ==
  ASSUME Landing, NEW w \in moved, NEW r, r.from \in Nat, r.to \in Nat, r.from < r.to, w.from <= r.from, r.to <= w.to
  PROVE  Held(r) = {w} /\ PlaceOf(r) = [s |-> w.at + r.from - w.from + 1, e |-> w.at + r.to - w.from + 1]
<1>1. \A m \in moved : m.from \in Nat /\ m.to \in Nat
  BY MovedAre
<1>2. r.from < w.to
  BY <1>1
<1>3. Over(w, r.from, FALSE)
  BY <1>2 DEF Over
<1>4. w \in LastFrom(r.from, FALSE) /\ \A x \in moved : Over(x, r.from, FALSE) => x = w
  BY <1>3, OverLast
<1>5. ASSUME NEW m \in Held(r) PROVE m = w
  <2>1. m \in moved /\ m.from <= r.from /\ r.to <= m.to
    BY DEF Held, LastFrom
  <2>2. r.from < m.to
    BY <1>1, <2>1
  <2>3. QED
    BY <1>4, <2>1, <2>2 DEF Over
<1>6. w \in Held(r)
  BY <1>4 DEF Held
<1>7. Held(r) = {w}
  BY <1>5, <1>6
<1>8. (CHOOSE x \in {w} : TRUE) = w
  OBVIOUS
<1>9. PlaceOf(r) = [s |-> w.at + r.from - w.from + 1, e |-> w.at + r.to - w.from + 1]
  BY <1>7, <1>8 DEF PlaceOf
<1>10. QED
  BY <1>7, <1>9

\* An end of a record lands on an edge, in a copied range, or nowhere
LEMMA LandIs ==
  ASSUME Landing, NEW p \in Nat, NEW isEnd \in BOOLEAN
  PROVE  \/ \E e \in DOMAIN edges : edges[e].old = p /\ Land(p, isEnd) = edges[e].now + 1
         \/ /\ \A e \in DOMAIN edges : edges[e].old # p
            /\ \/ \E x \in moved : Over(x, p, isEnd) /\ Land(p, isEnd) = x.at + p - x.from + 1
               \/ Land(p, isEnd) = 0 /\ \A x \in LastFrom(p, isEnd) : ~Over(x, p, isEnd)
<1> DEFINE at == {e \in DOMAIN edges : edges[e].old = p}
           ms == {x \in LastFrom(p, isEnd) : IF isEnd THEN p <= x.to ELSE p < x.to}
<1>1. edges \in Seq(Edge)
  BY DEF Landing, Written, WriteTyped
<1>2. CASE at # {}
  <2> DEFINE f == CHOOSE e \in at : \A g \in at : e <= g
  <2>1. at \in SUBSET Nat
    BY <1>1
  <2>2. Land(p, isEnd) = edges[f].now + 1
    BY <1>2 DEF Land
  <2>3. f \in at
    <3> HIDE DEF at
    <3>1. \E e \in at : \A g \in at : e <= g
      BY <1>2, <2>1, FirstExists
    <3>2. QED
      BY <3>1
  <2> HIDE DEF f
  <2>4. QED
    BY <2>2, <2>3
<1>3. CASE at = {}
  <2>1. \A e \in DOMAIN edges : edges[e].old # p
    BY <1>3
  <2>2. Land(p, isEnd) = IF ms = {} THEN 0 ELSE LET x == CHOOSE y \in ms : TRUE IN x.at + p - x.from + 1
    BY <1>3 DEF Land
  <2>3. \A x \in LastFrom(p, isEnd) : (x \in ms => Over(x, p, isEnd) /\ x \in moved) /\ (Over(x, p, isEnd) => x \in ms)
    BY DEF LastFrom, Over
  <2>4. \A x \in ms : x \in LastFrom(p, isEnd)
    OBVIOUS
  <2> HIDE DEF ms, at
  <2>5. CASE ms = {}
    BY <2>1, <2>2, <2>3, <2>5
  <2>6. CASE ms # {}
    <3> DEFINE x == CHOOSE y \in ms : TRUE
    <3>1. x \in ms /\ Land(p, isEnd) = x.at + p - x.from + 1
      BY <2>2, <2>6
    <3> HIDE DEF x
    <3>2. QED
      BY <2>1, <2>3, <2>4, <3>1
  <2>7. QED
    BY <2>5, <2>6
<1>4. QED
  BY <1>2, <1>3

LEMMA LandFits ==
  ASSUME Landing, NEW p \in Nat, NEW isEnd \in BOOLEAN
  PROVE  Land(p, isEnd) \in Nat /\ Land(p, isEnd) <= Len(text) + 1
<1>1. Len(text) \in Nat
  BY DEF Landing, Written, WriteTyped
<1>2. ASSUME NEW e \in DOMAIN edges, Land(p, isEnd) = edges[e].now + 1
      PROVE  Land(p, isEnd) \in Nat /\ Land(p, isEnd) <= Len(text) + 1
  BY <1>1, <1>2, EdgesAre
<1>3. ASSUME NEW x \in moved, Over(x, p, isEnd), Land(p, isEnd) = x.at + p - x.from + 1
      PROVE  Land(p, isEnd) \in Nat /\ Land(p, isEnd) <= Len(text) + 1
  <2>1. x.from \in Nat /\ x.to \in Nat /\ x.at \in Nat /\ x.at + x.to - x.from <= Len(text)
    BY MovedAre
  <2>2. x.from <= p /\ p <= x.to
    BY <1>3, <2>1 DEF Over
  <2>3. QED
    BY <1>1, <1>3, <2>1, <2>2
<1>4. QED
  BY <1>1, <1>2, <1>3, LandIs

\* A record found lies in the new text
LEMMA PlaceFits ==
  ASSUME Landing, NEW r, r.from \in Nat, r.to \in Nat, r.from < r.to, Found(r)
  PROVE  PlaceOf(r).s \in Nat /\ PlaceOf(r).e \in Nat /\ PlaceOf(r).e <= Len(text) + 1
<1>1. Len(text) \in Nat
  BY DEF Landing, Written, WriteTyped
<1>2. CASE Held(r) # {}
  <2>1. PICK w \in Held(r) : TRUE
    BY <1>2
  <2>2. w \in moved /\ w.from <= r.from /\ r.to <= w.to
    BY DEF Held, LastFrom
  <2>3. PlaceOf(r).s = w.at + r.from - w.from + 1 /\ PlaceOf(r).e = w.at + r.to - w.from + 1
    BY <2>2, HeldBy
  <2>4. w.from \in Nat /\ w.to \in Nat /\ w.at \in Nat /\ w.at + w.to - w.from <= Len(text)
    BY <2>2, MovedAre
  <2>5. QED
    BY <1>1, <2>2, <2>3, <2>4
<1>3. CASE Held(r) = {} /\ LinkOf(r) # {}
  <2> DEFINE j == CHOOSE x \in LinkOf(r) : TRUE
             n == links[j].n
  <2>1. j \in DOMAIN links
    BY <1>3 DEF LinkOf
  <2>2. PlaceOf(r) = landed[n]
    BY <1>3 DEF PlaceOf
  <2> HIDE DEF j
  <2>3. PICK a \in DOMAIN lines : LinkOn(links[j], lines[a].pieces, lines[a].start, lines[a].end)
    BY <2>1 DEF Landing, Written, PlanOK, LinksOK
  <2>4. n \in DOMAIN kept
    BY <2>3 DEF LinkOn, Landing, Written, PlanOK, CutKept, Inside
  <2> HIDE DEF n
  <2>5. landed[n].s \in Nat /\ landed[n].e \in Nat
    BY <2>4 DEF Landing, Written, LandedOK, Place
  <2>6. landed[n] # Nowhere
    BY <2>2 DEF Found, Nowhere
  <2>7. PICK c \in DOMAIN lines : landed[n].e <= Sofar(c) + 1
    BY <2>4, <2>6 DEF Landing, Written, LandedOK
  <2>8. Sofar(c) <= Len(text) /\ Sofar(c) \in Nat
    BY DEF Landing, Written, EdgesOK
  <2>9. QED
    BY <1>1, <2>2, <2>5, <2>7, <2>8
<1>4. CASE Held(r) = {} /\ LinkOf(r) = {}
  <2>1. PlaceOf(r) = [s |-> Land(r.from, FALSE), e |-> Land(r.to, TRUE)]
    BY <1>4 DEF PlaceOf
  <2>2. PlaceOf(r).s = Land(r.from, FALSE) /\ PlaceOf(r).e = Land(r.to, TRUE)
    BY <2>1
  <2>3. Land(r.from, FALSE) \in Nat /\ Land(r.to, TRUE) \in Nat /\ Land(r.to, TRUE) <= Len(text) + 1
    BY LandFits
  <2>4. QED
    BY <2>2, <2>3
<1>5. QED
  BY <1>2, <1>3, <1>4

LEMMA RangesAre == ASSUME Landing, NEW r \in Ranges PROVE r.from \in Nat /\ r.to \in Nat /\ r.from < r.to /\ r.to <= End
<1>1. page \in Pages /\ PlanTyped /\ CutOK
  BY DEF Landing, Written, PlanTyped, PlanOK
<1>2. \A k \in page.keep \cup page.sent : k.from \in Nat /\ k.to \in Nat /\ k.from < k.to /\ k.to <= End
  BY <1>1, PageIs
<1>3. CASE \E k \in page.keep : r = [from |-> k.from, to |-> k.to]
  BY <1>2, <1>3
<1>4. CASE r \in page.sent
  BY <1>2, <1>4
<1>5. CASE r \in Blocks /\ r.from < r.to
  <2>1. PICK a \in DOMAIN lines, b \in DOMAIN lines : r = [from |-> lines[a].start, to |-> lines[b].end]
    BY <1>5 DEF Blocks
  <2>2. lines[a].start \in Nat /\ lines[b].end \in Nat /\ lines[b].end <= End
    BY <1>1, LinesAre DEF CutOK
  <2>3. QED
    BY <1>5, <2>1, <2>2
<1>6. QED
  BY <1>3, <1>4, <1>5 DEF Ranges

\* The new text of a record in a copied range is the old one's
LEMMA TextMoves ==
  ASSUME Landing, NEW m \in moved, NEW a \in Nat, NEW b \in Nat, m.from <= a, a < b, b <= m.to,
         NEW s, s = m.at + a - m.from, NEW e, e = m.at + b - m.from
  PROVE  SubSeq(text, s + 1, e) = Copy(a, b)
<1>1. text \in Seq(Nat) /\ Len(text) \in Nat /\ DOMAIN text = 1..Len(text)
  BY DEF Landing, Written, WriteTyped
<1>2. m.from \in Nat /\ m.to \in Nat /\ m.at \in Nat /\ m.at + m.to - m.from <= Len(text)
  BY MovedAre
<1>3. s \in Nat /\ e \in Nat /\ e - s = b - a /\ s < e /\ e <= Len(text) /\ b - a \in Nat
  <2> DEFINE l == Len(text)
  <2>1. l \in Nat /\ m.at + m.to - m.from <= l /\ m.from \in Nat /\ m.to \in Nat /\ m.at \in Nat
    BY <1>1, <1>2
  <2> HIDE DEF l
  <2>2. s \in Nat /\ e \in Nat /\ e - s = b - a /\ s < e /\ e <= l /\ b - a \in Nat
    BY <2>1
  <2>3. QED
    BY <2>2 DEF l
<1>4. \A y \in (s + 1)..e : text[y] \in Nat
  BY <1>1, <1>3
<1>5. /\ SubSeq(text, s + 1, e) \in Seq(Nat) /\ Len(SubSeq(text, s + 1, e)) = b - a
      /\ \A y \in 1..(b - a) : SubSeq(text, s + 1, e)[y] = text[s + y]
  <2>1. /\ SubSeq(text, s + 1, e) \in Seq(Nat)
        /\ Len(SubSeq(text, s + 1, e)) = IF s + 1 <= e THEN e - (s + 1) + 1 ELSE 0
        /\ \A y \in 1..(e - (s + 1) + 1) : SubSeq(text, s + 1, e)[y] = text[s + 1 + y - 1]
    <3>1. s + 1 \in Int /\ e \in Int
      BY <1>3
    <3>2. QED
      BY <1>4, <3>1, SubSeqProperties
  <2>2. s + 1 <= e /\ e - (s + 1) + 1 = b - a /\ \A y \in Nat : s + 1 + y - 1 = s + y
    BY <1>3
  <2>3. \A y \in 1..(b - a) : SubSeq(text, s + 1, e)[y] = text[s + y]
    BY <2>1, <2>2
  <2>4. QED
    BY <2>1, <2>2, <2>3
<1>6. ASSUME NEW y \in 1..(b - a) PROVE text[s + y] = Copy(a, b)[y]
  <2> DEFINE p == a + y - 1
  <2>1. p \in m.from..(m.to - 1) /\ m.at + p - m.from + 1 = s + y
    <3>1. m.from \in Nat /\ m.to \in Nat /\ m.at \in Nat /\ y \in Nat /\ 1 <= y /\ y <= b - a
      BY <1>2, <1>3
    <3>2. QED
      BY <3>1
  <2>2. Copy(a, b)[y] = p
    BY DEF Copy
  <2> HIDE DEF p
  <2>3. text[m.at + p - m.from + 1] = p
    BY <2>1 DEF Landing, TextOf
  <2>4. QED
    BY <2>1, <2>2, <2>3
<1>7. Copy(a, b) \in Seq(Nat) /\ Len(Copy(a, b)) = b - a
  BY CopyIs
<1> DEFINE u == SubSeq(text, s + 1, e)
           c == Copy(a, b)
<1> HIDE DEF u, c
<1>8. u \in Seq(Nat) /\ c \in Seq(Nat) /\ Len(u) = Len(c) /\ \A y \in 1..Len(u) : u[y] = c[y]
  BY <1>5, <1>6, <1>7 DEF u, c
<1>9. u = c
  BY <1>8, SeqEqual
<1>10. QED
  BY <1>9 DEF u, c

\* The record of a kept part
LEMMA KeptPlace ==
  ASSUME Inv, KeptInv, Landing, ~RunsOverEmptyLine, NEW k \in Spared,
         \A p \in k.from..(k.to - 1) : CharAt(p) # "newline",
         NEW r, r = [from |-> k.from, to |-> k.to]
  PROVE  /\ r \in Ranges /\ Found(r)
         /\ SubSeq(text, PlaceOf(r).s - 1 + 1, PlaceOf(r).e - 1) = Copy(k.from, k.to)
<1>1. r \in Ranges /\ r.from = k.from /\ r.to = k.to
  BY DEF Ranges, Spared
<1>2. k.from \in Nat /\ k.to \in Nat /\ k.from < k.to
  BY <1>1, RangesAre
<1>3. KeptRun(k.from, k.to)
  BY <1>2 DEF KeptRun
<1>4. phase # "planning" /\ line > Len(lines)
  <2>1. Len(lines) \in Nat
    BY DEF Landing, Written, PlanTyped
  <2>2. QED
    BY <2>1 DEF Landing
<1>5. PICK m \in moved : m.from <= k.from /\ k.to <= m.to
  BY <1>2, <1>3, <1>4, KeptIsCopied
<1>6. PlaceOf(r) = [s |-> m.at + r.from - m.from + 1, e |-> m.at + r.to - m.from + 1]
  BY <1>1, <1>2, <1>5, HeldBy
<1>7. m.from \in Nat /\ m.to \in Nat /\ m.at \in Nat
  BY MovedAre
<1>8. PlaceOf(r).s = m.at + k.from - m.from + 1 /\ PlaceOf(r).e = m.at + k.to - m.from + 1
  BY <1>1, <1>6
<1>9. Found(r)
  BY <1>2, <1>5, <1>7, <1>8 DEF Found
<1>10. PlaceOf(r).s - 1 = m.at + k.from - m.from /\ PlaceOf(r).e - 1 = m.at + k.to - m.from
  BY <1>2, <1>5, <1>7, <1>8
<1>11. SubSeq(text, PlaceOf(r).s - 1 + 1, PlaceOf(r).e - 1) = Copy(k.from, k.to)
  BY <1>2, <1>5, <1>10, TextMoves
<1>12. QED
  BY <1>1, <1>9, <1>11

(***************************************************************************)
(* A text that comes back as it went                                       *)
(***************************************************************************)
CameBack ==
  /\ Landing
  /\ \A j \in DOMAIN lines : \E m \in moved : m.from = lines[j].start /\ m.to = lines[j].end
  /\ Len(text) = End

LEMMA LinesTiled ==
  ASSUME Landing
  PROVE  /\ Len(lines) \in Nat /\ 0 < Len(lines) /\ DOMAIN lines = 1..Len(lines) /\ lines[1].start = 0
         /\ lines[Len(lines)].end = End /\ End \in Nat
         /\ \A a \in DOMAIN lines : /\ lines[a].start \in Nat /\ lines[a].end \in Nat /\ lines[a].start <= lines[a].end
                                    /\ a # Len(lines) => a + 1 \in DOMAIN lines /\ lines[a + 1].start = lines[a].end + 1
                                    /\ a # 1 => a - 1 \in DOMAIN lines /\ lines[a].start = lines[a - 1].end + 1
<1>1. LinesTile /\ PlanTyped /\ CutOK /\ lines \in Seq(CutLine) /\ phase # "planning" /\ page \in Pages
  BY DEF Landing, Written, PlanOK, PlanTyped
<1>2. lines # <<>> /\ Len(lines) \in Nat /\ DOMAIN lines = 1..Len(lines)
  BY <1>1 DEF LinesTile
<1>3. 0 < Len(lines)
  BY <1>1, <1>2
<1>4. 1 \in DOMAIN lines
  BY <1>2, <1>3
<1>5. \A a \in DOMAIN lines : lines[a].start \in Nat /\ lines[a].end \in Nat /\ lines[a].start <= lines[a].end
  BY <1>1, LinesAre DEF CutOK
<1>6. ASSUME NEW a \in DOMAIN lines, a # Len(lines) PROVE a + 1 \in DOMAIN lines /\ lines[a + 1].start = lines[a].end + 1
  <2>1. a + 1 \in DOMAIN lines
    BY <1>2, <1>6
  <2>2. QED
    BY <1>1, <2>1 DEF LinesTile
<1>7. ASSUME NEW a \in DOMAIN lines, a # 1 PROVE a - 1 \in DOMAIN lines /\ lines[a].start = lines[a - 1].end + 1
  <2>1. a - 1 \in DOMAIN lines /\ a - 1 # Len(lines) /\ a - 1 + 1 = a
    BY <1>2, <1>7
  <2>2. QED
    BY <1>6, <2>1
<1>8. lines[1].start = 0 /\ lines[Len(lines)].end = End
  BY <1>1, <1>4 DEF LinesTile
<1>9. End \in Nat
  BY <1>1, PageIs
<1>10. QED
  BY <1>2, <1>3, <1>5, <1>6, <1>7, <1>8, <1>9

\* Every place is on a line or its end
LEMMA LineOf ==
  ASSUME Landing, NEW p \in Nat, p <= End
  PROVE  \E a \in DOMAIN lines : lines[a].start <= p /\ p <= lines[a].end
<1> DEFINE S == {a \in DOMAIN lines : lines[a].start <= p}
           l == Len(lines)
<1>1. /\ l \in Nat /\ 0 < l /\ DOMAIN lines = 1..l /\ lines[1].start = 0
      /\ lines[l].end = End /\ End \in Nat
  BY LinesTiled
<1>2. \A a \in DOMAIN lines : /\ lines[a].end \in Nat
                              /\ a # l => a + 1 \in DOMAIN lines /\ lines[a + 1].start = lines[a].end + 1
  BY LinesTiled
<1>3. S \in SUBSET Nat /\ 1 \in S /\ \A d \in S : d <= l
  BY <1>1
<1>4. PICK a \in S : \A e \in S : e <= a
  <2> HIDE DEF S, l
  <2>1. QED
    BY <1>1, <1>3, LastExists
<1>5. a \in DOMAIN lines /\ lines[a].start <= p
  BY <1>4
<1>6. CASE a = l
  BY <1>1, <1>5, <1>6
<1>7. CASE a # l
  <2>1. a + 1 \in DOMAIN lines /\ lines[a + 1].start = lines[a].end + 1 /\ lines[a].end \in Nat /\ a \in Nat
    BY <1>1, <1>2, <1>5, <1>7
  <2>2. a + 1 \notin S
    BY <1>4, <2>1
  <2>3. ~(lines[a].end + 1 <= p)
    BY <2>1, <2>2
  <2>4. p <= lines[a].end
    BY <2>1, <2>3
  <2>5. QED
    BY <1>5, <2>4
<1>8. QED
  BY <1>6, <1>7

\* The ranges the lines were copied by, and how far they go
LEMMA LineCopied ==
  ASSUME CameBack, NEW a \in DOMAIN lines
  PROVE  \E m \in moved :
           /\ m.from = lines[a].start /\ m.to = lines[a].end
           /\ edges[2 * a - 1].now <= m.at /\ m.at + m.to - m.from <= edges[2 * a].now
<1>1. PICK m \in moved : m.from = lines[a].start /\ m.to = lines[a].end
  BY DEF CameBack
<1>2. Written /\ PlanTyped /\ CutOK
  BY DEF CameBack, Landing, Written, PlanOK
<1>3. PICK c \in DOMAIN lines : CopiedOn(m, c)
  BY <1>2 DEF Written, MovedOK
<1>4. lines[c].start <= m.from /\ m.to <= lines[c].end /\ edges[2 * c - 1].now <= m.at /\ m.at + m.to - m.from <= Sofar(c)
  BY <1>3 DEF CopiedOn
<1>5. /\ lines[a].start <= lines[c].end => a <= c
      /\ lines[c].start <= lines[a].end => c <= a
      /\ a \in Nat /\ c \in Nat
      /\ lines[a].start \in Nat /\ lines[a].end \in Nat /\ lines[c].start \in Nat /\ lines[c].end \in Nat
      /\ lines[a].start <= lines[a].end
  BY <1>2, LinesApart
<1>6. c = a
  BY <1>1, <1>4, <1>5
<1>7. Sofar(a) = edges[2 * a].now
  BY <1>2 DEF Written
<1>8. QED
  BY <1>1, <1>4, <1>6, <1>7

LEMMA EdgesJoined ==
  ASSUME Landing
  PROVE  /\ edges[1].now = 0
         /\ edges[2 * Len(lines)].now = Len(text)
         /\ \A a \in DOMAIN lines : a + 1 \in DOMAIN lines =>
              edges[2 * a + 1].now = edges[2 * a].now + 1 /\ text[edges[2 * a + 1].now] = Newline
         /\ \A a \in DOMAIN lines : edges[2 * a - 1].now \in Nat /\ edges[2 * a].now \in Nat
<1>1. /\ Len(lines) \in Nat /\ 0 < Len(lines) /\ DOMAIN lines = 1..Len(lines)
  BY LinesTiled
<1>2. Begun = DOMAIN lines /\ line = Len(lines) + 1 /\ phase = "answering" /\ EdgesJoin
  BY DEF Landing, Written
<1>3. \A a \in DOMAIN lines : JoinedAt(edges, text, a)
  BY <1>2 DEF EdgesJoin
<1>4. edges[1].now = 0
  <2>1. JoinedAt(edges, text, 1) /\ 2 * 1 - 1 = 1
    BY <1>1, <1>3
  <2>2. QED
    BY <2>1 DEF JoinedAt
<1>5. edges[2 * Len(lines)].now = Len(text)
  <2>1. line # 1 /\ 2 * line - 2 = 2 * Len(lines)
    BY <1>1, <1>2
  <2>2. QED
    BY <1>2, <2>1 DEF EdgesJoin
<1>6. ASSUME NEW a \in DOMAIN lines, a + 1 \in DOMAIN lines
      PROVE  edges[2 * a + 1].now = edges[2 * a].now + 1 /\ text[edges[2 * a + 1].now] = Newline
  <2>1. a + 1 # 1 /\ 2 * (a + 1) - 1 = 2 * a + 1 /\ 2 * (a + 1) - 2 = 2 * a
    BY <1>1
  <2>2. JoinedAt(edges, text, a + 1)
    BY <1>3, <1>6
  <2>3. QED
    BY <2>1, <2>2 DEF JoinedAt
<1>7. \A a \in DOMAIN lines : edges[2 * a - 1].now \in Nat /\ edges[2 * a].now \in Nat
  BY DEF Landing, Written
<1>8. QED
  BY <1>4, <1>5, <1>6, <1>7

\* Nothing was written but the lines, so each begins and ends where it did
LEMMA LinesInPlace ==
  ASSUME CameBack, NEW a \in DOMAIN lines
  PROVE  edges[2 * a - 1].now = lines[a].start /\ edges[2 * a].now = lines[a].end
<1> DEFINE l == Len(lines)
           Late == {c \in DOMAIN lines : edges[2 * c - 1].now < lines[c].start}
           Ahd == {c \in DOMAIN lines : lines[c].end < edges[2 * c].now}
<1>1. Landing /\ Len(text) = End
  BY DEF CameBack
<1>2. /\ l \in Nat /\ 0 < l /\ DOMAIN lines = 1..l /\ lines[1].start = 0 /\ lines[l].end = End
      /\ edges[1].now = 0 /\ edges[2 * l].now = End /\ End \in Nat
  BY <1>1, LinesTiled, EdgesJoined
<1>3. ASSUME NEW c \in DOMAIN lines
      PROVE  /\ lines[c].start \in Nat /\ lines[c].end \in Nat /\ lines[c].start <= lines[c].end
             /\ edges[2 * c - 1].now \in Nat /\ edges[2 * c].now \in Nat
             /\ edges[2 * c - 1].now + (lines[c].end - lines[c].start) <= edges[2 * c].now
  <2>1. PICK m \in moved :
          /\ m.from = lines[c].start /\ m.to = lines[c].end
          /\ edges[2 * c - 1].now <= m.at /\ m.at + m.to - m.from <= edges[2 * c].now
    BY LineCopied
  <2>2. m.from \in Nat /\ m.to \in Nat /\ m.at \in Nat
    BY <1>1, MovedAre
  <2>3. lines[c].start <= lines[c].end
    BY <1>1, LinesTiled
  <2>4. edges[2 * c - 1].now \in Nat /\ edges[2 * c].now \in Nat
    BY <1>1, EdgesJoined
  <2>5. QED
    BY <2>1, <2>2, <2>3, <2>4
<1>4. ASSUME NEW c \in DOMAIN lines, c + 1 \in DOMAIN lines
      PROVE  edges[2 * (c + 1) - 1].now = edges[2 * c].now + 1 /\ lines[c + 1].start = lines[c].end + 1
  <2> HIDE DEF l
  <2>1. c \in 1..l /\ c + 1 \in 1..l /\ l \in Nat
    BY <1>2, <1>4
  <2>3. 2 * (c + 1) - 1 = 2 * c + 1 /\ c # l
    BY <2>1
  <2>2. QED
    BY <1>1, <1>4, <2>3, LinesTiled, EdgesJoined DEF l
<1> HIDE DEF l
<1>5. Late = {}
  <2> SUFFICES ASSUME Late # {} PROVE FALSE
    OBVIOUS
  <2>1. Late \in SUBSET Nat
    BY <1>2
  <2>2. PICK c \in Late : \A e \in Late : c <= e
    <3> HIDE DEF Late
    <3>1. QED
      BY <2>1, FirstExists
  <2>3. c \in DOMAIN lines /\ edges[2 * c - 1].now < lines[c].start /\ c \in 1..l
    BY <1>2, <2>2
  <2>4. c # 1
    <3> SUFFICES ASSUME c = 1 PROVE FALSE
      OBVIOUS
    <3>1. edges[2 * 1 - 1].now < lines[1].start
      BY <2>3
    <3>2. 2 * 1 - 1 = 1 /\ ~(0 < 0)
      OBVIOUS
    <3>3. edges[1].now = 0 /\ lines[1].start = 0
      BY <1>2
    <3>4. QED
      BY <3>1, <3>2, <3>3
  <2>5. c - 1 \in DOMAIN lines /\ c - 1 + 1 = c /\ ~(c <= c - 1)
    BY <1>2, <2>3, <2>4
  <2>6. c - 1 \notin Late
    BY <2>2, <2>5
  <2>7. ~(edges[2 * (c - 1) - 1].now < lines[c - 1].start)
    BY <2>5, <2>6
  <2>8. edges[2 * c - 1].now = edges[2 * (c - 1)].now + 1 /\ lines[c].start = lines[c - 1].end + 1
    BY <1>4, <2>3, <2>5
  <2>9. /\ lines[c - 1].start \in Nat /\ lines[c - 1].end \in Nat /\ lines[c - 1].start <= lines[c - 1].end
        /\ edges[2 * (c - 1) - 1].now \in Nat /\ edges[2 * (c - 1)].now \in Nat
        /\ edges[2 * (c - 1) - 1].now + (lines[c - 1].end - lines[c - 1].start) <= edges[2 * (c - 1)].now
    BY <1>3, <2>5
  <2>10. lines[c - 1].end <= edges[2 * (c - 1)].now
    BY <2>7, <2>9
  <2>11. QED
    BY <2>3, <2>8, <2>9, <2>10
<1>6. Ahd = {}
  <2> SUFFICES ASSUME Ahd # {} PROVE FALSE
    OBVIOUS
  <2>1. Ahd \in SUBSET Nat /\ \A d \in Ahd : d <= l
    BY <1>2
  <2>2. PICK c \in Ahd : \A e \in Ahd : e <= c
    <3> HIDE DEF Ahd
    <3>1. QED
      BY <1>2, <2>1, LastExists
  <2>3. c \in DOMAIN lines /\ lines[c].end < edges[2 * c].now /\ c \in 1..l
    BY <1>2, <2>2
  <2>4. c # l
    BY <1>2, <2>3
  <2>5. c + 1 \in DOMAIN lines /\ ~(c + 1 <= c)
    BY <1>2, <2>3, <2>4
  <2>6. c + 1 \notin Ahd
    BY <2>2, <2>5
  <2>7. ~(lines[c + 1].end < edges[2 * (c + 1)].now)
    BY <2>5, <2>6
  <2>8. edges[2 * (c + 1) - 1].now = edges[2 * c].now + 1 /\ lines[c + 1].start = lines[c].end + 1
    BY <1>4, <2>3, <2>5
  <2>9. /\ lines[c + 1].start \in Nat /\ lines[c + 1].end \in Nat /\ lines[c + 1].start <= lines[c + 1].end
        /\ edges[2 * (c + 1) - 1].now \in Nat /\ edges[2 * (c + 1)].now \in Nat
        /\ edges[2 * (c + 1) - 1].now + (lines[c + 1].end - lines[c + 1].start) <= edges[2 * (c + 1)].now
    BY <1>3, <2>5
  <2>10. edges[2 * (c + 1) - 1].now <= lines[c + 1].start
    BY <2>7, <2>9
  <2>11. edges[2 * c].now \in Nat /\ lines[c].end \in Nat
    BY <1>3, <2>3
  <2>12. QED
    BY <2>3, <2>8, <2>10, <2>11
<1>7. ~(edges[2 * a - 1].now < lines[a].start) /\ ~(lines[a].end < edges[2 * a].now)
  BY <1>5, <1>6
<1>8. /\ lines[a].start \in Nat /\ lines[a].end \in Nat /\ lines[a].start <= lines[a].end
      /\ edges[2 * a - 1].now \in Nat /\ edges[2 * a].now \in Nat
      /\ edges[2 * a - 1].now + (lines[a].end - lines[a].start) <= edges[2 * a].now
  BY <1>3
<1>9. QED
  BY <1>7, <1>8

LEMMA LineMoved ==
  ASSUME CameBack, NEW a \in DOMAIN lines
  PROVE  \E m \in moved : m.from = lines[a].start /\ m.to = lines[a].end /\ m.at = lines[a].start
<1>1. PICK m \in moved :
        /\ m.from = lines[a].start /\ m.to = lines[a].end
        /\ edges[2 * a - 1].now <= m.at /\ m.at + m.to - m.from <= edges[2 * a].now
  BY LineCopied
<1>2. edges[2 * a - 1].now = lines[a].start /\ edges[2 * a].now = lines[a].end
  BY LinesInPlace
<1>3. m.from \in Nat /\ m.to \in Nat /\ m.at \in Nat
  BY MovedAre DEF CameBack
<1>4. m.at = lines[a].start
  BY <1>1, <1>2, <1>3
<1>5. QED
  BY <1>1, <1>4

LEMMA TextIsBack ==
  ASSUME CameBack, NEW p \in 0..(End - 1)
  PROVE  text[p + 1] = IF CharAt(p) = "newline" THEN Newline ELSE p
<1>1. Landing /\ LinesTile /\ End \in Nat /\ Len(lines) \in Nat /\ lines[Len(lines)].end = End
  BY LinesTiled DEF CameBack, Landing
<1>2. p \in Nat /\ p < End
  BY <1>1
<1>3. PICK a \in DOMAIN lines : lines[a].start <= p /\ p <= lines[a].end
  BY <1>1, <1>2, LineOf
<1>4. /\ lines[a].start \in Nat /\ lines[a].end \in Nat
      /\ a # Len(lines) => a + 1 \in DOMAIN lines /\ lines[a + 1].start = lines[a].end + 1
      /\ a \in Nat
  BY <1>1, LinesTiled
<1>5. CASE p < lines[a].end
  <2>1. p \in lines[a].start..(lines[a].end - 1)
    BY <1>2, <1>3, <1>4, <1>5
  <2>2. CharAt(p) # "newline"
    BY <1>1, <2>1 DEF LinesTile
  <2>3. PICK m \in moved : m.from = lines[a].start /\ m.to = lines[a].end /\ m.at = lines[a].start
    BY LineMoved
  <2>4. text[m.at + p - m.from + 1] = p
    BY <1>1, <2>1, <2>3 DEF Landing, TextOf
  <2>5. m.at + p - m.from + 1 = p + 1
    BY <1>2, <1>4, <2>3
  <2>6. QED
    BY <2>2, <2>4, <2>5
<1>6. CASE p = lines[a].end
  <2>1. CharAt(p) = "newline"
    BY <1>1, <1>2, <1>6 DEF LinesTile
  <2>2. a + 1 \in DOMAIN lines /\ lines[a + 1].start = p + 1
    BY <1>1, <1>2, <1>4, <1>6
  <2>3. text[edges[2 * a + 1].now] = Newline
    BY <1>1, <2>2, EdgesJoined
  <2>4. edges[2 * (a + 1) - 1].now = p + 1
    BY <2>2, LinesInPlace
  <2>5. 2 * (a + 1) - 1 = 2 * a + 1
    BY <1>4
  <2>6. QED
    BY <2>1, <2>3, <2>4, <2>5
<1>7. QED
  BY <1>2, <1>3, <1>4, <1>5, <1>6

LEMMA LandBack ==
  ASSUME CameBack, NEW p \in Nat, p <= End, NEW isEnd \in BOOLEAN
  PROVE  Land(p, isEnd) = p + 1
<1>1. Landing
  BY DEF CameBack
<1>2. ASSUME NEW e \in DOMAIN edges, edges[e].old = p PROVE edges[e].now = p
  <2>1. PICK a \in DOMAIN lines : \/ e = 2 * a - 1 /\ edges[e].old = lines[a].start
                                  \/ e = 2 * a /\ edges[e].old = lines[a].end
    BY <1>1, EdgesAre
  <2>2. edges[2 * a - 1].now = lines[a].start /\ edges[2 * a].now = lines[a].end
    BY LinesInPlace
  <2>3. QED
    BY <1>2, <2>1, <2>2
<1>3. CASE \E e \in DOMAIN edges : edges[e].old = p /\ Land(p, isEnd) = edges[e].now + 1
  BY <1>2, <1>3
<1>4. CASE /\ \A e \in DOMAIN edges : edges[e].old # p
           /\ \/ \E x \in moved : Over(x, p, isEnd) /\ Land(p, isEnd) = x.at + p - x.from + 1
              \/ Land(p, isEnd) = 0 /\ \A x \in LastFrom(p, isEnd) : ~Over(x, p, isEnd)
  <2>1. PICK a \in DOMAIN lines : lines[a].start <= p /\ p <= lines[a].end
    BY <1>1, LineOf
  <2>2. /\ 2 * a - 1 \in DOMAIN edges /\ 2 * a \in DOMAIN edges
        /\ edges[2 * a - 1].old = lines[a].start /\ edges[2 * a].old = lines[a].end
    BY <1>1 DEF Landing, Written
  <2>3. p # lines[a].start /\ p # lines[a].end
    BY <1>4, <2>2
  <2>4. PICK w \in moved : w.from = lines[a].start /\ w.to = lines[a].end /\ w.at = lines[a].start
    BY LineMoved
  <2>5. w.from \in Nat /\ w.to \in Nat
    BY <1>1, MovedAre
  <2>6. Over(w, p, isEnd)
    BY <2>1, <2>3, <2>4, <2>5 DEF Over
  <2>7. w \in LastFrom(p, isEnd) /\ \A x \in moved : Over(x, p, isEnd) => x = w
    BY <1>1, <2>6, OverLast
  <2>8. Land(p, isEnd) = w.at + p - w.from + 1
    BY <1>4, <2>6, <2>7
  <2>9. QED
    BY <2>4, <2>5, <2>8
<1>5. QED
  BY <1>1, <1>3, <1>4, LandIs

LEMMA RecordBack ==
  ASSUME CameBack, NEW r \in Ranges
  PROVE  Found(r) /\ PlaceOf(r).s - 1 = r.from /\ PlaceOf(r).e - 1 = r.to
<1>1. Landing /\ Written /\ PlanTyped
  BY DEF CameBack, Landing, Written
<1>2. r.from \in Nat /\ r.to \in Nat /\ r.from < r.to /\ r.to <= End /\ End \in Nat
  BY <1>1, RangesAre, LinesTiled
<1>3. ASSUME NEW a \in DOMAIN lines, lines[a].start <= r.from, r.to <= lines[a].end
      PROVE  Held(r) # {} /\ PlaceOf(r).s = r.from + 1 /\ PlaceOf(r).e = r.to + 1
  <2>1. PICK w \in moved : w.from = lines[a].start /\ w.to = lines[a].end /\ w.at = lines[a].start
    BY LineMoved
  <2>2. Held(r) = {w} /\ PlaceOf(r) = [s |-> w.at + r.from - w.from + 1, e |-> w.at + r.to - w.from + 1]
    BY <1>1, <1>2, <1>3, <2>1, HeldBy
  <2>3. w.from \in Nat
    BY <1>1, MovedAre
  <2>4. PlaceOf(r).s = w.at + r.from - w.from + 1 /\ PlaceOf(r).e = w.at + r.to - w.from + 1 /\ Held(r) # {}
    BY <2>2
  <2>5. QED
    BY <1>2, <2>1, <2>3, <2>4
<1>4. PlaceOf(r).s = r.from + 1 /\ PlaceOf(r).e = r.to + 1
  <2>1. CASE Held(r) # {}
    <3>1. PICK m \in Held(r) : TRUE
      BY <2>1
    <3>2. m \in Copied /\ m.from <= r.from /\ r.to <= m.to
      BY <1>1, <1>2, HeldIs
    <3>3. PICK c \in DOMAIN lines : CopiedOn(m, c)
      BY <1>1, <1>2, HeldIs
    <3>4. lines[c].start <= m.from /\ m.to <= lines[c].end /\ lines[c].start \in Nat /\ lines[c].end \in Nat
      BY <1>1, <3>3, LinesTiled DEF CopiedOn
    <3>5. lines[c].start <= r.from /\ r.to <= lines[c].end
      <4>1. m.from \in Nat /\ m.to \in Nat
        BY <3>2 DEF Copied
      <4>2. QED
        BY <1>2, <3>2, <3>4, <4>1
    <3>6. QED
      BY <1>3, <3>5
  <2>2. CASE Held(r) = {} /\ LinkOf(r) # {}
    <3>1. PICK j \in DOMAIN links : links[j].from = r.from /\ links[j].to = r.to
      BY <2>2 DEF LinkOf
    <3>2. PICK a \in DOMAIN lines : LinkOn(links[j], lines[a].pieces, lines[a].start, lines[a].end)
      BY <1>1 DEF Written, PlanOK, LinksOK
    <3>3. lines[a].start <= r.from /\ r.to <= lines[a].end
      BY <3>1, <3>2 DEF LinkOn
    <3>4. QED
      BY <1>3, <3>3
  <2>3. CASE Held(r) = {} /\ LinkOf(r) = {}
    <3>1. PlaceOf(r) = [s |-> Land(r.from, FALSE), e |-> Land(r.to, TRUE)]
      BY <2>3 DEF PlaceOf
    <3>2. PlaceOf(r).s = Land(r.from, FALSE) /\ PlaceOf(r).e = Land(r.to, TRUE)
      BY <3>1
    <3>3. r.from <= End
      BY <1>2
    <3>4. Land(r.from, FALSE) = r.from + 1 /\ Land(r.to, TRUE) = r.to + 1
      BY <1>2, <3>3, LandBack
    <3>5. QED
      BY <3>2, <3>4
  <2>4. QED
    BY <2>1, <2>2, <2>3
<1>5. QED
  BY <1>2, <1>4 DEF Found

LEMMA PlaceRecordsExact == ASSUME Inv, KeptInv, ExactInv, PlaceRecords PROVE ExactInv'
<1>1. /\ phase = "answering" /\ phase' = "done" /\ UNCHANGED <<page, planVars, writeVars>>
      /\ page' = page /\ lines' = lines /\ i' = i /\ from' = from /\ line' = line /\ text' = text
      /\ edges' = edges /\ moved' = moved
  BY DEF PlaceRecords, planVars, writeVars
<1>2. records' = {[r |-> r, s |-> PlaceOf(r).s - 1, e |-> PlaceOf(r).e - 1] : r \in {x \in Ranges : Found(x)}}
  BY DEF PlaceRecords
<1>3. Landing
  BY IsLanding
<1>4. /\ End' = End /\ Newline' = Newline /\ RunsOverEmptyLine' = RunsOverEmptyLine
      /\ \A p : CharAt(p)' = CharAt(p)
  BY <1>1, SamePage DEF CharAt
<1>5. Ranges' = Ranges
  BY <1>1 DEF Ranges, Blocks
<1>6. LinesTile'
  BY <1>1, SameTiles DEF ExactInv
<1>7. EdgesJoin' /\ i' <= End' + 1 /\ from' <= i'
  <2>1. Begun' = Begun
    BY <1>1 DEF Begun
  <2>2. QED
    BY <1>1, <1>4, <2>1 DEF ExactInv, EdgesJoin, JoinedAt
<1>8. ASSUME NEW x \in records' PROVE x.s < x.e /\ x.e <= Len(text)
  <2>1. PICK r \in Ranges : Found(r) /\ x.s = PlaceOf(r).s - 1 /\ x.e = PlaceOf(r).e - 1
    BY <1>2
  <2>2. r.from \in Nat /\ r.to \in Nat /\ r.from < r.to
    BY <1>3, RangesAre
  <2>3. PlaceOf(r).s \in Nat /\ PlaceOf(r).e \in Nat /\ PlaceOf(r).e <= Len(text) + 1
    BY <1>3, <2>1, <2>2, PlaceFits
  <2>4. PlaceOf(r).s < PlaceOf(r).e
    BY <2>1 DEF Found
  <2>5. Len(text) \in Nat
    BY <1>3 DEF Landing, Written, WriteTyped
  <2>6. QED
    BY <2>1, <2>3, <2>4, <2>5
<1>9. RecordsFit'
  BY <1>1, <1>8 DEF RecordsFit
<1>10. Unchanged'
  <2> SUFFICES ASSUME \A j \in DOMAIN lines : \E m \in moved : m.from = lines[j].start /\ m.to = lines[j].end,
                      Len(text) = End
               PROVE  /\ \A p \in 0..(End - 1) : text[p + 1] = IF CharAt(p) = "newline" THEN Newline ELSE p
                      /\ \A r \in Ranges : [r |-> r, s |-> r.from, e |-> r.to] \in records'
    BY <1>1, <1>4, <1>5 DEF Unchanged
  <2>1. CameBack
    BY <1>3 DEF CameBack
  <2>2. \A p \in 0..(End - 1) : text[p + 1] = IF CharAt(p) = "newline" THEN Newline ELSE p
    BY <2>1, TextIsBack
  <2>3. ASSUME NEW r \in Ranges PROVE [r |-> r, s |-> r.from, e |-> r.to] \in records'
    <3>1. Found(r) /\ PlaceOf(r).s - 1 = r.from /\ PlaceOf(r).e - 1 = r.to
      BY <2>1, RecordBack
    <3>2. QED
      BY <1>2, <3>1
  <2>4. QED
    BY <2>2, <2>3
<1>11. KeptRecordsExact'
  <2> SUFFICES ASSUME ~RunsOverEmptyLine, NEW k \in Spared,
                      \A p \in k.from..(k.to - 1) : CharAt(p) # "newline"
               PROVE  \E x \in records' : /\ x.r = [from |-> k.from, to |-> k.to]
                                          /\ SubSeq(text, x.s + 1, x.e) = Copy(k.from, k.to)
    BY <1>1, <1>4 DEF KeptRecordsExact, Spared, Copy
  <2> DEFINE r == [from |-> k.from, to |-> k.to]
             x == [r |-> r, s |-> PlaceOf(r).s - 1, e |-> PlaceOf(r).e - 1]
  <2>1. r \in Ranges /\ Found(r) /\ SubSeq(text, PlaceOf(r).s - 1 + 1, PlaceOf(r).e - 1) = Copy(k.from, k.to)
    BY <1>3, KeptPlace
  <2> HIDE DEF r
  <2>2. x \in records' /\ x.r = r /\ x.s = PlaceOf(r).s - 1 /\ x.e = PlaceOf(r).e - 1
    BY <1>2, <2>1
  <2> HIDE DEF x
  <2>3. QED
    BY <2>1, <2>2 DEF r
<1>12. QED
  BY <1>1, <1>4, <1>6, <1>7, <1>9, <1>10, <1>11 DEF ExactInv

LEMMA NextKeepsExact == Inv /\ KeptInv /\ ExactInv /\ [Next]_vars => ExactInv'
<1> SUFFICES ASSUME Inv, KeptInv, ExactInv, [Next]_vars PROVE ExactInv'
  OBVIOUS
<1>1. CASE CloseLink \/ OpenLink \/ KeepPart \/ Advance
  BY <1>1, CuttingExact
<1>2. CASE EndLine
  BY <1>2, EndLineExact
<1>3. CASE TakeLine
  BY <1>3, TakeLineExact
<1>4. CASE TakeWord \/ TakeOpen \/ TakeClose
  BY <1>4, TakeAnswerExact
<1>5. CASE TakeKept \/ TakeLost
  BY <1>5, PutExact
<1>6. CASE EndAnswer
  BY <1>6, EndAnswerExact
<1>7. CASE PlaceRecords
  BY <1>7, PlaceRecordsExact
<1>8. CASE Done \/ UNCHANGED vars
  BY <1>8, StutterExact DEF Done
<1>9. QED
  BY <1>1, <1>2, <1>3, <1>4, <1>5, <1>6, <1>7, <1>8 DEF Next, Planning, Write

LEMMA AlwaysExact == Spec => [](Inv /\ KeptInv /\ ExactInv)
<1>1. Init => ExactInv
  BY InitExact
<1>2. Inv /\ KeptInv /\ ExactInv /\ [Next]_vars => ExactInv'
  BY NextKeepsExact
<1>3. QED
  BY <1>1, <1>2, AlwaysKept, PTL DEF Spec

\* Every place kept lies in the old text, and the new text has places of the old one only
LEMMA TypesHold == ASSUME Inv, KeptInv, ExactInv PROVE TypeOK
<1>1. /\ PlanTyped /\ CutOK /\ page \in Pages /\ End \in Nat /\ i \in Nat /\ from \in Nat
      /\ phase \in {"planning", "answering", "writing", "done"}
  BY PageIs DEF Inv, PlanOK, PlanTyped
<1>2. i \in 0..(End + 1) /\ from \in 0..i
  <2>1. CASE phase = "planning"
    <3>1. from <= i /\ i <= LineEnd /\ LineEnd <= End /\ LineEnd \in Nat
      BY <2>1, PlanningIs DEF PlanningOK
    <3>2. QED
      BY <1>1, <3>1
  <2>2. CASE phase # "planning"
    BY <1>1, <2>2 DEF ExactInv
  <2>3. QED
    BY <2>1, <2>2
<1>3. ASSUME NEW n \in DOMAIN kept PROVE kept[n].to <= End
  <2>1. kept[n].from \in Nat /\ kept[n].to \in Nat
    BY <1>1, LinesAre
  <2>2. CASE phase = "planning"
    <3>1. kept[n].to <= from
      BY <2>2 DEF Inv, PlanOK, PlanningOK, Numbered
    <3>2. from <= i /\ i <= LineEnd /\ LineEnd <= End /\ LineEnd \in Nat
      BY <2>2, PlanningIs DEF PlanningOK
    <3>3. QED
      BY <1>1, <2>1, <3>1, <3>2
  <2>3. CASE phase # "planning"
    <3>1. PICK a \in DOMAIN lines : n \in Nums(lines[a].pieces)
      BY <2>3 DEF KeptInv, PartsOK, Given
    <3>2. kept[n] # NoRange => kept[n].to <= lines[a].end
      BY <3>1 DEF Inv, PlanOK, CutKept, Inside
    <3>3. lines[a].end <= End /\ lines[a].end \in Nat
      BY <1>1, <3>1, LinesAre DEF CutOK
    <3>4. NoRange.to = 0
      BY DEF NoRange
    <3>5. CASE kept[n] = NoRange
      BY <1>1, <3>4, <3>5
    <3>6. CASE kept[n] # NoRange
      BY <1>1, <2>1, <3>2, <3>3, <3>6
    <3>7. QED
      BY <3>5, <3>6
  <2>4. QED
    BY <2>2, <2>3
<1>4. ASSUME NEW x \in DOMAIN text PROVE text[x] \in 0..(End + 1)
  <2>1. phase # "planning"
    BY DEF Inv, PlanOK, PlanningOK
  <2>2. TextOf(text, moved) /\ text \in Seq(Nat)
    BY <2>1 DEF KeptInv, Inv, WriteTyped
  <2>3. CASE text[x] \in {NewWord, Newline}
    BY <1>1, <2>3 DEF NewWord, Newline
  <2>4. CASE \E m \in moved : m.at < x /\ x <= m.at + m.to - m.from
    <3>1. PICK m \in moved : m.at < x /\ x <= m.at + m.to - m.from
      BY <2>4
    <3>2. m.from \in Nat /\ m.to \in Nat /\ m.at \in Nat /\ x \in Nat
      BY <2>2 DEF Inv, WriteTyped, Copied
    <3> DEFINE q == x - m.at - 1 + m.from
    <3>3. q \in m.from..(m.to - 1) /\ m.at + q - m.from + 1 = x
      BY <3>1, <3>2
    <3> HIDE DEF q
    <3>4. text[x] = q /\ m.to <= End
      BY <2>2, <3>3 DEF TextOf
    <3>5. QED
      BY <1>1, <3>2, <3>3, <3>4
  <2>5. QED
    BY <2>2, <2>3, <2>4 DEF TextOf
<1>5. ToSet(text) \subseteq 0..(End + 1)
  BY <1>4 DEF ToSet
<1>6. \A j \in DOMAIN lines : lines[j].start <= lines[j].end /\ lines[j].end <= End
  BY <1>1 DEF CutOK
<1>7. \A x \in records : x.s < x.e /\ x.e <= Len(text)
  BY DEF ExactInv, RecordsFit
<1>8. QED
  BY <1>1, <1>2, <1>3, <1>5, <1>6, <1>7 DEF TypeOK

(***************************************************************************)
(* The theorems                                                            *)
(***************************************************************************)
\* "Edges are in the text's order, and the moved ranges, sorted, never overlap"
\* (src/src/blob/translate.rs:97): no character of the old text is copied twice, and no two copies
\* share a place of the new text, whatever the answer doubles, loses or reorders.  The search for
\* the last range at or before a place finds the only range that can hold it.
THEOREM CopiesApart == Spec => []RangesApart
<1>1. Inv => RangesApart
  <2> SUFFICES ASSUME Inv PROVE RangesApart
    OBVIOUS
  <2>1. CASE phase = "planning"
    BY <2>1 DEF Inv, PlanOK, PlanningOK, RangesApart
  <2>2. CASE phase # "planning"
    BY <2>2 DEF Inv
  <2>3. QED
    BY <2>1, <2>2
<1>2. QED
  BY <1>1, AlwaysInv, PTL

\* A block's record, from one line's start to a line's end, lies over those lines' new text: whatever
\* the lines became, the ends of the record are found on the lines' edges (Landing::place), or the
\* copied range that holds the record is the line itself.
THEOREM BlocksAlwaysStay == Spec => []BlocksStay
<1>1. Inv => BlocksStay
  BY DEF Inv, RecordsOK
<1>2. QED
  BY <1>1, AlwaysInv, PTL

\* A link's record lies in the new text of the line the link was on: its markers have the line's own
\* numbers, the first of each kind counts, and a copied range that holds the link is of that line.
THEOREM LinksAlwaysStay == Spec => []LinksStayOnTheirLine
<1>1. Inv => LinksStayOnTheirLine
  BY DEF Inv, RecordsOK
<1>2. QED
  BY <1>1, AlwaysInv, PTL

\* Whatever the answer lost, doubled, moved or invented, each character of a kept part is in the new
\* text once: a part is cut into its lines, each piece with a number of its own (Plan::of); the first
\* marker with the number puts it back and later ones nothing, and what has not come back by the end
\* of its line's answer is put there (write_answer).  Two premises are the property's own: no part
\* runs over an empty line, for what comes after it would not be kept (KeptIsKept); and the part is
\* spared, for one that begins in a dropped domain is lost with it.  A user may have written it there,
\* as suffix() knows the writer's domain by its text.
THEOREM KeptComesBackOnce == Spec => []KeptOnce
<1>1. Inv /\ KeptInv => KeptOnce
  <2> SUFFICES ASSUME Inv, KeptInv, phase = "done", ~RunsOverEmptyLine,
                      NEW k \in Spared, NEW p \in k.from..(k.to - 1), CharAt(p) # "newline"
               PROVE  Cardinality({x \in DOMAIN text : text[x] = p}) = 1
    BY DEF KeptOnce
  <2>1. k.from \in Nat /\ k.to \in Nat
    BY PageIs DEF Inv, PlanTyped, Spared
  <2>2. p \in Nat /\ p + 1 \in Nat /\ k.from <= p /\ p + 1 <= k.to /\ p < p + 1 /\ p..(p + 1 - 1) = {p}
    BY <2>1
  <2>3. KeptRun(p, p + 1)
    BY <2>2 DEF KeptRun
  <2>4. PICK m \in moved : m.from <= p /\ p + 1 <= m.to
    BY <2>2, <2>3, KeptIsCopied DEF KeptInv
  <2>5. m.from \in Nat /\ m.to \in Nat
    BY DEF Inv, WriteTyped, Copied
  <2>6. p \in m.from..(m.to - 1)
    BY <2>2, <2>4, <2>5
  <2>7. TextOf(text, moved)
    BY DEF KeptInv
  <2>8. {x \in DOMAIN text : text[x] = p} = {m.at + p - m.from + 1}
    BY <2>6, <2>7, CopiedOnce
  <2>9. QED
    BY <2>8, FS_Singleton
<1>2. QED
  BY <1>1, AlwaysKept, PTL
\* Records move with what they lie over.  A text that comes back as it went is the old text and has
\* every record where it was; a part kept on one line has its record over that part and nothing else,
\* whatever the answer (the premises, no kept part over an empty line and none that begins in a
\* dropped domain, are the property's own); every
\* record placed lies in the new text; and no two copied ranges share a place of either text, so the
\* binary search (Landing::place) finds the only range a place can be in.
THEOREM RecordsStayExact == Spec => []RecordsExact
<1>1. Inv /\ KeptInv /\ ExactInv => RecordsExact
  <2> SUFFICES ASSUME Inv, KeptInv, ExactInv PROVE RecordsExact
    OBVIOUS
  <2>1. RangesApart
    <3>1. CASE phase = "planning"
      BY <3>1 DEF Inv, PlanOK, PlanningOK, RangesApart
    <3>2. CASE phase # "planning"
      BY <3>2 DEF Inv
    <3>3. QED
      BY <3>1, <3>2
  <2>2. QED
    BY <2>1, TypesHold DEF ExactInv, RecordsExact
<1>2. QED
  BY <1>1, AlwaysExact, PTL
==============================================================================
