----------------------------- MODULE InlinesProofs -----------------------------
(***************************************************************************)
(* For every set of runs and every length of the text: the opener cache of *)
(* process_emphasis changes no match, the runs on the delimiter list never *)
(* lose all their text, the nodes made nest, and in a text without tildes  *)
(* nothing that could be paired is left.                                   *)
(***************************************************************************)
EXTENDS Inlines, SequenceTheorems, WellFoundedInduction, TLAPS

\* A set of places has a first one
LEMMA FirstExists ==
  ASSUME NEW S \in SUBSET Nat, S # {}
  PROVE  \E d \in S : \A e \in S : d <= e
<1>1. PICK d \in S : \A e \in S : <<e, d>> \notin OpToRel(<, Nat)
  BY NatLessThanWellFounded, WFMin
<1>2. \A e \in S : ~(e < d)
  BY <1>1 DEF OpToRel
<1>3. QED
  BY <1>2

\* A set of places below another has a last one
LEMMA LastExists ==
  ASSUME NEW S \in SUBSET Nat, S # {}, NEW c \in Nat, \A d \in S : d < c
  PROVE  \E d \in S : \A e \in S : e <= d
<1> DEFINE D == {c - d : d \in S}
<1>1. D \in SUBSET Nat /\ D # {}
  <2>1. \A d \in S : c - d \in Nat
    OBVIOUS
  <2>2. QED
    BY <2>1
<1>2. PICK m \in D : \A k \in D : m <= k
  BY <1>1, FirstExists
<1>3. PICK d \in S : m = c - d
  OBVIOUS
<1>4. \A e \in S : e <= d
  BY <1>2, <1>3
<1>5. QED
  BY <1>4

\* The next run above a place is on the list, and above
LEMMA UpFromListed ==
  ASSUME NEW S \in SUBSET Nat, NEW c \in Nat
  PROVE  UpFrom(S, c) # NoRun => UpFrom(S, c) \in S /\ UpFrom(S, c) > c
<1> DEFINE above == {d \in S : d > c}
<1>1. CASE above = {}
  BY <1>1 DEF UpFrom
<1>2. CASE above # {}
  <2>1. \E d \in above : \A e \in above : d <= e
    BY <1>2, FirstExists
  <2>2. QED
    BY <1>2, <2>1 DEF UpFrom
<1>3. QED
  BY <1>1, <1>2

\* The nearest opener is one of the openers
LEMMA NearestIsOne ==
  ASSUME NEW S \in SUBSET Nat, NEW c \in Nat, \A d \in S : d < c
  PROVE  Nearest(S) \in S \cup {NoRun}
<1>1. CASE S = {}
  BY <1>1 DEF Nearest
<1>2. CASE S # {}
  <2>1. \E d \in S : \A e \in S : e <= d
    BY <1>2, LastExists
  <2>2. QED
    BY <1>2, <2>1 DEF Nearest
<1>3. QED
  BY <1>1, <1>2

(***************************************************************************)
(* The inductive invariant                                                 *)
(***************************************************************************)
TextOK ==
  /\ tokens \in Seq(Run \cup Bracket)
  /\ left \in [DOMAIN tokens -> Nat]

BracketsOK == brackets \in Seq([at : Nat, image : BOOLEAN, after : BOOLEAN])

EmphOK ==
  /\ emph \in [on : BOOLEAN, bottom : Nat, closer : Nat, bottoms : [Classes -> Nat]]
  /\ \A x \in Classes : emph.bottom <= emph.bottoms[x]
  /\ ~emph.on => emph.closer = NoRun
  /\ emph.closer # NoRun => emph.bottom <= emph.closer

Listed == stack \subseteq DOMAIN tokens

\* No run the cache hides from a closer's class could be its opener
CacheSound ==
  emph.on =>
    \A x \in Classes : \A o \in stack :
      emph.bottom <= o /\ o < emph.bottoms[x] => ~Matches(o, x)

Inv == TextOK /\ BracketsOK /\ EmphOK /\ Listed /\ ListedRunsHaveText /\ CacheSound

\* A run on the list has a class, and its places are naturals
LEMMA ListedAreRuns ==
  ASSUME Inv
  PROVE  /\ stack \in SUBSET Nat
         /\ \A d \in stack : tokens[d] \in Run /\ ClassOf(d) \in Classes
<1>1. stack \in SUBSET Nat
  BY DEF Inv, TextOK, Listed
<1>2. ASSUME NEW d \in stack PROVE tokens[d] \in Run
  <2>1. tokens[d] \in Run \cup Bracket /\ tokens[d].type = "run"
    BY DEF Inv, TextOK, Listed, ListedRunsHaveText
  <2>2. QED
    BY <2>1 DEF Bracket
<1>3. ASSUME NEW d \in stack PROVE ClassOf(d) \in Classes
  <2>1. tokens[d].ch \in Delims /\ tokens[d].opens \in BOOLEAN /\ tokens[d].len \in Nat
    BY <1>2 DEF Run
  <2>2. tokens[d].len % 3 \in 0..2
    BY <2>1
  <2>3. QED
    BY <2>1, <2>2 DEF ClassOf, Classes
<1>4. QED
  BY <1>1, <1>2, <1>3

\* The invariant implies that the shortened search finds what the full one finds
LEMMA CacheIsExact == Inv => SearchIsExact
<1> SUFFICES ASSUME Inv, Closing, tokens[emph.closer].closes
             PROVE  Nearest(Candidates(emph.closer)) =
                      Nearest({o \in stack : emph.bottom <= o /\ o < emph.closer
                                               /\ Matches(o, ClassOf(emph.closer))})
  BY DEF SearchIsExact
<1> DEFINE c == emph.closer
           x == ClassOf(c)
<1>1. c \in stack /\ emph.on
  BY DEF Inv, ListedRunsHaveText, Closing
<1>2. x \in Classes /\ stack \in SUBSET Nat
  BY <1>1, ListedAreRuns
<1>3. emph.bottom \in Nat /\ emph.bottoms[x] \in Nat /\ emph.bottom <= emph.bottoms[x]
  BY <1>2 DEF Inv, EmphOK
<1>4. ASSUME NEW o \in stack, o < c, Matches(o, x)
      PROVE  o >= emph.bottoms[x] <=> emph.bottom <= o
  <2>1. ~(emph.bottom <= o /\ o < emph.bottoms[x])
    BY <1>1, <1>2, <1>4 DEF Inv, CacheSound
  <2>2. o \in Nat
    BY <1>2
  <2>3. QED
    BY <2>1, <2>2, <1>3
<1>5. Candidates(c) = {o \in stack : emph.bottom <= o /\ o < c /\ Matches(o, x)}
  BY <1>4 DEF Candidates
<1>6. QED
  BY <1>5

LEMMA InitInv == Init => Inv
<1> SUFFICES ASSUME Init PROVE Inv
  OBVIOUS
<1> USE DEF Init, Off
<1>1. TextOK /\ BracketsOK /\ Listed
  BY DEF TextOK, BracketsOK, Listed
<1>2. EmphOK
  <2>1. emph.bottoms \in [Classes -> Nat] /\ \A x \in Classes : emph.bottoms[x] = 0
    OBVIOUS
  <2>2. emph \in [on : BOOLEAN, bottom : Nat, closer : Nat, bottoms : [Classes -> Nat]]
    BY DEF NoRun
  <2>3. QED
    BY <2>1, <2>2 DEF EmphOK
<1>3. ListedRunsHaveText /\ CacheSound
  BY DEF ListedRunsHaveText, CacheSound, NoRun
<1>4. QED
  BY <1>1, <1>2, <1>3 DEF Inv

(***************************************************************************)
(* The steps of process_emphasis                                           *)
(***************************************************************************)
\* What the opener and the closer of a pair are
LEMMA PairsListed ==
  ASSUME Inv, Closing, Nearest(Candidates(emph.closer)) # NoRun
  PROVE  /\ emph.closer \in stack
         /\ Nearest(Candidates(emph.closer)) \in stack
         /\ Nearest(Candidates(emph.closer)) < emph.closer
<1>1. emph.closer \in stack /\ stack \in SUBSET Nat
  BY ListedAreRuns DEF Inv, ListedRunsHaveText, Closing
<1>2. Candidates(emph.closer) \in SUBSET Nat /\ \A d \in Candidates(emph.closer) : d < emph.closer
  BY <1>1 DEF Candidates
<1>3. Nearest(Candidates(emph.closer)) \in Candidates(emph.closer)
  BY <1>1, <1>2, NearestIsOne
<1>4. QED
  BY <1>1, <1>3 DEF Candidates

\* A step that takes runs off the list, changes no other bottom and no token keeps the cache sound
LEMMA CacheKept ==
  ASSUME Inv, emph.on, stack' \subseteq stack, UNCHANGED tokens,
         emph'.bottom = emph.bottom, emph'.bottoms = emph.bottoms
  PROVE  CacheSound'
<1>1. ASSUME NEW o \in stack', NEW x \in Classes, emph.bottom <= o, o < emph.bottoms[x]
      PROVE  ~Matches(o, x)'
  <2>1. ~Matches(o, x)
    BY <1>1 DEF Inv, CacheSound
  <2>2. QED
    BY <2>1 DEF Matches, OddMatch
<1>2. QED
  BY <1>1 DEF CacheSound

LEMMA SkipOpenerInv == ASSUME Inv, SkipOpener PROVE Inv'
<1>1. emph.closer \in stack /\ stack \in SUBSET Nat /\ emph.on
  BY ListedAreRuns DEF Inv, ListedRunsHaveText, SkipOpener, Closing
<1>2. UpFrom(stack, emph.closer) # NoRun =>
        UpFrom(stack, emph.closer) \in stack /\ UpFrom(stack, emph.closer) > emph.closer
  BY <1>1, UpFromListed
<1>3. emph' = [emph EXCEPT !.closer = UpFrom(stack, emph.closer)]
      /\ UNCHANGED <<tokens, left, stack, brackets>>
  BY DEF SkipOpener
<1>4. TextOK' /\ BracketsOK' /\ Listed'
  BY <1>3 DEF Inv, TextOK, BracketsOK, Listed
<1>5. emph'.closer = UpFrom(stack, emph.closer) /\ emph'.bottom = emph.bottom
      /\ emph'.bottoms = emph.bottoms /\ emph'.on
  BY <1>1, <1>3 DEF Inv, EmphOK
<1>6. EmphOK'
  <2> DEFINE u == UpFrom(stack, emph.closer)
  <2>1. u \in Nat /\ emph.closer \in Nat
    <3>1. emph.closer \in Nat
      BY <1>1
    <3>2. CASE u = NoRun
      BY <3>1, <3>2 DEF NoRun
    <3>3. CASE u # NoRun
      BY <3>1, <3>3, <1>1, <1>2
    <3>4. QED
      BY <3>2, <3>3
  <2>2. emph.closer # NoRun /\ emph.bottom <= emph.closer /\ emph.bottom \in Nat
    BY DEF Inv, EmphOK, SkipOpener, Closing
  <2>3. u # NoRun => emph.bottom <= u
    BY <1>2, <2>1, <2>2
  <2>4. QED
    BY <1>3, <1>5, <2>1, <2>3 DEF Inv, EmphOK
<1>7. ListedRunsHaveText'
  BY <1>2, <1>3, <1>5 DEF Inv, ListedRunsHaveText
<1>8. CacheSound'
  BY <1>1, <1>3, <1>5, CacheKept
<1>9. QED
  BY <1>4, <1>6, <1>7, <1>8 DEF Inv

\* The runs of a pair are as long as the characters it takes of them
LEMMA UsesFit ==
  ASSUME Inv, NEW o \in stack, NEW c \in stack
  PROVE  Uses(o, c) \in {1, 2} /\ Uses(o, c) <= left[o] /\ Uses(o, c) <= left[c]
         /\ left[o] \in Nat /\ left[c] \in Nat
<1>1. left[o] \in Nat /\ left[c] \in Nat /\ left[o] > 0 /\ left[c] > 0
  BY DEF Inv, TextOK, Listed, ListedRunsHaveText
<1>2. QED
  BY <1>1 DEF Uses

LEMMA PairInv == ASSUME Inv, Pair PROVE Inv'
<1> DEFINE c == emph.closer
           o == Nearest(Candidates(c))
           n == Uses(o, c)
           rest == {d \in stack : ~(o < d /\ d < c) /\ ~(d = o /\ left[o] = n)
                                  /\ ~(d = c /\ left[c] = n)}
<1>1. emph.on /\ c \in stack /\ o \in stack /\ o < c /\ stack \in SUBSET Nat
  BY PairsListed, ListedAreRuns DEF Pair, Closing
<1>2. n \in {1, 2} /\ n <= left[o] /\ n <= left[c] /\ left[o] \in Nat /\ left[c] \in Nat
  BY <1>1, UsesFit
<1>3. /\ left' = [left EXCEPT ![o] = @ - n, ![c] = @ - n]
      /\ stack' = rest
      /\ emph' = [emph EXCEPT !.closer = IF left[c] = n THEN UpFrom(rest, c) ELSE c]
      /\ UNCHANGED <<tokens, brackets>>
  BY DEF Pair
<1>4. rest \subseteq stack /\ rest \in SUBSET Nat
  BY <1>1
<1> DEFINE u == IF left[c] = n THEN UpFrom(rest, c) ELSE c
<1>5. c \in Nat /\ o \in Nat /\ (u # NoRun => u \in rest /\ u >= c)
  <2>1. c \in Nat /\ o \in Nat /\ o < c
    BY <1>1
  <2>2. CASE left[c] = n
    <3>1. UpFrom(rest, c) # NoRun => UpFrom(rest, c) \in rest /\ UpFrom(rest, c) > c
      BY <2>1, <1>4, UpFromListed
    <3>2. UpFrom(rest, c) # NoRun => UpFrom(rest, c) \in Nat
      BY <3>1, <1>4
    <3>3. UpFrom(rest, c) # NoRun => UpFrom(rest, c) >= c
      BY <2>1, <3>1, <3>2
    <3>4. QED
      BY <2>1, <2>2, <3>1, <3>3
  <2>3. CASE left[c] # n
    <3>1. c # o /\ ~(c < c) /\ c >= c
      BY <2>1
    <3>2. c \in rest
      BY <2>3, <3>1, <1>1
    <3>3. QED
      BY <2>1, <2>3, <3>1, <3>2
  <2>4. QED
    BY <2>2, <2>3
<1>6. emph'.closer = u /\ emph'.bottom = emph.bottom
      /\ emph'.bottoms = emph.bottoms /\ emph'.on
  BY <1>1, <1>3 DEF Inv, EmphOK
<1>7. left \in [DOMAIN tokens -> Nat] /\ c \in DOMAIN tokens /\ o \in DOMAIN tokens /\ o # c
  BY <1>1 DEF Inv, TextOK, Listed
<1>8. left'[o] = left[o] - n /\ left'[c] = left[c] - n
      /\ \A d \in DOMAIN tokens : d # o /\ d # c => left'[d] = left[d]
  BY <1>3, <1>7
<1>9. left' \in [DOMAIN tokens -> Nat]
  BY <1>2, <1>3, <1>7
<1>10. TextOK' /\ BracketsOK' /\ Listed'
  BY <1>3, <1>4, <1>9 DEF Inv, TextOK, BracketsOK, Listed
<1>11. EmphOK'
  <2>1. u \in Nat
    BY <1>4, <1>5 DEF NoRun
  <2>2. c # NoRun /\ emph.bottom <= c /\ emph.bottom \in Nat
    BY DEF Inv, EmphOK, Pair, Closing
  <2>3. u # NoRun => emph.bottom <= u
    BY <1>5, <2>1, <2>2
  <2>4. QED
    BY <1>3, <1>6, <2>1, <2>3 DEF Inv, EmphOK
<1>12. ListedRunsHaveText'
  <2>1. ASSUME NEW d \in rest PROVE tokens[d].type = "run" /\ left'[d] > 0
    <3>1. d \in DOMAIN tokens /\ tokens[d].type = "run" /\ left[d] > 0
      BY <1>4 DEF Inv, Listed, ListedRunsHaveText
    <3>2. CASE d = o
      BY <3>1, <3>2, <1>2, <1>8
    <3>3. CASE d = c
      BY <3>1, <3>3, <1>2, <1>8
    <3>4. CASE d # o /\ d # c
      BY <3>1, <3>4, <1>8
    <3>5. QED
      BY <3>1, <3>2, <3>3, <3>4
  <2>2. QED
    BY <2>1, <1>3, <1>5, <1>6 DEF ListedRunsHaveText
<1>13. CacheSound'
  BY <1>1, <1>3, <1>4, <1>6, CacheKept
<1>14. QED
  BY <1>10, <1>11, <1>12, <1>13 DEF Inv

LEMMA RefuseInv == ASSUME Inv, Refuse PROVE Inv'
<1>1. emph' = [emph EXCEPT !.closer = NoRun] /\ emph.on
      /\ UNCHANGED <<tokens, left, stack, brackets>>
  BY DEF Refuse, Closing
<1>2. emph'.closer = NoRun /\ emph'.bottom = emph.bottom /\ emph'.bottoms = emph.bottoms
  BY <1>1 DEF Inv, EmphOK
<1>3. TextOK' /\ BracketsOK' /\ Listed' /\ ListedRunsHaveText'
  BY <1>1, <1>2 DEF Inv, TextOK, BracketsOK, Listed, ListedRunsHaveText
<1>4. EmphOK'
  BY <1>1, <1>2 DEF Inv, EmphOK, NoRun
<1>5. CacheSound'
  BY <1>1, <1>2, CacheKept
<1>6. QED
  BY <1>3, <1>4, <1>5 DEF Inv

LEMMA PairQuotesInv == ASSUME Inv, PairQuotes PROVE Inv'
<1> DEFINE c == emph.closer
           o == Nearest(Candidates(c))
<1>1. emph.on /\ c \in stack /\ o \in stack /\ o < c /\ stack \in SUBSET Nat
  BY PairsListed, ListedAreRuns DEF PairQuotes, Closing
<1>2. /\ left' = [left EXCEPT ![o] = 0, ![c] = 0]
      /\ stack' = stack \ {o, c}
      /\ emph' = [emph EXCEPT !.closer = UpFrom(stack, c)]
      /\ UNCHANGED <<tokens, brackets>>
  BY DEF PairQuotes
<1>3. UpFrom(stack, c) # NoRun => UpFrom(stack, c) \in stack /\ UpFrom(stack, c) > c
  BY <1>1, UpFromListed
<1>4. emph'.closer = UpFrom(stack, c) /\ emph'.bottom = emph.bottom
      /\ emph'.bottoms = emph.bottoms /\ emph'.on
  BY <1>1, <1>2 DEF Inv, EmphOK
<1>5. left' \in [DOMAIN tokens -> Nat] /\ \A d \in stack \ {o, c} : left'[d] = left[d]
  BY <1>2 DEF Inv, TextOK, Listed
<1>6. TextOK' /\ BracketsOK' /\ Listed'
  BY <1>2, <1>5 DEF Inv, TextOK, BracketsOK, Listed
<1>7. EmphOK'
  <2> DEFINE u == UpFrom(stack, c)
  <2>1. u \in Nat /\ c \in Nat
    <3>1. c \in Nat
      BY <1>1
    <3>2. CASE u = NoRun
      BY <3>1, <3>2 DEF NoRun
    <3>3. CASE u # NoRun
      BY <3>1, <3>3, <1>1, <1>3
    <3>4. QED
      BY <3>2, <3>3
  <2>2. c # NoRun /\ emph.bottom <= c /\ emph.bottom \in Nat
    BY DEF Inv, EmphOK, PairQuotes, Closing
  <2>3. u # NoRun => emph.bottom <= u
    BY <1>3, <2>1, <2>2
  <2>4. QED
    BY <1>2, <1>4, <2>1, <2>3 DEF Inv, EmphOK
<1>8. ListedRunsHaveText'
  <2> DEFINE u == UpFrom(stack, c)
  <2>1. u # NoRun => u \in stack \ {o, c}
    <3>1. o \in Nat /\ c \in Nat
      BY <1>1
    <3>2. u # NoRun => u \in Nat
      BY <1>1, <1>3
    <3>3. QED
      BY <3>1, <3>2, <1>1, <1>3
  <2>2. QED
    BY <1>2, <1>4, <1>5, <2>1 DEF Inv, ListedRunsHaveText
<1>9. CacheSound'
  <2>1. stack' \subseteq stack
    BY <1>2
  <2>2. QED
    BY <1>1, <1>2, <1>4, <2>1, CacheKept
<1>10. QED
  BY <1>6, <1>7, <1>8, <1>9 DEF Inv

LEMMA NoOpenerInv == ASSUME Inv, NoOpener PROVE Inv'
<1> DEFINE c == emph.closer
           x == ClassOf(c)
<1>1. emph.on /\ c \in stack /\ x \in Classes /\ stack \in SUBSET Nat
  BY ListedAreRuns DEF Inv, ListedRunsHaveText, NoOpener, Closing
<1>2. /\ emph' = [emph EXCEPT !.bottoms[x] = c, !.closer = UpFrom(stack, c)]
      /\ stack' = IF tokens[c].opens THEN stack ELSE stack \ {c}
      /\ UNCHANGED <<tokens, left, brackets>>
      /\ Candidates(c) = {}
  BY DEF NoOpener
<1>3. UpFrom(stack, c) # NoRun => UpFrom(stack, c) \in stack /\ UpFrom(stack, c) > c
  BY <1>1, UpFromListed
<1>4. emph'.closer = UpFrom(stack, c) /\ emph'.bottom = emph.bottom /\ emph'.on
      /\ emph'.bottoms = [emph.bottoms EXCEPT ![x] = c]
  BY <1>1, <1>2 DEF Inv, EmphOK
<1>5. stack' \subseteq stack /\ stack \ {c} \subseteq stack'
  BY <1>2
<1>6. TextOK' /\ BracketsOK' /\ Listed'
  BY <1>2, <1>5 DEF Inv, TextOK, BracketsOK, Listed
<1>7. ListedRunsHaveText'
  <2> DEFINE u == UpFrom(stack, c)
  <2>1. u # NoRun => u \in stack \ {c}
    <3>1. c \in Nat /\ (u # NoRun => u \in Nat)
      BY <1>1, <1>3
    <3>2. QED
      BY <3>1, <1>1, <1>3
  <2>2. QED
    BY <1>2, <1>4, <1>5, <2>1 DEF Inv, ListedRunsHaveText
<1>8. ASSUME NEW y \in Classes, NEW p \in stack, emph.bottom <= p, p < emph'.bottoms[y]
      PROVE  ~Matches(p, y)
  <2>1. CASE y # x \/ p < emph.bottoms[y]
    <3>1. p < emph.bottoms[y]
      BY <2>1, <1>1, <1>4, <1>8 DEF Inv, EmphOK
    <3>2. QED
      BY <3>1, <1>1, <1>8 DEF Inv, CacheSound
  <2>2. CASE y = x /\ ~(p < emph.bottoms[y])
    <3>1. p < c
      BY <2>2, <1>1, <1>4, <1>8 DEF Inv, EmphOK
    <3>2. p >= emph.bottoms[x]
      BY <2>2, <1>1 DEF Inv, EmphOK
    <3>3. p \notin Candidates(c)
      BY <1>2
    <3>4. QED
      BY <2>2, <3>1, <3>2, <3>3 DEF Candidates
  <2>3. QED
    BY <2>1, <2>2
<1>9. CacheSound'
  <2>1. ASSUME NEW y \in Classes, NEW p \in stack', emph'.bottom <= p, p < emph'.bottoms[y]
        PROVE  ~Matches(p, y)'
    <3>1. ~Matches(p, y)
      BY <2>1, <1>4, <1>5, <1>8
    <3>2. QED
      BY <3>1, <1>2 DEF Matches, OddMatch
  <2>2. QED
    BY <2>1 DEF CacheSound
<1>10. EmphOK'
  <2> DEFINE u == UpFrom(stack, c)
  <2>1. u \in Nat /\ c \in Nat
    <3>1. c \in Nat
      BY <1>1
    <3>2. CASE u = NoRun
      BY <3>1, <3>2 DEF NoRun
    <3>3. CASE u # NoRun
      BY <3>1, <3>3, <1>1, <1>3
    <3>4. QED
      BY <3>2, <3>3
  <2>2. c # NoRun /\ emph.bottom <= c /\ emph.bottom \in Nat
    BY DEF Inv, EmphOK, NoOpener, Closing
  <2>3. u # NoRun => emph.bottom <= u
    BY <1>3, <2>1, <2>2
  <2>4. emph'.bottoms \in [Classes -> Nat]
    BY <1>1, <1>4 DEF Inv, EmphOK
  <2>5. \A y \in Classes : emph.bottom <= emph'.bottoms[y]
    BY <1>1, <1>4, <2>2 DEF Inv, EmphOK
  <2>6. emph' \in [on : BOOLEAN, bottom : Nat, closer : Nat, bottoms : [Classes -> Nat]]
    BY <1>2, <1>4, <2>1, <2>4 DEF Inv, EmphOK
  <2>7. QED
    BY <1>4, <2>3, <2>5, <2>6 DEF EmphOK
<1>11. QED
  BY <1>6, <1>7, <1>9, <1>10 DEF Inv

LEMMA EndEmphasisInv == ASSUME Inv, EndEmphasis PROVE Inv'
<1>1. stack' \subseteq stack /\ emph' = Off /\ UNCHANGED <<tokens, left, brackets>>
  BY DEF EndEmphasis
<1>2. emph'.on = FALSE /\ emph'.closer = NoRun /\ emph'.bottom = 0
      /\ emph'.bottoms = [x \in Classes |-> 0]
  BY <1>1 DEF Off
<1>3. TextOK' /\ BracketsOK' /\ Listed' /\ ListedRunsHaveText'
  BY <1>1, <1>2 DEF Inv, TextOK, BracketsOK, Listed, ListedRunsHaveText
<1>4. EmphOK'
  <2>1. emph' \in [on : BOOLEAN, bottom : Nat, closer : Nat, bottoms : [Classes -> Nat]]
    BY <1>1 DEF Off, NoRun
  <2>2. QED
    BY <1>2, <2>1 DEF EmphOK
<1>5. CacheSound'
  BY <1>2 DEF CacheSound
<1>6. QED
  BY <1>3, <1>4, <1>5 DEF Inv

(***************************************************************************)
(* The steps of the reading                                                *)
(***************************************************************************)
\* A token that is read, and no text of the runs before it
LEMMA ReadText ==
  ASSUME Inv, NEW x \in Run \cup Bracket, Read(x)
  PROVE  /\ TextOK'
         /\ DOMAIN tokens' = DOMAIN tokens \cup {Here} /\ Here \in Nat /\ Here \notin DOMAIN tokens
         /\ \A d \in DOMAIN tokens : tokens'[d] = tokens[d] /\ left'[d] = left[d]
         /\ tokens'[Here] = x /\ left'[Here] = IF x.type = "run" THEN x.len ELSE 0
<1> DEFINE l == IF x.type = "run" THEN x.len ELSE 0
<1>1. tokens \in Seq(Run \cup Bracket) /\ left \in [1..Len(tokens) -> Nat] /\ Len(tokens) \in Nat
  BY DEF Inv, TextOK
<1>2. l \in Nat
  BY DEF Run, Bracket
<1>3. tokens' = Append(tokens, x) /\ left' = Append(left, l)
  BY DEF Read
<1>4. left \in Seq(Nat) /\ Len(left) = Len(tokens)
  BY <1>1
<1>5. /\ tokens' \in Seq(Run \cup Bracket) /\ Len(tokens') = Len(tokens) + 1
      /\ tokens'[Len(tokens) + 1] = x /\ \A d \in 1..Len(tokens) : tokens'[d] = tokens[d]
  BY <1>1, <1>3
<1>6. /\ left' \in Seq(Nat) /\ Len(left') = Len(tokens) + 1
      /\ left'[Len(tokens) + 1] = l /\ \A d \in 1..Len(tokens) : left'[d] = left[d]
  BY <1>2, <1>3, <1>4
<1>7. TextOK'
  <2>1. left' \in [1..Len(tokens') -> Nat]
    BY <1>5, <1>6
  <2>2. QED
    BY <1>5, <2>1 DEF TextOK
<1>8. DOMAIN tokens' = DOMAIN tokens \cup {Here} /\ Here \in Nat /\ Here \notin DOMAIN tokens
  BY <1>1, <1>5 DEF Here
<1>9. QED
  BY <1>1, <1>5, <1>6, <1>7, <1>8 DEF Here

\* Reading a token leaves the runs before it as they were
LEMMA ReadListed ==
  ASSUME Inv, NEW x \in Run \cup Bracket, Read(x), stack' \subseteq stack
  PROVE  Listed' /\ \A d \in stack' : tokens'[d].type = "run" /\ left'[d] > 0
<1>1. \A d \in stack' : d \in DOMAIN tokens /\ tokens[d].type = "run" /\ left[d] > 0
  BY DEF Inv, Listed, ListedRunsHaveText
<1>2. QED
  BY <1>1, ReadText DEF Listed

\* While process_emphasis does not run there is nothing to say of it
LEMMA IdleEmph ==
  ASSUME Inv, ~emph.on, UNCHANGED emph
  PROVE  EmphOK' /\ CacheSound' /\ emph'.closer = NoRun
BY DEF Inv, EmphOK, CacheSound

LEMMA PushRunInv == ASSUME Inv, NEW x \in Runs, PushRun(x) PROVE Inv'
<1>1. x \in Run /\ Read(x) /\ ~emph.on /\ UNCHANGED <<brackets, emph>>
      /\ stack' \subseteq stack \cup {Here}
  BY RunsAreRuns DEF PushRun, Reading
<1>2. EmphOK' /\ CacheSound' /\ emph'.closer = NoRun
  BY <1>1, IdleEmph
<1>3. TextOK' /\ BracketsOK'
  BY <1>1, ReadText DEF Inv, BracketsOK
<1>4. ASSUME NEW d \in stack'
      PROVE  d \in DOMAIN tokens' /\ tokens'[d].type = "run" /\ left'[d] > 0
  <2>1. CASE d = Here
    <3>1. tokens'[d] = x /\ left'[d] = x.len /\ d \in DOMAIN tokens'
      BY <2>1, <1>1, ReadText DEF Run
    <3>2. QED
      BY <3>1, <1>1 DEF Run
  <2>2. CASE d # Here
    <3>1. d \in DOMAIN tokens /\ tokens[d].type = "run" /\ left[d] > 0
      BY <2>2, <1>1 DEF Inv, Listed, ListedRunsHaveText
    <3>2. QED
      BY <3>1, <1>1, ReadText
  <2>3. QED
    BY <2>1, <2>2
<1>5. Listed' /\ ListedRunsHaveText'
  BY <1>2, <1>4 DEF Listed, ListedRunsHaveText
<1>6. QED
  BY <1>2, <1>3, <1>5 DEF Inv

\* process_emphasis starts at the first run above the bottom, with an empty cache
LEMMA StartEmphasisInv ==
  ASSUME NEW b \in Nat, stack \in SUBSET Nat, StartEmphasis(b, stack), UNCHANGED stack
  PROVE  EmphOK' /\ CacheSound' /\ (emph'.closer # NoRun => emph'.closer \in stack)
<1> DEFINE above == {d \in stack : d >= b}
           c == IF above = {} THEN NoRun ELSE CHOOSE d \in above : \A e \in above : d <= e
           bs == [x \in Classes |-> b]
<1>1. emph' = [on |-> TRUE, bottom |-> b, closer |-> c, bottoms |-> bs]
  BY DEF StartEmphasis
<1>2. c # NoRun => c \in above
  <2>1. CASE above = {}
    BY <2>1
  <2>2. CASE above # {}
    <3>1. above \in SUBSET Nat
      OBVIOUS
    <3>2. \E d \in above : \A e \in above : d <= e
      BY <2>2, <3>1, FirstExists
    <3>3. QED
      BY <2>2, <3>2
  <2>3. QED
    BY <2>1, <2>2
<1> HIDE DEF c
<1>3. c # NoRun => c \in stack /\ c >= b
  BY <1>2
<1>4. c \in Nat
  <2>1. CASE c = NoRun
    BY <2>1 DEF NoRun
  <2>2. CASE c # NoRun
    BY <2>2, <1>3
  <2>3. QED
    BY <2>1, <2>2
<1>5. bs \in [Classes -> Nat] /\ \A x \in Classes : bs[x] = b
  OBVIOUS
<1> HIDE DEF bs
<1>6. EmphOK'
  <2>1. emph' \in [on : BOOLEAN, bottom : Nat, closer : Nat, bottoms : [Classes -> Nat]]
    BY <1>1, <1>4, <1>5
  <2>2. b <= b /\ (c # NoRun => b <= c)
    BY <1>3, <1>4
  <2>3. QED
    BY <1>1, <1>5, <2>1, <2>2 DEF EmphOK
<1>7. CacheSound'
  <2>1. ASSUME NEW x \in Classes, NEW o \in stack', emph'.bottom <= o, o < emph'.bottoms[x]
        PROVE  FALSE
    <3>1. o \in Nat /\ b <= o /\ o < b
      BY <2>1, <1>1, <1>5
    <3>2. QED
      BY <3>1
  <2>2. QED
    BY <2>1 DEF CacheSound
<1>8. QED
  BY <1>1, <1>3, <1>6, <1>7

\* The place of a bracket, and the stack without it
LEMMA TopAndPopped ==
  ASSUME BracketsOK, brackets # <<>>
  PROVE  Top.at \in Nat /\ Popped \in Seq([at : Nat, image : BOOLEAN, after : BOOLEAN])
<1> DEFINE B == [at : Nat, image : BOOLEAN, after : BOOLEAN]
<1>1. brackets \in Seq(B) /\ Len(brackets) \in Nat /\ Len(brackets) > 0
  BY EmptySeq, LenProperties DEF BracketsOK
<1> HIDE DEF B
<1>2. \A i \in 1..Len(brackets) : brackets[i] \in B
  BY <1>1, ElementOfSeq
<1>3. Top \in B
  BY <1>1, <1>2 DEF Top
<1>4. Popped \in Seq(B)
  <2>1. Len(brackets) - 1 \in Int /\ \A i \in 1..(Len(brackets) - 1) : brackets[i] \in B
    BY <1>1, <1>2
  <2>2. QED
    BY <2>1, SubSeqProperties DEF Popped
<1>5. QED
  BY <1>3, <1>4 DEF B

\* Opening a bracket touches no run
LEMMA PushBracketInv == ASSUME Inv, NEW x \in Bracket, PushBracket(x) PROVE Inv'
<1> DEFINE B == [at : Nat, image : BOOLEAN, after : BOOLEAN]
           marked == [i \in DOMAIN brackets |->
                        [brackets[i] EXCEPT !.after = @ \/ i = Len(brackets)]]
           new == [at |-> Here, image |-> x.type = "![", after |-> FALSE]
<1>1. Read(x) /\ ~emph.on /\ UNCHANGED <<stack, emph>> /\ brackets' = Append(marked, new)
  BY DEF PushBracket, Reading
<1>2. EmphOK' /\ CacheSound' /\ emph'.closer = NoRun
  BY <1>1, IdleEmph
<1>3. TextOK' /\ Here \in Nat
  BY <1>1, ReadText
<1>4. Listed' /\ ListedRunsHaveText'
  BY <1>1, <1>2, ReadListed DEF ListedRunsHaveText
<1>5. BracketsOK'
  <2>1. brackets \in Seq(B) /\ Len(brackets) \in Nat /\ DOMAIN brackets = 1..Len(brackets)
    BY DEF Inv, BracketsOK
  <2>2. ASSUME NEW i \in 1..Len(brackets) PROVE marked[i] \in B
    <3>1. brackets[i] \in B
      BY <2>1, ElementOfSeq
    <3>2. (brackets[i].after \/ i = Len(brackets)) \in BOOLEAN
      OBVIOUS
    <3>3. QED
      BY <2>1, <3>1, <3>2
  <2>3. marked \in Seq(B)
    BY <2>1, <2>2
  <2>4. new \in B
    BY <1>3
  <2>5. QED
    BY <1>1, <2>3, <2>4 DEF BracketsOK
<1>6. QED
  BY <1>2, <1>3, <1>4, <1>5 DEF Inv

\* A link or an image starts process_emphasis above its bracket
LEMMA CloseMatchInv == ASSUME Inv, NEW x \in Bracket, CloseMatch(x) PROVE Inv'
<1>1. Read(x) /\ brackets # <<>> /\ brackets' = Popped /\ UNCHANGED stack
      /\ StartEmphasis(Top.at, stack)
  BY DEF CloseMatch
<1>2. Top.at \in Nat /\ BracketsOK'
  BY <1>1, TopAndPopped DEF Inv, BracketsOK
<1>3. EmphOK' /\ CacheSound' /\ (emph'.closer # NoRun => emph'.closer \in stack)
  BY <1>1, <1>2, ListedAreRuns, StartEmphasisInv
<1>4. TextOK'
  BY <1>1, ReadText
<1>5. Listed' /\ ListedRunsHaveText'
  BY <1>1, <1>3, ReadListed DEF ListedRunsHaveText
<1>6. QED
  BY <1>2, <1>3, <1>4, <1>5 DEF Inv

\* A footnote reference takes the runs inside its brackets off the list
LEMMA CloseFootnoteInv == ASSUME Inv, NEW x \in Bracket, CloseFootnote(x) PROVE Inv'
<1>1. Read(x) /\ brackets # <<>> /\ brackets' = Popped /\ ~emph.on /\ UNCHANGED emph
      /\ stack' \subseteq stack
  BY DEF CloseFootnote, Reading
<1>2. EmphOK' /\ CacheSound' /\ emph'.closer = NoRun
  BY <1>1, IdleEmph, CacheKept DEF Inv, EmphOK
<1>3. TextOK' /\ BracketsOK'
  BY <1>1, ReadText, TopAndPopped DEF Inv, BracketsOK
<1>4. Listed' /\ ListedRunsHaveText'
  BY <1>1, <1>2, ReadListed DEF ListedRunsHaveText
<1>5. QED
  BY <1>2, <1>3, <1>4 DEF Inv

\* A bracket that closes nothing touches no run
LEMMA CloseTextInv == ASSUME Inv, NEW x \in Bracket, CloseText(x) PROVE Inv'
<1>1. Read(x) /\ ~emph.on /\ UNCHANGED <<stack, emph>>
      /\ brackets' = IF brackets = <<>> THEN brackets ELSE Popped
  BY DEF CloseText, Reading
<1>2. EmphOK' /\ CacheSound' /\ emph'.closer = NoRun
  BY <1>1, IdleEmph
<1>3. BracketsOK'
  BY <1>1, TopAndPopped DEF Inv, BracketsOK
<1>4. TextOK'
  BY <1>1, ReadText
<1>5. Listed' /\ ListedRunsHaveText'
  BY <1>1, <1>2, ReadListed DEF ListedRunsHaveText
<1>6. QED
  BY <1>2, <1>3, <1>4, <1>5 DEF Inv

\* At the end of the text process_emphasis starts at the first run of all
LEMMA EndOfTextInv == ASSUME Inv, EndOfText PROVE Inv'
<1>1. StartEmphasis(0, stack) /\ brackets' = <<>> /\ UNCHANGED <<tokens, left, stack>>
  BY DEF EndOfText
<1>2. EmphOK' /\ CacheSound' /\ (emph'.closer # NoRun => emph'.closer \in stack)
  BY <1>1, ListedAreRuns, StartEmphasisInv
<1>3. TextOK' /\ BracketsOK' /\ Listed' /\ ListedRunsHaveText'
  BY <1>1, <1>2 DEF Inv, TextOK, BracketsOK, Listed, ListedRunsHaveText
<1>4. QED
  BY <1>2, <1>3 DEF Inv

LEMMA StutterInv == ASSUME Inv, UNCHANGED vars PROVE Inv'
<1>1. UNCHANGED <<tokens, left, stack, brackets, emph>>
  BY DEF vars
<1>2. TextOK' /\ BracketsOK' /\ Listed' /\ ListedRunsHaveText' /\ EmphOK'
  BY <1>1 DEF Inv, TextOK, BracketsOK, Listed, ListedRunsHaveText, EmphOK
<1>3. CacheSound'
  BY <1>1 DEF Inv, CacheSound, Matches, OddMatch
<1>4. QED
  BY <1>2, <1>3 DEF Inv

LEMMA NextInv == Inv /\ [Next]_vars => Inv'
<1> SUFFICES ASSUME Inv, [Next]_vars PROVE Inv'
  OBVIOUS
<1>1. CASE \E x \in Runs : PushRun(x)
  BY <1>1, PushRunInv
<1>2. CASE \E x \in Brackets :
             PushBracket(x) \/ CloseMatch(x) \/ CloseFootnote(x) \/ CloseText(x)
  BY <1>2, BracketsAreBrackets, PushBracketInv, CloseMatchInv, CloseFootnoteInv, CloseTextInv
<1>3. CASE Emphasis
  BY <1>3, SkipOpenerInv, PairInv, RefuseInv, PairQuotesInv, NoOpenerInv, EndEmphasisInv
     DEF Emphasis
<1>4. CASE EndOfText
  BY <1>4, EndOfTextInv
<1>5. CASE Done \/ UNCHANGED vars
  BY <1>5, StutterInv DEF Done
<1>6. QED
  BY <1>1, <1>2, <1>3, <1>4, <1>5 DEF Next

(***************************************************************************)
(* The nodes form a tree                                                   *)
(***************************************************************************)
NodesMade == {s \in spans : s.kind # "quotes"}
Links == {s \in spans : s.kind = "link"}

\* A span begins and ends in the text
SpansOK == \A s \in spans : s.from \in Places /\ s.to \in Places /\ s.from < s.to

\* Brackets still open stand in the order of the text, before what process_emphasis works on
BracketsOpen ==
  /\ \A i \in DOMAIN brackets :
       /\ brackets[i].at \in Places /\ tokens[brackets[i].at].type # "run"
       /\ emph.on => brackets[i].at < emph.bottom
  /\ \A i, j \in DOMAIN brackets : i < j => brackets[i].at < brackets[j].at

\* No run that may still be paired is inside a node, but for the runs of a link just closed
RunsOutside ==
  \A s \in NodesMade : \A d \in stack :
    Inside(d, s) => emph.on /\ s.from = emph.bottom /\ s.to = Len(tokens)

\* No bracket that may still be closed is inside a node
BracketsOutside == \A s \in NodesMade : \A i \in DOMAIN brackets : ~Inside(brackets[i].at, s)

\* Links are allowed again only after a bracket that no link has closed behind
Reopened ==
  ~noLink => \E i \in Places : /\ tokens[i].type \in {"[", "[^"}
                              /\ \A l \in Links : l.to < i

NestInv ==
  /\ SpansOK /\ BracketsOpen /\ RunsOutside /\ BracketsOutside /\ Reopened
  /\ NoOverlap /\ LinksReopened /\ noLink \in BOOLEAN

LEMMA InitNest == Init => NestInv
<1> SUFFICES ASSUME Init PROVE NestInv
  OBVIOUS
<1> USE DEF Init
<1>1. SpansOK /\ BracketsOpen /\ RunsOutside /\ BracketsOutside /\ Reopened
  BY DEF SpansOK, BracketsOpen, RunsOutside, BracketsOutside, Reopened, NodesMade
<1>2. NoOverlap /\ LinksReopened /\ noLink \in BOOLEAN
  BY DEF NoOverlap, LinksReopened
<1>3. QED
  BY <1>1, <1>2 DEF NestInv

\* The nodes nest when one more comes that crosses none of them
LEMMA NodeAdded ==
  ASSUME NoOverlap, NEW t, spans' = spans \cup {t},
         \A s \in NodesMade :
           t.kind # "quotes" => /\ ~(Inside(t.from, s) /\ ~Inside(t.to, s) /\ t.to > s.to)
                               /\ ~(Inside(s.from, t) /\ ~Inside(s.to, t) /\ s.to > t.to),
         ~Inside(t.from, t)
  PROVE  NoOverlap'
<1> SUFFICES ASSUME NEW s \in NodesMade', NEW u \in NodesMade'
             PROVE  ~(Inside(u.from, s) /\ ~Inside(u.to, s) /\ u.to > s.to)
  BY DEF NoOverlap, Inside, NodesMade
<1>1. CASE s \in NodesMade /\ u \in NodesMade
  BY <1>1 DEF NoOverlap, NodesMade
<1>2. CASE s = t /\ u = t
  BY <1>2
<1>3. CASE s \in NodesMade /\ u = t
  BY <1>3 DEF NodesMade
<1>4. CASE s = t /\ u \in NodesMade
  BY <1>4 DEF NodesMade
<1>5. QED
  BY <1>1, <1>2, <1>3, <1>4 DEF NodesMade

\* A step that makes no link and reads nothing keeps what is said of links
LEMMA LinksKept ==
  ASSUME NestInv, UNCHANGED <<tokens, noLink>>, Links' = Links
  PROVE  LinksReopened' /\ Reopened'
BY DEF NestInv, LinksReopened, Reopened, Links, Inside, Places

\* A step that makes no node, reads nothing and opens no bracket keeps the nodes nested
LEMMA NodesKept ==
  ASSUME NestInv, UNCHANGED <<tokens, brackets, noLink, spans>>, stack' \subseteq stack,
         emph'.on = emph.on, emph'.bottom = emph.bottom
  PROVE  NestInv'
<1>1. SpansOK' /\ BracketsOpen' /\ RunsOutside' /\ BracketsOutside'
  BY DEF NestInv, SpansOK, BracketsOpen, RunsOutside, BracketsOutside, NodesMade, Inside, Places
<1>2. NoOverlap'
  BY DEF NestInv, NoOverlap, Inside
<1>3. LinksReopened' /\ Reopened'
  BY LinksKept DEF Links
<1>4. QED
  BY <1>1, <1>2, <1>3 DEF NestInv

\* The opener of a pair is above the bottom of the search
LEMMA PairAbove ==
  ASSUME Inv, Closing, Nearest(Candidates(emph.closer)) # NoRun
  PROVE  emph.bottom <= Nearest(Candidates(emph.closer))
<1> DEFINE c == emph.closer
           o == Nearest(Candidates(c))
<1>1. c \in stack /\ stack \in SUBSET Nat /\ emph.bottom \in Nat
  BY ListedAreRuns DEF Inv, ListedRunsHaveText, Closing, EmphOK
<1>2. o \in Candidates(c)
  <2>1. Candidates(c) \in SUBSET Nat /\ \A d \in Candidates(c) : d < c
    BY <1>1 DEF Candidates
  <2>2. QED
    BY <1>1, <2>1, NearestIsOne
<1>3. emph.bottom <= emph.bottoms[ClassOf(c)] /\ emph.bottoms[ClassOf(c)] \in Nat
  BY <1>1, ListedAreRuns DEF Inv, EmphOK
<1>4. o >= emph.bottoms[ClassOf(c)] /\ o \in Nat
  BY <1>1, <1>2 DEF Candidates
<1> HIDE DEF o, c
<1>5. emph.bottom <= o
  BY <1>1, <1>3, <1>4
<1>6. QED
  BY <1>5 DEF o, c

LEMMA PairNest == ASSUME Inv, NestInv, Pair PROVE NestInv'
<1> DEFINE c == emph.closer
           o == Nearest(Candidates(c))
           n == Uses(o, c)
           t == [kind |-> IF n = 1 THEN "emph" ELSE "strong", from |-> o, to |-> c]
<1>1. emph.on /\ c \in stack /\ o \in stack /\ o < c /\ stack \in SUBSET Nat
  BY PairsListed, ListedAreRuns DEF Pair, Closing
<1>2. /\ stack' \subseteq stack /\ \A d \in stack' : ~(o < d /\ d < c)
      /\ spans' = spans \cup {t}
      /\ UNCHANGED <<tokens, brackets, noLink>>
  BY DEF Pair
<1>3. emph'.on = emph.on /\ emph'.bottom = emph.bottom /\ emph.bottom \in Nat
  BY DEF Pair, Inv, EmphOK
<1>4. emph.bottom <= o
  BY PairAbove DEF Pair
<1>5. t.kind \in {"emph", "strong"} /\ t.from = o /\ t.to = c
  OBVIOUS
<1> HIDE DEF t, n, o, c
<1>6. o \in Places /\ c \in Places /\ Places \in SUBSET Nat /\ \A d \in Places : d <= Len(tokens)
  BY <1>1 DEF Inv, TextOK, Listed, Places
<1>7. \A s \in spans : s.from \in Nat /\ s.to \in Nat /\ s.from < s.to /\ s.to <= Len(tokens)
  BY <1>6 DEF NestInv, SpansOK
<1>8. ASSUME NEW s \in NodesMade
      PROVE  /\ ~(Inside(o, s) /\ ~Inside(c, s) /\ c > s.to)
             /\ ~(Inside(s.from, t) /\ ~Inside(s.to, t) /\ s.to > c)
  <2>1. Inside(o, s) => s.to = Len(tokens)
    BY <1>1 DEF NestInv, RunsOutside
  <2>2. Inside(c, s) => s.from = emph.bottom
    BY <1>1 DEF NestInv, RunsOutside
  <2>3. s.from \in Nat /\ s.to \in Nat
    BY <1>7 DEF NodesMade
  <2>4. QED
    BY <1>1, <1>3, <1>4, <1>5, <1>6, <2>1, <2>2, <2>3 DEF Inside
<1>9. NoOverlap'
  <2>1. ~Inside(t.from, t)
    BY <1>1, <1>5 DEF Inside
  <2>2. NoOverlap
    BY DEF NestInv
  <2>3. QED
    BY <1>2, <1>5, <1>8, <2>1, <2>2, NodeAdded
<1>10. SpansOK' /\ BracketsOpen'
  BY <1>1, <1>2, <1>3, <1>5, <1>6 DEF NestInv, SpansOK, BracketsOpen, Places
<1>11. NodesMade' = NodesMade \cup {t}
  BY <1>2, <1>5 DEF NodesMade
<1>12. RunsOutside'
  <2>1. ASSUME NEW s \in NodesMade', NEW d \in stack', Inside(d, s)
        PROVE  emph.on /\ s.from = emph.bottom /\ s.to = Len(tokens)
    <3>1. CASE s = t
      BY <1>2, <1>5, <2>1, <3>1 DEF Inside
    <3>2. CASE s \in NodesMade
      BY <1>2, <2>1, <3>2 DEF NestInv, RunsOutside
    <3>3. QED
      BY <1>11, <3>1, <3>2
  <2>2. QED
    BY <1>2, <1>3, <2>1 DEF RunsOutside, Inside
<1>13. BracketsOutside'
  <2>1. ASSUME NEW i \in DOMAIN brackets
        PROVE  ~Inside(brackets[i].at, t)
    <3>1. brackets[i].at \in Nat /\ brackets[i].at < emph.bottom
      BY <1>1, <1>6 DEF NestInv, BracketsOpen
    <3>2. QED
      BY <1>1, <1>3, <1>4, <1>5, <3>1 DEF Inside
  <2>2. QED
    BY <1>2, <1>11, <2>1 DEF NestInv, BracketsOutside, Inside
<1>14. LinksReopened' /\ Reopened'
  <2>1. Links' = Links
    BY <1>2, <1>5 DEF Links
  <2>2. QED
    BY <1>2, <2>1, LinksKept
<1>15. QED
  BY <1>2, <1>9, <1>10, <1>12, <1>13, <1>14 DEF NestInv

LEMMA PairQuotesNest == ASSUME Inv, NestInv, PairQuotes PROVE NestInv'
<1> DEFINE c == emph.closer
           o == Nearest(Candidates(c))
           t == [kind |-> "quotes", from |-> o, to |-> c]
<1>1. emph.on /\ c \in stack /\ o \in stack /\ o < c /\ stack \in SUBSET Nat
  BY PairsListed, ListedAreRuns DEF PairQuotes, Closing
<1>2. /\ stack' \subseteq stack /\ spans' = spans \cup {t}
      /\ UNCHANGED <<tokens, brackets, noLink>>
  BY DEF PairQuotes
<1>3. emph'.on = emph.on /\ emph'.bottom = emph.bottom
  BY DEF PairQuotes, Inv, EmphOK
<1>4. o \in Places /\ c \in Places
  BY <1>1 DEF Inv, Listed, Places
<1>5. t.kind = "quotes" /\ t.from = o /\ t.to = c
  OBVIOUS
<1> HIDE DEF t, o, c
<1>6. NodesMade' = NodesMade /\ Links' = Links
  BY <1>2, <1>5 DEF NodesMade, Links
<1>7. SpansOK' /\ BracketsOpen'
  BY <1>1, <1>2, <1>3, <1>4, <1>5 DEF NestInv, SpansOK, BracketsOpen, Places
<1>8. RunsOutside' /\ BracketsOutside'
  BY <1>2, <1>3, <1>6 DEF NestInv, RunsOutside, BracketsOutside, Inside
<1>9. NoOverlap'
  BY <1>6 DEF NestInv, NoOverlap, NodesMade, Inside
<1>10. QED
  BY <1>2, <1>6, <1>7, <1>8, <1>9, LinksKept DEF NestInv

LEMMA EndEmphasisNest == ASSUME Inv, NestInv, EndEmphasis PROVE NestInv'
<1>1. /\ stack' = {d \in stack : d < emph.bottom} /\ emph' = Off /\ emph.on
      /\ UNCHANGED <<tokens, brackets, noLink, spans>>
  BY DEF EndEmphasis
<1>2. emph'.on = FALSE
  BY <1>1 DEF Off
<1>3. SpansOK' /\ BracketsOpen' /\ BracketsOutside' /\ NoOverlap'
  BY <1>1, <1>2 DEF NestInv, SpansOK, BracketsOpen, BracketsOutside, NoOverlap, NodesMade, Inside, Places
<1>4. RunsOutside'
  <2>1. ASSUME NEW s \in NodesMade, NEW d \in stack, d < emph.bottom, Inside(d, s)
        PROVE  FALSE
    <3>1. s.from = emph.bottom
      BY <2>1 DEF NestInv, RunsOutside
    <3>2. d \in Nat /\ emph.bottom \in Nat
      BY ListedAreRuns DEF Inv, EmphOK
    <3>3. QED
      BY <2>1, <3>1, <3>2 DEF Inside
  <2>2. QED
    BY <1>1, <2>1 DEF RunsOutside, NodesMade, Inside
<1>5. LinksReopened' /\ Reopened'
  BY <1>1, LinksKept DEF Links
<1>6. QED
  BY <1>1, <1>3, <1>4, <1>5 DEF NestInv

LEMMA EmphasisNest == ASSUME Inv, NestInv, Emphasis PROVE NestInv'
<1>1. CASE SkipOpener
  <2>1. emph'.on = emph.on /\ emph'.bottom = emph.bottom
    BY <1>1 DEF SkipOpener, Inv, EmphOK
  <2>2. QED
    BY <1>1, <2>1, NodesKept DEF SkipOpener
<1>2. CASE Refuse
  <2>1. emph'.on = emph.on /\ emph'.bottom = emph.bottom
    BY <1>2 DEF Refuse, Inv, EmphOK
  <2>2. QED
    BY <1>2, <2>1, NodesKept DEF Refuse
<1>3. CASE NoOpener
  <2>1. emph'.on = emph.on /\ emph'.bottom = emph.bottom /\ stack' \subseteq stack
    BY <1>3 DEF NoOpener, Inv, EmphOK
  <2>2. QED
    BY <1>3, <2>1, NodesKept DEF NoOpener
<1>4. QED
  BY <1>1, <1>2, <1>3, PairNest, PairQuotesNest, EndEmphasisNest DEF Emphasis

\* Reading a token changes no place of a span and no token before it
LEMMA ReadSpans ==
  ASSUME Inv, NestInv, NEW x \in Run \cup Bracket, Read(x)
  PROVE  /\ Here \in Places' /\ Places \subseteq Places' /\ Places' \in SUBSET Nat
         /\ Len(tokens') = Here /\ \A d \in Places : d < Here
         /\ \A s \in spans : s.from \in Places /\ s.to \in Places /\ s.to < Here
         /\ \A d \in Places : tokens'[d] = tokens[d]
<1>1. /\ DOMAIN tokens' = DOMAIN tokens \cup {Here} /\ tokens' \in Seq(Run \cup Bracket)
      /\ \A d \in DOMAIN tokens : tokens'[d] = tokens[d]
  BY ReadText DEF TextOK
<1>2. Len(tokens') = Here /\ DOMAIN tokens = 1..Len(tokens) /\ Len(tokens) \in Nat
  BY DEF Read, Inv, TextOK, Here
<1>3. \A d \in Places : d < Here
  BY <1>2 DEF Places, Here
<1>4. QED
  BY <1>1, <1>2, <1>3 DEF Places, NestInv, SpansOK

\* Reading a token that makes no span keeps the nodes nested
LEMMA ReadNest ==
  ASSUME Inv, NestInv, NEW x \in Run \cup Bracket, Read(x), ~emph.on,
         UNCHANGED <<spans, emph>>
  PROVE  /\ SpansOK' /\ NoOverlap' /\ LinksReopened'
         /\ noLink' = noLink => Reopened'
         /\ stack' \subseteq stack \cup {Here} => RunsOutside'
<1>1. SpansOK'
  BY ReadSpans DEF NestInv, SpansOK
<1>2. NoOverlap'
  BY DEF NestInv, NoOverlap, Inside
<1>3. ASSUME NEW s \in Links, NEW i \in (s.from)..(s.to)
      PROVE  tokens'[i] = tokens[i]
  <2>1. i \in Places
    BY ReadSpans DEF Links, Places, Inv, TextOK
  <2>2. QED
    BY <2>1, ReadSpans
<1>4. LinksReopened'
  <2>1. ASSUME NEW s \in Links, NEW t \in Links, Inside(t.to, s)
        PROVE  \E i \in (t.to + 1)..(s.to - 1) :
                 /\ tokens'[i].type \in {"[", "[^"}
                 /\ ~\E l \in spans : l.kind = "link" /\ i < l.to /\ l.to < s.to
    <3>1. PICK i \in (t.to + 1)..(s.to - 1) :
                 /\ tokens[i].type \in {"[", "[^"}
                 /\ ~\E l \in spans : l.kind = "link" /\ i < l.to /\ l.to < s.to
      BY <2>1 DEF NestInv, LinksReopened, Links
    <3>2. s.from \in Nat /\ s.to \in Nat /\ t.to \in Nat /\ s.from < t.to
      BY <2>1, ReadSpans DEF Links, Inside
    <3>3. i \in (s.from)..(s.to)
      BY <3>2
    <3>4. QED
      BY <1>3, <3>1, <3>3
  <2>2. QED
    BY <2>1 DEF LinksReopened, Links, Inside
<1>5. ASSUME noLink' = noLink PROVE Reopened'
  BY <1>5, ReadSpans DEF NestInv, Reopened, Links
<1>6. ASSUME stack' \subseteq stack \cup {Here} PROVE RunsOutside'
  <2>1. ASSUME NEW s \in NodesMade, NEW d \in stack', Inside(d, s) PROVE FALSE
    <3>1. s.to < Here /\ s.to \in Nat /\ Here \in Nat
      BY ReadSpans DEF NodesMade
    <3>2. d # Here
      BY <2>1, <3>1 DEF Inside
    <3>3. d \in stack
      BY <1>6, <3>2
    <3>4. QED
      BY <2>1, <3>3 DEF NestInv, RunsOutside
  <2>2. QED
    BY <2>1 DEF RunsOutside, NodesMade, Inside
<1>7. QED
  BY <1>1, <1>2, <1>4, <1>5, <1>6

\* The bracket on top, and those below it
LEMMA TopIsLast ==
  ASSUME Inv, NestInv, brackets # <<>>
  PROVE  /\ Top.at \in Places /\ tokens[Top.at].type # "run"
         /\ \A s \in NodesMade : ~Inside(Top.at, s)
         /\ DOMAIN Popped \subseteq DOMAIN brackets
         /\ \A i \in DOMAIN Popped : Popped[i] = brackets[i] /\ Popped[i].at < Top.at
         /\ Top = brackets[Len(brackets)] /\ Len(brackets) \in DOMAIN brackets
<1> DEFINE B == [at : Nat, image : BOOLEAN, after : BOOLEAN]
<1>1. brackets \in Seq(B) /\ Len(brackets) \in Nat /\ Len(brackets) > 0
  BY EmptySeq, LenProperties DEF Inv, BracketsOK
<1> HIDE DEF B
<1>2. DOMAIN brackets = 1..Len(brackets) /\ Len(brackets) \in DOMAIN brackets
  BY <1>1
<1>3. \A i \in 1..(Len(brackets) - 1) : brackets[i] \in B
  BY <1>1, ElementOfSeq
<1>4. Popped \in Seq(B) /\ Len(Popped) = Len(brackets) - 1
      /\ \A i \in 1..(Len(brackets) - 1) : Popped[i] = brackets[i]
  <2>1. Len(brackets) - 1 \in Int /\ 1 \in Int
    BY <1>1
  <2>2. /\ SubSeq(brackets, 1, Len(brackets) - 1) \in Seq(B)
        /\ Len(SubSeq(brackets, 1, Len(brackets) - 1)) =
             IF 1 <= Len(brackets) - 1 THEN Len(brackets) - 1 - 1 + 1 ELSE 0
        /\ \A i \in 1..(Len(brackets) - 1 - 1 + 1) :
             SubSeq(brackets, 1, Len(brackets) - 1)[i] = brackets[1 + i - 1]
    BY <1>3, <2>1, SubSeqProperties
  <2>3. ASSUME NEW n \in Nat, n > 0
        PROVE  /\ \A i \in 1..(n - 1) : i \in 1..(n - 1 - 1 + 1) /\ 1 + i - 1 = i
               /\ (IF 1 <= n - 1 THEN n - 1 - 1 + 1 ELSE 0) = n - 1
    <3>1. \A i \in 1..(n - 1) : i \in 1..(n - 1 - 1 + 1) /\ 1 + i - 1 = i
      BY <2>3
    <3>2. CASE n = 1
      BY <3>1, <3>2
    <3>3. CASE n > 1
      BY <3>1, <3>3
    <3>4. QED
      BY <2>3, <3>2, <3>3
  <2>4. QED
    BY <1>1, <2>2, <2>3 DEF Popped
<1>5. DOMAIN Popped = 1..(Len(brackets) - 1)
  BY <1>1, <1>4
<1>6. QED
  BY <1>1, <1>2, <1>4, <1>5 DEF Top, NestInv, BracketsOpen, BracketsOutside

LEMMA PushRunNest == ASSUME Inv, NestInv, NEW x \in Runs, PushRun(x) PROVE NestInv'
<1>1. /\ x \in Run /\ Read(x) /\ ~emph.on /\ UNCHANGED <<brackets, noLink, spans, emph>>
      /\ stack' \subseteq stack \cup {Here}
  BY RunsAreRuns DEF PushRun, Reading
<1>2. SpansOK' /\ NoOverlap' /\ LinksReopened' /\ Reopened' /\ RunsOutside'
  BY <1>1, ReadNest
<1>3. BracketsOpen' /\ BracketsOutside'
  BY <1>1, ReadSpans DEF NestInv, BracketsOpen, BracketsOutside, NodesMade, Inside
<1>4. QED
  BY <1>1, <1>2, <1>3 DEF NestInv

LEMMA PushBracketNest == ASSUME Inv, NestInv, NEW x \in Bracket, PushBracket(x) PROVE NestInv'
<1> DEFINE B == [at : Nat, image : BOOLEAN, after : BOOLEAN]
           marked == [i \in DOMAIN brackets |->
                        [brackets[i] EXCEPT !.after = @ \/ i = Len(brackets)]]
           new == [at |-> Here, image |-> x.type = "![", after |-> FALSE]
<1>1. /\ Read(x) /\ ~emph.on /\ UNCHANGED <<stack, spans, emph>> /\ brackets' = Append(marked, new)
      /\ x.type \in {"[", "![", "[^"} /\ noLink' = (noLink /\ x.type = "![")
  BY DEF PushBracket, Reading
<1>2. SpansOK' /\ NoOverlap' /\ LinksReopened' /\ RunsOutside'
  BY <1>1, ReadNest
<1>3. /\ DOMAIN brackets' = DOMAIN brackets \cup {Len(brackets) + 1}
      /\ Len(brackets) \in Nat /\ DOMAIN brackets = 1..Len(brackets)
      /\ \A i \in DOMAIN brackets : brackets'[i].at = brackets[i].at
      /\ brackets'[Len(brackets) + 1].at = Here
  <2>1. brackets \in Seq(B) /\ Len(brackets) \in Nat /\ DOMAIN brackets = 1..Len(brackets)
    BY DEF Inv, BracketsOK
  <2>2. ASSUME NEW i \in 1..Len(brackets) PROVE marked[i] \in B /\ marked[i].at = brackets[i].at
    <3>1. brackets[i] \in B
      BY <2>1, ElementOfSeq
    <3>2. (brackets[i].after \/ i = Len(brackets)) \in BOOLEAN
      OBVIOUS
    <3>3. QED
      BY <2>1, <3>1, <3>2
  <2>3. marked \in Seq(B) /\ Len(marked) = Len(brackets)
    BY <2>1, <2>2
  <2>4. new \in B /\ new.at = Here
    BY <1>1, ReadSpans
  <2> HIDE DEF marked, new, B
  <2>5. QED
    BY <1>1, <2>1, <2>2, <2>3, <2>4
<1>4. /\ Here \in Places' /\ Places \subseteq Places' /\ Places' \in SUBSET Nat
      /\ Len(tokens') = Here /\ \A d \in Places : d < Here
      /\ \A s \in spans : s.from \in Places /\ s.to \in Places /\ s.to < Here
      /\ \A d \in Places : tokens'[d] = tokens[d]
  BY <1>1, ReadSpans
<1>5. tokens'[Here].type # "run" /\ tokens'[Here].type = x.type
  BY <1>1, ReadText
<1>6. BracketsOpen'
  <2>1. ASSUME NEW i \in DOMAIN brackets'
        PROVE  brackets'[i].at \in Places' /\ tokens'[brackets'[i].at].type # "run" /\ ~emph'.on
    BY <1>1, <1>3, <1>4, <1>5 DEF NestInv, BracketsOpen
  <2>2. ASSUME NEW i \in DOMAIN brackets', NEW j \in DOMAIN brackets', i < j
        PROVE  brackets'[i].at < brackets'[j].at
    BY <2>2, <1>3, <1>4 DEF NestInv, BracketsOpen
  <2>3. QED
    BY <2>1, <2>2 DEF BracketsOpen
<1>7. BracketsOutside'
  <2>1. \A s \in NodesMade : ~Inside(Here, s)
    BY <1>4 DEF NodesMade, Inside, Places
  <2>2. QED
    BY <1>1, <1>3, <2>1 DEF NestInv, BracketsOutside, NodesMade, Inside
<1>8. Reopened' /\ noLink' \in BOOLEAN
  <2>1. CASE x.type = "!["
    <3>1. noLink' = noLink
      BY <1>1, <2>1 DEF NestInv
    <3>2. QED
      BY <1>1, <3>1, ReadNest DEF NestInv
  <2>2. CASE x.type # "!["
    BY <1>1, <1>4, <1>5, <2>2 DEF Reopened, Links
  <2>3. QED
    BY <2>1, <2>2
<1>9. QED
  BY <1>2, <1>6, <1>7, <1>8 DEF NestInv

\* A span over what the bracket on top began crosses no node, and neither do the brackets below
LEMMA TopSpanNests ==
  ASSUME Inv, NestInv, NEW x \in Bracket, Read(x), brackets # <<>>, ~emph.on,
         NEW t, t.from = Top.at, t.to = Here, spans' = spans \cup {t}, brackets' = Popped,
         emph'.on => emph'.bottom = Top.at
  PROVE  SpansOK' /\ NoOverlap' /\ BracketsOpen' /\ BracketsOutside'
<1>1. /\ Here \in Places' /\ Places \subseteq Places' /\ Places' \in SUBSET Nat
      /\ \A d \in Places : d < Here
      /\ \A s \in spans : s.from \in Places /\ s.to \in Places /\ s.to < Here
      /\ \A d \in Places : tokens'[d] = tokens[d]
  BY ReadSpans
<1>2. /\ Top.at \in Places
      /\ \A s \in NodesMade : ~Inside(Top.at, s)
      /\ DOMAIN Popped \subseteq DOMAIN brackets
      /\ \A i \in DOMAIN Popped : Popped[i] = brackets[i] /\ Popped[i].at < Top.at
  BY TopIsLast
<1>3. SpansOK'
  BY <1>1, <1>2 DEF NestInv, SpansOK
<1>4. NoOverlap'
  <2>1. ASSUME NEW s \in NodesMade
        PROVE  /\ ~(Inside(t.from, s) /\ ~Inside(t.to, s) /\ t.to > s.to)
               /\ ~(Inside(s.from, t) /\ ~Inside(s.to, t) /\ s.to > t.to)
    <3>1. ~Inside(Top.at, s) /\ s.to < Here /\ s.to \in Nat /\ Here \in Nat
      BY <1>1, <1>2 DEF NodesMade
    <3>2. QED
      BY <3>1
  <2>2. ~Inside(t.from, t)
    <3>1. t.from \in Nat
      BY <1>1, <1>2
    <3>2. QED
      BY <3>1 DEF Inside
  <2>3. QED
    BY <2>1, <2>2, NodeAdded DEF NestInv
<1>5. BracketsOpen'
  BY <1>1, <1>2 DEF NestInv, BracketsOpen
<1>6. BracketsOutside'
  <2>1. ASSUME NEW i \in DOMAIN Popped, NEW s \in NodesMade'
        PROVE  ~Inside(Popped[i].at, s)
    <3>1. brackets[i].at \in Nat /\ brackets[i].at < Top.at /\ Popped[i] = brackets[i]
          /\ i \in DOMAIN brackets
      BY <1>1, <1>2 DEF NestInv, BracketsOpen
    <3>2. CASE s = t
      <4>1. ~(Top.at < brackets[i].at)
        <5>1. ASSUME NEW m \in Nat, NEW n \in Nat, m < n PROVE ~(n < m)
          BY <5>1
        <5>2. Top.at \in Nat
          BY <1>1, <1>2
        <5>3. QED
          BY <3>1, <5>1, <5>2
      <4>2. QED
        BY <3>1, <3>2, <4>1 DEF Inside
    <3>3. CASE s \in NodesMade
      BY <3>1, <3>3 DEF NestInv, BracketsOutside
    <3>4. QED
      BY <3>2, <3>3 DEF NodesMade
  <2>2. QED
    BY <2>1 DEF BracketsOutside, Inside
<1>7. QED
  BY <1>3, <1>4, <1>5, <1>6

LEMMA CloseMatchNest == ASSUME Inv, NestInv, NEW x \in Bracket, CloseMatch(x) PROVE NestInv'
<1> DEFINE t == [kind |-> IF Top.image THEN "image" ELSE "link", from |-> Top.at, to |-> Here]
<1>1. /\ Read(x) /\ ~emph.on /\ brackets # <<>> /\ ~Disabled /\ spans' = spans \cup {t}
      /\ brackets' = Popped /\ noLink' = (noLink \/ ~Top.image) /\ UNCHANGED stack
      /\ StartEmphasis(Top.at, stack)
  BY DEF CloseMatch, Reading
<1>2. emph'.on /\ emph'.bottom = Top.at
  BY <1>1 DEF StartEmphasis
<1>3. t.from = Top.at /\ t.to = Here /\ t.kind \in {"image", "link"}
      /\ (t.kind = "link" => ~Top.image)
  OBVIOUS
<1> HIDE DEF t
<1>4. SpansOK' /\ NoOverlap' /\ BracketsOpen' /\ BracketsOutside'
  BY <1>1, <1>2, <1>3, TopSpanNests
<1>5. /\ Here \in Places' /\ Places \subseteq Places' /\ Places' \in SUBSET Nat
      /\ Len(tokens') = Here /\ \A d \in Places : d < Here
      /\ \A s \in spans : s.from \in Places /\ s.to \in Places /\ s.to < Here
      /\ \A d \in Places : tokens'[d] = tokens[d]
  BY <1>1, ReadSpans
<1>6. Top.at \in Places
  BY <1>1, TopIsLast
<1>7. RunsOutside'
  <2>1. ASSUME NEW s \in NodesMade, NEW d \in stack PROVE ~Inside(d, s)
    BY <1>1 DEF NestInv, RunsOutside
  <2>2. NodesMade' \subseteq NodesMade \cup {t}
    BY <1>1 DEF NodesMade
  <2>3. QED
    BY <1>1, <1>2, <1>3, <1>5, <2>1, <2>2 DEF RunsOutside, Inside
<1>8. ASSUME t.kind = "link"
      PROVE  \E i \in Places : /\ tokens[i].type \in {"[", "[^"}
                               /\ \A l \in Links : l.to < i
  <2>1. ~noLink
    BY <1>1, <1>3, <1>8 DEF Disabled
  <2>2. QED
    BY <2>1 DEF NestInv, Reopened
<1>9. LinksReopened'
  <2>1. ASSUME NEW s \in Links', NEW u \in Links', Inside(u.to, s)
        PROVE  \E i \in (u.to + 1)..(s.to - 1) :
                 /\ tokens'[i].type \in {"[", "[^"}
                 /\ ~\E l \in spans' : l.kind = "link" /\ i < l.to /\ l.to < s.to
    <3>1. Links' \subseteq Links \cup {t}
      BY <1>1 DEF Links
    <3>2. CASE s = t
      <4>1. t.kind = "link" /\ u.to < Here
        BY <1>3, <2>1, <3>2 DEF Links, Inside
      <4>2. u \in Links
        BY <1>3, <1>5, <3>1, <4>1
      <4>3. PICK i \in Places : tokens[i].type \in {"[", "[^"} /\ \A l \in Links : l.to < i
        BY <1>8, <4>1
      <4>4. u.to \in Nat /\ i \in Nat /\ Here \in Nat /\ u.to < i /\ i < Here
        BY <1>5, <4>2, <4>3 DEF Links
      <4>5. i \in (u.to + 1)..(s.to - 1) /\ tokens'[i].type \in {"[", "[^"}
        BY <1>3, <1>5, <3>2, <4>3, <4>4
      <4>6. ASSUME NEW l \in spans', l.kind = "link", i < l.to, l.to < s.to PROVE FALSE
        <5>1. l \in Links
          BY <1>1, <1>3, <1>5, <3>2, <4>6 DEF Links
        <5>2. l.to \in Nat /\ l.to < i
          BY <1>5, <4>3, <5>1 DEF Links
        <5>3. QED
          BY <4>4, <4>6, <5>2
      <4>7. QED
        BY <4>5, <4>6
    <3>3. CASE s # t
      <4>1. s \in Links /\ s.to < Here /\ s.to \in Nat /\ s.from \in Nat
        BY <1>5, <3>1, <3>3 DEF Links
      <4>2. u # t /\ u \in Links /\ u.to \in Nat /\ s.from < u.to
        <5>1. s.from < u.to /\ u.to < s.to
          BY <2>1 DEF Inside
        <5>2. u # t
          BY <1>3, <1>5, <4>1, <5>1
        <5>3. u \in Links
          BY <2>1, <3>1, <5>2
        <5>4. QED
          BY <1>5, <5>1, <5>2, <5>3 DEF Links
      <4>3. PICK i \in (u.to + 1)..(s.to - 1) :
                   /\ tokens[i].type \in {"[", "[^"}
                   /\ ~\E l \in spans : l.kind = "link" /\ i < l.to /\ l.to < s.to
        BY <2>1, <4>1, <4>2 DEF NestInv, LinksReopened, Links
      <4>4. tokens'[i] = tokens[i]
        <5>1. s.to \in Places /\ Places = 1..Len(tokens) /\ Len(tokens) \in Nat
          BY <1>5, <4>1 DEF Links, Places, Inv, TextOK
        <5>2. i \in Places
          BY <4>2, <5>1
        <5>3. QED
          BY <1>5, <5>2
      <4>5. ~\E l \in spans' : l.kind = "link" /\ i < l.to /\ l.to < s.to
        BY <1>1, <1>3, <1>5, <4>1, <4>3
      <4>6. QED
        BY <4>3, <4>4, <4>5
    <3>4. QED
      BY <3>2, <3>3
  <2>2. QED
    BY <2>1 DEF LinksReopened, Links, Inside
<1>10. Reopened'
  <2>1. CASE t.kind = "link"
    BY <1>1, <1>3, <2>1 DEF Reopened, NestInv
  <2>2. CASE t.kind # "link"
    <3>1. Links' = Links
      BY <1>1, <2>2 DEF Links
    <3>2. ~noLink' => ~noLink
      BY <1>1
    <3>3. QED
      BY <1>5, <3>1, <3>2 DEF NestInv, Reopened
  <2>3. QED
    BY <2>1, <2>2
<1>11. QED
  BY <1>1, <1>4, <1>7, <1>9, <1>10 DEF NestInv

LEMMA CloseFootnoteNest ==
  ASSUME Inv, NestInv, NEW x \in Bracket, CloseFootnote(x) PROVE NestInv'
<1> DEFINE t == [kind |-> "footnote", from |-> Top.at, to |-> Here]
<1>1. /\ Read(x) /\ ~emph.on /\ brackets # <<>> /\ spans' = spans \cup {t}
      /\ brackets' = Popped /\ UNCHANGED <<noLink, emph>>
      /\ stack' = {d \in stack : d < Top.at}
  BY DEF CloseFootnote, Reading
<1>2. t.from = Top.at /\ t.to = Here /\ t.kind = "footnote"
  OBVIOUS
<1> HIDE DEF t
<1>3. SpansOK' /\ NoOverlap' /\ BracketsOpen' /\ BracketsOutside'
  BY <1>1, <1>2, TopSpanNests
<1>4. /\ Here \in Places' /\ Places \subseteq Places' /\ Places' \in SUBSET Nat
      /\ \A d \in Places : d < Here
      /\ \A s \in spans : s.from \in Places /\ s.to \in Places /\ s.to < Here
      /\ \A d \in Places : tokens'[d] = tokens[d]
  BY <1>1, ReadSpans
<1>5. RunsOutside'
  <2>1. ASSUME NEW s \in NodesMade, NEW d \in stack PROVE ~Inside(d, s)
    BY <1>1 DEF NestInv, RunsOutside
  <2>2. ASSUME NEW d \in stack' PROVE ~Inside(d, t)
    <3>1. d \in Nat /\ Top.at \in Nat /\ d < Top.at
      BY <1>1, <1>4, TopIsLast, ListedAreRuns
    <3>2. QED
      BY <1>2, <3>1 DEF Inside
  <2>3. NodesMade' \subseteq NodesMade \cup {t}
    BY <1>1 DEF NodesMade
  <2>4. QED
    BY <1>1, <2>1, <2>2, <2>3 DEF RunsOutside, Inside
<1>6. Links' = Links
  BY <1>1, <1>2 DEF Links
<1>7. LinksReopened'
  <2>1. ASSUME NEW s \in Links, NEW u \in Links, Inside(u.to, s)
        PROVE  \E i \in (u.to + 1)..(s.to - 1) :
                 /\ tokens'[i].type \in {"[", "[^"}
                 /\ ~\E l \in spans' : l.kind = "link" /\ i < l.to /\ l.to < s.to
    <3>1. PICK i \in (u.to + 1)..(s.to - 1) :
                 /\ tokens[i].type \in {"[", "[^"}
                 /\ ~\E l \in spans : l.kind = "link" /\ i < l.to /\ l.to < s.to
      BY <2>1 DEF NestInv, LinksReopened, Links
    <3>2. i \in Places
      <4>1. s.to \in Places /\ u.to \in Places /\ Places = 1..Len(tokens) /\ Len(tokens) \in Nat
        BY <1>4 DEF Links, Places, Inv, TextOK
      <4>2. QED
        BY <4>1
    <3>3. QED
      BY <1>1, <1>2, <1>4, <3>1, <3>2
  <2>2. QED
    BY <1>6, <2>1 DEF LinksReopened, Links, Inside
<1>8. Reopened'
  BY <1>1, <1>4, <1>6 DEF NestInv, Reopened
<1>9. QED
  BY <1>1, <1>3, <1>5, <1>7, <1>8 DEF NestInv

LEMMA CloseTextNest == ASSUME Inv, NestInv, NEW x \in Bracket, CloseText(x) PROVE NestInv'
<1>1. /\ Read(x) /\ ~emph.on /\ UNCHANGED <<stack, noLink, spans, emph>>
      /\ brackets' = IF brackets = <<>> THEN brackets ELSE Popped
  BY DEF CloseText, Reading
<1>2. SpansOK' /\ NoOverlap' /\ LinksReopened' /\ Reopened' /\ RunsOutside'
  BY <1>1, ReadNest
<1>3. DOMAIN brackets' \subseteq DOMAIN brackets
      /\ \A i \in DOMAIN brackets' : brackets'[i] = brackets[i]
  BY <1>1, TopIsLast
<1>4. BracketsOpen' /\ BracketsOutside'
  BY <1>1, <1>3, ReadSpans DEF NestInv, BracketsOpen, BracketsOutside, NodesMade, Inside
<1>5. QED
  BY <1>1, <1>2, <1>4 DEF NestInv

LEMMA EndOfTextNest == ASSUME Inv, NestInv, EndOfText PROVE NestInv'
<1>1. /\ brackets' = <<>> /\ ~emph.on /\ UNCHANGED <<tokens, stack, noLink, spans>>
  BY DEF EndOfText
<1>2. RunsOutside'
  <2>1. \A s \in NodesMade : \A d \in stack : ~Inside(d, s)
    BY <1>1 DEF NestInv, RunsOutside
  <2>2. QED
    BY <1>1, <2>1 DEF RunsOutside, NodesMade, Inside
<1>3. SpansOK' /\ NoOverlap' /\ BracketsOpen' /\ BracketsOutside'
  BY <1>1 DEF NestInv, SpansOK, NoOverlap, BracketsOpen, BracketsOutside, Places, Inside
<1>4. LinksReopened' /\ Reopened'
  BY <1>1, LinksKept DEF Links
<1>5. QED
  BY <1>1, <1>2, <1>3, <1>4 DEF NestInv

LEMMA StutterNest == ASSUME NestInv, UNCHANGED vars PROVE NestInv'
<1>1. UNCHANGED <<tokens, stack, brackets, noLink, spans, emph>>
  BY DEF vars
<1>2. QED
  BY <1>1, NodesKept

LEMMA NextNest == Inv /\ NestInv /\ [Next]_vars => NestInv'
<1> SUFFICES ASSUME Inv, NestInv, [Next]_vars PROVE NestInv'
  OBVIOUS
<1>1. CASE \E x \in Runs : PushRun(x)
  BY <1>1, PushRunNest
<1>2. CASE \E x \in Brackets :
             PushBracket(x) \/ CloseMatch(x) \/ CloseFootnote(x) \/ CloseText(x)
  BY <1>2, BracketsAreBrackets, PushBracketNest, CloseMatchNest, CloseFootnoteNest, CloseTextNest
<1>3. CASE Emphasis
  BY <1>3, EmphasisNest
<1>4. CASE EndOfText
  BY <1>4, EndOfTextNest
<1>5. CASE Done \/ UNCHANGED vars
  BY <1>5, StutterNest DEF Done
<1>6. QED
  BY <1>1, <1>2, <1>3, <1>4, <1>5 DEF Next

(***************************************************************************)
(* Without tildes nothing that could be paired is missed                   *)
(***************************************************************************)
NoTildes == \A i \in Places : tokens[i].type = "run" => tokens[i].ch # "~"

IsText(i) == tokens[i].type = "run" /\ left[i] > 0

Pairable(o, c) ==
  IsText(o) /\ IsText(c) /\ o < c /\ tokens[c].closes /\ Matches(o, ClassOf(c))

Settled(o, c) ==
  \E s \in spans : \/ Inside(o, s) # Inside(c, s)
                   \/ s.kind = "footnote" /\ Inside(o, s)

\* Two runs that could be paired are both on the list, or a span keeps them apart
ListedOrSettled ==
  \A o, c \in Places : Pairable(o, c) => (o \in stack /\ c \in stack) \/ Settled(o, c)

\* While text is read, an opener that has left the list is inside a span, which the closers to come
\* are not
OpenersInside ==
  ~ended => \A o \in Places : IsText(o) /\ tokens[o].opens /\ o \notin stack =>
              \E s \in spans : Inside(o, s)

\* What is left before the closer has no pair any more
Passed ==
  emph.on => \A o, c \in stack :
    emph.bottom <= o /\ o < c /\ (emph.closer = NoRun \/ c < emph.closer) /\ tokens[c].closes
      => ~Matches(o, ClassOf(c))

\* After the text process_emphasis runs once, from the bottom, and empties the list
Ending ==
  /\ ended => stack = {} \/ (emph.on /\ emph.bottom = 0)
  /\ ~ended /\ emph.on => emph.bottom # 0

\* Before, it works inside a link just closed
InLink ==
  emph.on /\ emph.bottom # 0 =>
    /\ tokens[emph.bottom].type # "run" /\ tokens[Len(tokens)].type # "run"
    /\ \E s \in spans : s.from = emph.bottom /\ s.to = Len(tokens)

MissInv == Ending /\ InLink /\ (NoTildes => OpenersInside /\ ListedOrSettled /\ Passed)

LEMMA InitMiss == Init => MissInv
<1> SUFFICES ASSUME Init PROVE MissInv
  OBVIOUS
<1> USE DEF Init, Off
<1>1. Ending /\ InLink
  BY DEF Ending, InLink
<1>2. OpenersInside /\ ListedOrSettled /\ Passed
  BY DEF OpenersInside, ListedOrSettled, Passed, Places
<1>3. QED
  BY <1>1, <1>2 DEF MissInv

\* No run above a place comes before the next one
LEMMA UpFromNext ==
  ASSUME NEW S \in SUBSET Nat, NEW c \in Nat, NEW d \in S, d > c
  PROVE  UpFrom(S, c) # NoRun /\ UpFrom(S, c) <= d
<1> DEFINE above == {e \in S : e > c}
<1>1. above # {} /\ above \in SUBSET Nat
  OBVIOUS
<1>2. \E e \in above : \A f \in above : e <= f
  BY <1>1, FirstExists
<1>3. UpFrom(S, c) \in above /\ UpFrom(S, c) <= d
  BY <1>1, <1>2 DEF UpFrom
<1>4. QED
  BY <1>3 DEF NoRun

\* process_emphasis starts with nothing behind it
LEMMA StartPassed ==
  ASSUME NEW b \in Nat, stack \in SUBSET (Nat \ {0}), StartEmphasis(b, stack), UNCHANGED stack
  PROVE  Passed'
<1> DEFINE above == {d \in stack : d >= b}
<1>1. emph'.bottom = b
      /\ emph'.closer = IF above = {} THEN NoRun ELSE CHOOSE d \in above : \A e \in above : d <= e
  BY DEF StartEmphasis
<1>2. ASSUME NEW o \in stack, NEW c \in stack, b <= o, o < c,
             emph'.closer = NoRun \/ c < emph'.closer
      PROVE  FALSE
  <2>1. above # {} /\ above \in SUBSET Nat /\ c \in above
    <3>1. o \in Nat /\ c \in Nat
      OBVIOUS
    <3>2. c >= b
      BY <1>2, <3>1
    <3>3. QED
      BY <3>2
  <2>2. \E d \in above : \A e \in above : d <= e
    BY <2>1, FirstExists
  <2>3. emph'.closer \in above /\ emph'.closer <= c
    BY <1>1, <2>1, <2>2
  <2>4. emph'.closer # NoRun /\ emph'.closer \in Nat /\ c \in Nat
    BY <2>3 DEF NoRun
  <2>5. QED
    BY <1>2, <2>3, <2>4
<1>3. QED
  BY <1>1, <1>2 DEF Passed

\* Runs leave the list when process_emphasis has no more use for them
LEMMA RunsLeave ==
  ASSUME MissInv, NoTildes, UNCHANGED <<tokens, ended>>, spans \subseteq spans', stack' \subseteq stack,
         \A d \in Places : left'[d] > 0 => left[d] > 0,
         ~ended => \A d \in stack \ stack' : left'[d] > 0 /\ tokens[d].opens =>
                     \E s \in spans' : Inside(d, s),
         \A o, c \in stack :
           /\ o \notin stack' \/ c \notin stack'
           /\ left'[o] > 0 /\ left'[c] > 0 /\ o < c /\ tokens[c].closes /\ Matches(o, ClassOf(c))
           => \E s \in spans' : \/ Inside(o, s) # Inside(c, s)
                                \/ s.kind = "footnote" /\ Inside(o, s)
  PROVE  OpenersInside' /\ ListedOrSettled'
<1>1. Places' = Places /\ OpenersInside /\ ListedOrSettled
  BY DEF Places, MissInv
<1>2. OpenersInside'
  <2>1. ASSUME ~ended, NEW o \in Places, tokens[o].type = "run", left'[o] > 0, tokens[o].opens,
               o \notin stack'
        PROVE  \E s \in spans' : Inside(o, s)
    <3>1. CASE o \in stack
      BY <2>1, <3>1
    <3>2. CASE o \notin stack
      <4>1. \E s \in spans : Inside(o, s)
        BY <1>1, <2>1, <3>2 DEF OpenersInside, IsText
      <4>2. QED
        BY <4>1
    <3>3. QED
      BY <3>1, <3>2
  <2>2. QED
    BY <1>1, <2>1 DEF OpenersInside, IsText, Inside
<1>3. ListedOrSettled'
  <2>1. ASSUME NEW o \in Places, NEW c \in Places, Pairable(o, c)'
        PROVE  (o \in stack' /\ c \in stack') \/ Settled(o, c)'
    <3>1. /\ left'[o] > 0 /\ left'[c] > 0 /\ o < c /\ tokens[c].closes /\ Matches(o, ClassOf(c))
          /\ tokens[o].type = "run" /\ tokens[c].type = "run"
      BY <2>1 DEF Pairable, IsText, Matches, OddMatch, ClassOf
    <3>2. Pairable(o, c)
      BY <3>1 DEF Pairable, IsText
    <3>3. CASE Settled(o, c)
      BY <3>3 DEF Settled, Inside
    <3>4. CASE o \in stack /\ c \in stack
      BY <3>1, <3>4 DEF Settled, Inside
    <3>5. QED
      BY <1>1, <3>2, <3>3, <3>4 DEF ListedOrSettled
  <2>2. QED
    BY <1>1, <2>1 DEF ListedOrSettled
<1>4. QED
  BY <1>2, <1>3

\* While process_emphasis runs, what it runs in stays
LEMMA RunningKept ==
  ASSUME MissInv, UNCHANGED <<tokens, ended>>, spans \subseteq spans', stack' \subseteq stack,
         emph.on, emph'.on, emph'.bottom = emph.bottom
  PROVE  Ending' /\ InLink' /\ NoTildes' = NoTildes
<1>1. Ending'
  BY DEF MissInv, Ending
<1>2. InLink'
  BY DEF MissInv, InLink
<1>3. NoTildes' = NoTildes
  BY DEF NoTildes, Places
<1>4. QED
  BY <1>1, <1>2, <1>3

\* The closer moves to the next run: only the one it leaves is passed now
LEMMA PassedOn ==
  ASSUME Inv, Passed, emph.on, emph.closer \in stack, UNCHANGED tokens, stack' \subseteq stack,
         emph'.bottom = emph.bottom,
         NEW S \in SUBSET stack, S = stack \/ S = stack', emph'.closer = UpFrom(S, emph.closer),
         emph.closer \in stack' /\ tokens[emph.closer].closes =>
           \A o \in stack' : emph.bottom <= o /\ o < emph.closer
             => ~Matches(o, ClassOf(emph.closer))
  PROVE  Passed'
<1> DEFINE c == emph.closer
<1>1. S \in SUBSET Nat /\ c \in Nat /\ stack \in SUBSET Nat /\ stack' \in SUBSET Nat /\ stack' \subseteq S
  BY ListedAreRuns
<1>2. ASSUME NEW o \in stack', NEW d \in stack', emph.bottom <= o, o < d,
             emph'.closer = NoRun \/ d < emph'.closer, tokens[d].closes
      PROVE  ~Matches(o, ClassOf(d))
  <2>1. CASE d > c
    <3>1. UpFrom(S, c) # NoRun /\ UpFrom(S, c) <= d
      BY <1>1, <2>1, UpFromNext
    <3>2. UpFrom(S, c) \in S
      BY <1>1, <3>1, UpFromListed
    <3>3. UpFrom(S, c) \in Nat /\ d \in Nat
      BY <1>1, <3>2
    <3>4. QED
      BY <1>2, <3>1, <3>3
  <2>2. CASE d = c
    BY <1>2, <2>2
  <2>3. CASE d < c
    BY <1>2, <2>3 DEF Passed
  <2>4. d \in Nat
    BY <1>1
  <2>5. QED
    BY <1>1, <2>1, <2>2, <2>3, <2>4
<1>3. QED
  BY <1>2 DEF Passed, Matches, OddMatch, ClassOf

LEMMA SkipOpenerMiss == ASSUME Inv, MissInv, SkipOpener PROVE MissInv'
<1>1. /\ emph.on /\ emph.closer \in stack /\ ~tokens[emph.closer].closes
      /\ UNCHANGED <<tokens, left, stack, spans, ended>>
  BY DEF Inv, ListedRunsHaveText, SkipOpener, Closing
<1>2. emph'.closer = UpFrom(stack, emph.closer) /\ emph'.bottom = emph.bottom /\ emph'.on
  BY <1>1 DEF SkipOpener, Inv, EmphOK
<1>3. Ending' /\ InLink' /\ NoTildes' = NoTildes
  BY <1>1, <1>2, RunningKept
<1>4. ASSUME NoTildes PROVE OpenersInside' /\ ListedOrSettled' /\ Passed'
  <2>1. OpenersInside' /\ ListedOrSettled'
    BY <1>1, <1>4, RunsLeave
  <2>2. Passed'
    BY <1>1, <1>2, <1>4, PassedOn DEF MissInv
  <2>3. QED
    BY <2>1, <2>2
<1>5. QED
  BY <1>3, <1>4 DEF MissInv

\* Without tildes insert_emph refuses nothing
LEMMA NothingRefused == ASSUME Inv, NoTildes PROVE ~Refuse
<1>1. Closing => emph.closer \in Places /\ tokens[emph.closer].type = "run"
  BY DEF Closing, Inv, Listed, ListedRunsHaveText, Places
<1>2. QED
  BY <1>1 DEF Refuse, Refused, NoTildes

LEMMA RefuseMiss == ASSUME Inv, MissInv, Refuse PROVE MissInv'
<1>1. emph.on /\ UNCHANGED <<tokens, left, stack, spans, ended>>
  BY DEF Refuse, Closing
<1>2. emph'.bottom = emph.bottom /\ emph'.on
  BY <1>1 DEF Refuse, Inv, EmphOK
<1>3. Ending' /\ InLink' /\ NoTildes' = NoTildes
  BY <1>1, <1>2, RunningKept
<1>4. QED
  BY <1>3, NothingRefused DEF MissInv

LEMMA PairMiss == ASSUME Inv, MissInv, Pair PROVE MissInv'
<1> DEFINE c == emph.closer
           o == Nearest(Candidates(c))
           n == Uses(o, c)
           t == [kind |-> IF n = 1 THEN "emph" ELSE "strong", from |-> o, to |-> c]
           rest == {d \in stack : ~(o < d /\ d < c) /\ ~(d = o /\ left[o] = n)
                                  /\ ~(d = c /\ left[c] = n)}
<1>1. emph.on /\ c \in stack /\ o \in stack /\ o < c /\ stack \in SUBSET Nat
  BY PairsListed, ListedAreRuns DEF Pair, Closing
<1>2. /\ left' = [left EXCEPT ![o] = @ - n, ![c] = @ - n]
      /\ stack' = rest /\ spans' = spans \cup {t}
      /\ emph' = [emph EXCEPT !.closer = IF left[c] = n THEN UpFrom(rest, c) ELSE c]
      /\ UNCHANGED <<tokens, ended>>
  BY DEF Pair
<1>3. n \in {1, 2} /\ n <= left[o] /\ n <= left[c] /\ left[o] \in Nat /\ left[c] \in Nat
  BY <1>1, UsesFit
<1>4. left \in [DOMAIN tokens -> Nat] /\ c \in DOMAIN tokens /\ o \in DOMAIN tokens /\ o # c
  BY <1>1 DEF Inv, TextOK, Listed
<1>5. left'[o] = left[o] - n /\ left'[c] = left[c] - n
      /\ \A d \in DOMAIN tokens : d # o /\ d # c => left'[d] = left[d]
  BY <1>2, <1>4
<1>6. emph'.closer = (IF left[c] = n THEN UpFrom(rest, c) ELSE c)
      /\ emph'.bottom = emph.bottom /\ emph'.on
  BY <1>1, <1>2 DEF Inv, EmphOK
<1>7. emph.bottom <= o /\ emph.bottom \in Nat
  BY PairAbove DEF Pair, Inv, EmphOK
<1>8. Ending' /\ InLink' /\ NoTildes' = NoTildes
  BY <1>1, <1>2, <1>6, RunningKept
<1>9. ASSUME NEW d \in stack \ stack', left'[d] > 0 PROVE o < d /\ d < c
  <2>1. ~(d = o /\ left[o] = n) /\ ~(d = c /\ left[c] = n)
    BY <1>3, <1>5, <1>9
  <2>2. QED
    BY <1>2, <1>9, <2>1
<1>10. t \in spans' /\ t.from = o /\ t.to = c
  BY <1>2
<1> HIDE DEF t, n, o, c
<1>11. ASSUME NoTildes PROVE OpenersInside' /\ ListedOrSettled' /\ Passed'
  <2>1. Passed
    BY <1>11 DEF MissInv
  <2>2. OpenersInside' /\ ListedOrSettled'
    <3>1. \A d \in Places : left'[d] > 0 => left[d] > 0
      BY <1>3, <1>5 DEF Places
    <3>2. \A d \in stack \ stack' : left'[d] > 0 /\ tokens[d].opens =>
                                      \E s \in spans' : Inside(d, s)
      BY <1>9, <1>10 DEF Inside
    <3>3. ASSUME NEW p \in stack, NEW q \in stack, p \notin stack' \/ q \notin stack',
                 left'[p] > 0, left'[q] > 0, p < q, tokens[q].closes, Matches(p, ClassOf(q))
          PROVE  \E s \in spans' : Inside(p, s) # Inside(q, s)
      <4>1. ~((o < p /\ p < c) /\ (o < q /\ q < c))
        <5>1. p \in Nat /\ o \in Nat
          BY <1>1
        <5>2. o < p => emph.bottom <= p
          BY <1>7, <5>1
        <5>3. QED
          BY <1>1, <2>1, <3>3, <5>2 DEF Passed, c
      <4>2. Inside(p, t) # Inside(q, t)
        BY <1>9, <1>10, <3>3, <4>1 DEF Inside
      <4>3. QED
        BY <1>10, <4>2
    <3>4. spans \subseteq spans' /\ stack' \subseteq stack
      BY <1>2
    <3>5. \A p, q \in stack :
            /\ p \notin stack' \/ q \notin stack'
            /\ left'[p] > 0 /\ left'[q] > 0 /\ p < q /\ tokens[q].closes /\ Matches(p, ClassOf(q))
            => \E s \in spans' : \/ Inside(p, s) # Inside(q, s)
                                 \/ s.kind = "footnote" /\ Inside(p, s)
      BY <3>3
    <3>6. UNCHANGED <<tokens, ended>>
      BY <1>2
    <3>7. QED
      BY <1>11, <3>1, <3>2, <3>4, <3>5, <3>6, RunsLeave
  <2>3. Passed'
    <3>1. stack' \subseteq stack
      BY <1>2
    <3>2. CASE left[c] = n
      <4>1. emph'.closer = UpFrom(stack', emph.closer) /\ c \notin stack'
        BY <1>2, <1>6, <3>2 DEF c
      <4>2. QED
        BY <1>1, <1>2, <1>6, <2>1, <3>1, <4>1, PassedOn DEF c
    <3>3. CASE left[c] # n
      <4>1. emph'.closer = emph.closer /\ emph.closer # NoRun
        BY <1>6, <3>3 DEF c, Pair, Closing
      <4>2. QED
        BY <1>1, <1>2, <1>6, <2>1, <3>1, <4>1 DEF Passed, Matches, OddMatch, ClassOf
    <3>4. QED
      BY <3>2, <3>3
  <2>4. QED
    BY <2>2, <2>3
<1>12. QED
  BY <1>8, <1>11 DEF MissInv

LEMMA PairQuotesMiss == ASSUME Inv, MissInv, PairQuotes PROVE MissInv'
<1> DEFINE c == emph.closer
           o == Nearest(Candidates(c))
<1>1. emph.on /\ c \in stack /\ o \in stack /\ o < c /\ stack \in SUBSET Nat
  BY PairsListed, ListedAreRuns DEF PairQuotes, Closing
<1>2. /\ left' = [left EXCEPT ![o] = 0, ![c] = 0]
      /\ stack' = stack \ {o, c} /\ spans \subseteq spans'
      /\ emph' = [emph EXCEPT !.closer = UpFrom(stack, c)]
      /\ UNCHANGED <<tokens, ended>>
  BY DEF PairQuotes
<1>3. left \in [DOMAIN tokens -> Nat] /\ c \in DOMAIN tokens /\ o \in DOMAIN tokens
  BY <1>1 DEF Inv, TextOK, Listed
<1>4. left'[o] = 0 /\ left'[c] = 0
      /\ \A d \in DOMAIN tokens : d # o /\ d # c => left'[d] = left[d]
  BY <1>2, <1>3
<1>5. emph'.closer = UpFrom(stack, c) /\ emph'.bottom = emph.bottom /\ emph'.on
  BY <1>1, <1>2 DEF Inv, EmphOK
<1>6. stack' \subseteq stack /\ c \notin stack'
  BY <1>2
<1>7. Ending' /\ InLink' /\ NoTildes' = NoTildes
  BY <1>1, <1>2, <1>5, <1>6, RunningKept
<1>8. ASSUME NoTildes PROVE OpenersInside' /\ ListedOrSettled' /\ Passed'
  <2>1. Passed
    BY <1>8 DEF MissInv
  <2>2. OpenersInside' /\ ListedOrSettled'
    <3>1. \A d \in Places : left'[d] > 0 => left[d] > 0
      BY <1>4 DEF Places
    <3>2. \A d \in stack : d \notin stack' => ~(left'[d] > 0)
      BY <1>2, <1>4
    <3> HIDE DEF o, c
    <3>3. QED
      BY <1>2, <1>6, <1>8, <3>1, <3>2, RunsLeave
  <2>3. Passed'
    BY <1>1, <1>2, <1>5, <1>6, <2>1, PassedOn
  <2>4. QED
    BY <2>2, <2>3
<1>9. QED
  BY <1>7, <1>8 DEF MissInv

\* What process_emphasis works on is inside the link just closed, and what is below its bottom not
LEMMA LinkParts ==
  ASSUME Inv, NestInv, MissInv, emph.on, NEW c \in stack, emph.bottom <= c, ~ended
  PROVE  \E s \in spans : Inside(c, s) /\ \A o \in stack : o < emph.bottom => ~Inside(o, s)
<1>1. emph.bottom # 0 /\ emph.bottom \in Nat
  BY DEF MissInv, Ending, Inv, EmphOK
<1>2. PICK s \in spans : s.from = emph.bottom /\ s.to = Len(tokens)
  BY <1>1 DEF MissInv, InLink
<1>3. tokens[emph.bottom].type # "run" /\ tokens[Len(tokens)].type # "run" /\ tokens[c].type = "run"
  BY <1>1 DEF MissInv, InLink, Inv, ListedRunsHaveText
<1>4. c \in 1..Len(tokens) /\ Len(tokens) \in Nat /\ stack \in SUBSET Nat
  BY ListedAreRuns DEF Inv, Listed, TextOK
<1>5. emph.bottom < c /\ c < Len(tokens)
  BY <1>1, <1>3, <1>4
<1>6. \A o \in stack : o < emph.bottom => ~(emph.bottom < o)
  BY <1>1, <1>4
<1>7. QED
  BY <1>2, <1>5, <1>6 DEF Inside

LEMMA NoOpenerMiss == ASSUME Inv, NestInv, MissInv, NoOpener PROVE MissInv'
<1> DEFINE c == emph.closer
           x == ClassOf(c)
<1>1. emph.on /\ c \in stack /\ x \in Classes /\ stack \in SUBSET Nat
      /\ emph.bottom \in Nat /\ emph.bottom <= c
  BY ListedAreRuns DEF Inv, ListedRunsHaveText, NoOpener, Closing, EmphOK
<1>2. /\ emph' = [emph EXCEPT !.bottoms[x] = c, !.closer = UpFrom(stack, c)]
      /\ stack' = IF tokens[c].opens THEN stack ELSE stack \ {c}
      /\ UNCHANGED <<tokens, left, spans, ended>>
      /\ Candidates(c) = {}
  BY DEF NoOpener
<1>3. emph'.closer = UpFrom(stack, c) /\ emph'.bottom = emph.bottom /\ emph'.on
  BY <1>1, <1>2 DEF Inv, EmphOK
<1>4. stack' \subseteq stack
  BY <1>2
<1>5. Ending' /\ InLink' /\ NoTildes' = NoTildes
  BY <1>1, <1>2, <1>3, <1>4, RunningKept
<1>6. ASSUME NEW o \in stack, emph.bottom <= o, o < c PROVE ~Matches(o, x)
  <2>1. CASE o < emph.bottoms[x]
    BY <1>1, <1>6, <2>1 DEF Inv, CacheSound
  <2>2. CASE ~(o < emph.bottoms[x])
    <3>1. o >= emph.bottoms[x]
      BY <1>1, <2>2 DEF Inv, EmphOK
    <3>2. QED
      BY <1>2, <1>6, <3>1 DEF Candidates
  <2>3. QED
    BY <2>1, <2>2
<1>7. ASSUME NoTildes PROVE OpenersInside' /\ ListedOrSettled' /\ Passed'
  <2>1. Passed
    BY <1>7 DEF MissInv
  <2>2. OpenersInside' /\ ListedOrSettled'
    <3>1. \A d \in stack \ stack' : d = c /\ ~tokens[d].opens
      BY <1>2
    <3>2. ASSUME NEW p \in stack, NEW q \in stack, p \notin stack' \/ q \notin stack',
                 p < q, tokens[q].closes, Matches(p, ClassOf(q))
          PROVE  \E s \in spans' : Inside(p, s) # Inside(q, s)
      <4>1. q = c
        BY <3>1, <3>2 DEF Matches
      <4>2. p < emph.bottom
        BY <1>1, <1>6, <3>2, <4>1
      <4>3. ~ended
        <5>1. ended => emph.bottom = 0
          BY <1>1 DEF MissInv, Ending
        <5>2. p \in Nat
          BY <1>1
        <5>3. QED
          BY <4>2, <5>1, <5>2
      <4>4. QED
        BY <1>1, <1>2, <4>1, <4>2, <4>3, LinkParts
    <3>3. \A p, q \in stack :
            /\ p \notin stack' \/ q \notin stack'
            /\ left'[p] > 0 /\ left'[q] > 0 /\ p < q /\ tokens[q].closes /\ Matches(p, ClassOf(q))
            => \E s \in spans' : \/ Inside(p, s) # Inside(q, s)
                                 \/ s.kind = "footnote" /\ Inside(p, s)
      BY <3>2
    <3>4. QED
      BY <1>2, <1>4, <1>7, <3>1, <3>3, RunsLeave
  <2>3. Passed'
    BY <1>1, <1>2, <1>3, <1>4, <1>6, <2>1, PassedOn
  <2>4. QED
    BY <2>2, <2>3
<1>8. QED
  BY <1>5, <1>7 DEF MissInv

LEMMA EndEmphasisMiss == ASSUME Inv, NestInv, MissInv, EndEmphasis PROVE MissInv'
<1>1. /\ stack' = {d \in stack : d < emph.bottom} /\ emph' = Off /\ emph.on
      /\ emph.closer = NoRun /\ UNCHANGED <<tokens, left, spans, ended>>
  BY DEF EndEmphasis
<1>2. ~emph'.on /\ emph.bottom \in Nat /\ stack \in SUBSET Nat
  BY <1>1, ListedAreRuns DEF Off, Inv, EmphOK
<1>3. Ending' /\ InLink'
  <2>1. ASSUME ended PROVE stack' = {}
    <3>1. stack = {} \/ emph.bottom = 0
      BY <1>1, <2>1 DEF MissInv, Ending
    <3>2. \A d \in stack : ~(d < 0)
      BY <1>2
    <3>3. QED
      BY <1>1, <3>1, <3>2
  <2>2. QED
    BY <1>1, <1>2, <2>1 DEF Ending, InLink
<1>4. ASSUME NoTildes PROVE OpenersInside' /\ ListedOrSettled' /\ Passed'
  <2>1. Passed' /\ Passed
    BY <1>2, <1>4 DEF MissInv, Passed
  <2>2. \A d \in stack \ stack' : emph.bottom <= d
    BY <1>1, <1>2
  <2>3. ~ended => \A d \in stack \ stack' : \E s \in spans' : Inside(d, s)
    BY <1>1, <2>2, LinkParts
  <2>4. ASSUME NEW p \in stack, NEW q \in stack, p \notin stack' \/ q \notin stack',
               p < q, tokens[q].closes, Matches(p, ClassOf(q))
        PROVE  \E s \in spans' : Inside(p, s) # Inside(q, s)
    <3>1. ~(emph.bottom <= p)
      BY <1>1, <2>1, <2>4 DEF Passed
    <3>2. p < emph.bottom /\ p \in stack'
      BY <1>1, <1>2, <3>1
    <3>3. emph.bottom <= q
      BY <2>2, <2>4, <3>2
    <3>4. ~ended
      <4>1. ended => emph.bottom = 0
        BY <1>1 DEF MissInv, Ending
      <4>2. p \in Nat
        BY <1>2
      <4>3. QED
        BY <3>2, <4>1, <4>2
    <3>5. QED
      BY <1>1, <3>2, <3>3, <3>4, LinkParts
  <2>5. \A p, q \in stack :
          /\ p \notin stack' \/ q \notin stack'
          /\ left'[p] > 0 /\ left'[q] > 0 /\ p < q /\ tokens[q].closes /\ Matches(p, ClassOf(q))
          => \E s \in spans' : \/ Inside(p, s) # Inside(q, s)
                               \/ s.kind = "footnote" /\ Inside(p, s)
    BY <2>4
  <2>6. stack' \subseteq stack
    BY <1>1
  <2>7. OpenersInside' /\ ListedOrSettled'
    BY <1>1, <1>4, <2>3, <2>5, <2>6, RunsLeave
  <2>8. QED
    BY <2>1, <2>7
<1>5. QED
  BY <1>1, <1>3, <1>4 DEF MissInv, NoTildes, Places

\* A token is read: the runs that leave the list are inside a span, the others are as they were
LEMMA ReadMiss ==
  ASSUME Inv, NestInv', MissInv, NEW x \in Run \cup Bracket, Read(x), ~ended, ~ended', NoTildes',
         spans \subseteq spans',
         x.type = "run" /\ (x.opens \/ x.closes) => Here \in stack',
         \A d \in stack \ stack' : \E s \in spans' : Inside(d, s),
         \A o, c \in stack : o < c /\ (o \notin stack' \/ c \notin stack') =>
           \E s \in spans' : \/ Inside(o, s) # Inside(c, s)
                             \/ s.kind = "footnote" /\ Inside(o, s)
  PROVE  OpenersInside' /\ ListedOrSettled'
<1>1. /\ Places' = Places \cup {Here} /\ Here \in Nat /\ Here \notin Places
      /\ \A d \in Places : tokens'[d] = tokens[d] /\ left'[d] = left[d]
      /\ tokens'[Here] = x
  BY ReadText DEF Places
<1>2. \A d \in Places : d \in Nat /\ d < Here
  BY DEF Places, Here, Inv, TextOK
<1>3. NoTildes /\ OpenersInside /\ ListedOrSettled
  BY <1>1 DEF NoTildes, MissInv
<1>4. ASSUME NEW o \in Places, tokens[o].type = "run", left[o] > 0, tokens[o].opens, o \notin stack'
      PROVE  \E s \in spans' : Inside(o, s)
  <2>1. CASE o \in stack
    BY <1>4, <2>1
  <2>2. CASE o \notin stack
    <3>1. \E s \in spans : Inside(o, s)
      BY <1>3, <1>4, <2>2 DEF OpenersInside, IsText
    <3>2. QED
      BY <3>1
  <2>3. QED
    BY <2>1, <2>2
<1>5. OpenersInside'
  <2>1. ASSUME NEW o \in Places', tokens'[o].type = "run", left'[o] > 0, tokens'[o].opens, o \notin stack'
        PROVE  \E s \in spans' : Inside(o, s)
    <3>1. o # Here
      BY <1>1, <2>1
    <3>2. QED
      BY <1>1, <1>4, <2>1, <3>1
  <2>2. QED
    BY <2>1 DEF OpenersInside, IsText, Inside
<1>6. ASSUME NEW o \in Places', NEW c \in Places', Pairable(o, c)'
      PROVE  (o \in stack' /\ c \in stack') \/ Settled(o, c)'
  <2>1. /\ left'[o] > 0 /\ left'[c] > 0 /\ o < c /\ tokens'[c].closes /\ tokens'[o].opens
        /\ tokens'[o].type = "run" /\ tokens'[c].type = "run"
    BY <1>6 DEF Pairable, IsText, Matches
  <2>2. o \in Places /\ tokens'[o] = tokens[o] /\ left'[o] = left[o]
    <3>1. o # Here
      BY <1>1, <1>2, <2>1
    <3>2. QED
      BY <1>1, <3>1
  <2>3. CASE c = Here
    <3>1. c \in stack'
      BY <1>1, <2>1, <2>3
    <3>2. CASE o \notin stack'
      <4>1. PICK s \in spans' : Inside(o, s)
        BY <1>4, <2>1, <2>2, <3>2
      <4>2. s.to \in Places'
        BY DEF NestInv, SpansOK
      <4>3. ~(Here < s.to)
        <5>1. CASE s.to = Here
          BY <1>1, <5>1
        <5>2. CASE s.to \in Places
          BY <1>1, <1>2, <5>2
        <5>3. QED
          BY <1>1, <4>2, <5>1, <5>2
      <4>4. ~Inside(c, s)
        BY <2>3, <4>3 DEF Inside
      <4>5. QED
        BY <4>1, <4>4 DEF Settled, Inside
    <3>3. QED
      BY <3>1, <3>2
  <2>4. CASE c # Here
    <3>1. c \in Places /\ tokens'[c] = tokens[c] /\ left'[c] = left[c]
      BY <1>1, <2>4
    <3>2. Pairable(o, c)
      BY <1>6, <2>2, <3>1 DEF Pairable, IsText, Matches, OddMatch, ClassOf
    <3>3. CASE Settled(o, c)
      BY <3>3 DEF Settled, Inside
    <3>4. CASE o \in stack /\ c \in stack
      BY <2>1, <3>4 DEF Settled, Inside
    <3>5. QED
      BY <1>3, <2>2, <3>1, <3>2, <3>3, <3>4 DEF ListedOrSettled
  <2>5. QED
    BY <2>3, <2>4
<1>7. QED
  BY <1>5, <1>6 DEF ListedOrSettled

\* Between two calls of process_emphasis nothing is said of it
LEMMA IdleMiss ==
  ASSUME MissInv, ~emph.on, ~ended, UNCHANGED <<emph, ended>>
  PROVE  Ending' /\ InLink' /\ Passed'
BY DEF Ending, InLink, Passed

LEMMA PushRunMiss == ASSUME Inv, NestInv', MissInv, NEW x \in Runs, PushRun(x) PROVE MissInv'
<1>1. /\ x \in Run /\ Read(x) /\ ~emph.on /\ ~ended /\ UNCHANGED <<spans, emph, ended>>
      /\ stack \subseteq stack'
      /\ (x.opens \/ x.closes) /\ (x.ch = "~" => x.len <= 2) => Here \in stack'
  BY RunsAreRuns DEF PushRun, Reading
<1>2. Ending' /\ InLink' /\ Passed'
  BY <1>1, IdleMiss
<1>3. ASSUME NoTildes' PROVE OpenersInside' /\ ListedOrSettled'
  <2>1. x.ch # "~"
    <3>1. tokens'[Here] = x /\ Here \in Places' /\ x.type = "run"
      BY <1>1, ReadText DEF Run, Places
    <3>2. QED
      BY <1>3, <3>1 DEF NoTildes
  <2>2. QED
    BY <1>1, <1>3, <2>1, ReadMiss
<1>4. QED
  BY <1>2, <1>3 DEF MissInv

\* A bracket that makes no span leaves the runs as they are
LEMMA BracketMiss ==
  ASSUME Inv, NestInv', MissInv, NEW x \in Bracket, PushBracket(x) \/ CloseText(x)
  PROVE  MissInv'
<1>1. Read(x) /\ ~emph.on /\ ~ended /\ UNCHANGED <<stack, spans, emph, ended>>
  BY DEF PushBracket, CloseText, Reading
<1>2. Ending' /\ InLink' /\ Passed'
  BY <1>1, IdleMiss
<1>3. x.type # "run"
  BY DEF Bracket
<1>4. ASSUME NoTildes' PROVE OpenersInside' /\ ListedOrSettled'
  BY <1>1, <1>3, <1>4, ReadMiss
<1>5. QED
  BY <1>2, <1>4 DEF MissInv

LEMMA CloseFootnoteMiss ==
  ASSUME Inv, NestInv, NestInv', MissInv, NEW x \in Bracket, CloseFootnote(x)
  PROVE  MissInv'
<1> DEFINE t == [kind |-> "footnote", from |-> Top.at, to |-> Here]
<1>1. /\ Read(x) /\ ~emph.on /\ ~ended /\ brackets # <<>> /\ spans' = spans \cup {t}
      /\ stack' = {d \in stack : d < Top.at} /\ UNCHANGED <<emph, ended>>
  BY DEF CloseFootnote, Reading
<1>2. Ending' /\ InLink' /\ Passed'
  BY <1>1, IdleMiss
<1>3. x.type # "run"
  BY DEF Bracket
<1>4. t \in spans' /\ spans \subseteq spans' /\ t.kind = "footnote" /\ t.from = Top.at /\ t.to = Here
  BY <1>1
<1> HIDE DEF t
<1>5. Top.at \in Places /\ tokens[Top.at].type # "run"
  BY <1>1, TopIsLast
<1>6. Places \in SUBSET Nat /\ stack \subseteq Places /\ \A d \in Places : d < Here
  BY DEF Places, Here, Inv, Listed, TextOK
<1>7. ASSUME NEW d \in stack \ stack' PROVE Inside(d, t)
  <2>1. d # Top.at /\ ~(d < Top.at)
    BY <1>1, <1>5 DEF Inv, ListedRunsHaveText
  <2>2. d \in Nat /\ Top.at \in Nat /\ d < Here
    BY <1>5, <1>6
  <2>3. Top.at < d
    BY <2>1, <2>2
  <2>4. QED
    BY <1>4, <2>2, <2>3 DEF Inside
<1>8. \A d \in stack' : d \in Nat /\ d < Top.at
  BY <1>1, <1>6
<1>9. ASSUME NoTildes' PROVE OpenersInside' /\ ListedOrSettled'
  <2>1. ASSUME NEW o \in stack, NEW c \in stack, o < c, o \notin stack' \/ c \notin stack'
        PROVE  Inside(o, t) \/ (Inside(c, t) /\ ~Inside(o, t))
    <3>1. CASE o \notin stack'
      BY <1>7, <3>1
    <3>2. CASE o \in stack'
      <4>1. ~(Top.at < o)
        <5>1. Top.at \in Nat
          BY <1>5, <1>6
        <5>2. o \in Nat /\ o < Top.at
          BY <1>8, <3>2
        <5>3. QED
          BY <5>1, <5>2
      <4>2. Inside(c, t)
        BY <1>7, <2>1, <3>2
      <4>3. ~Inside(o, t)
        BY <1>4, <4>1 DEF Inside
      <4>4. QED
        BY <4>2, <4>3
    <3>3. QED
      BY <3>1, <3>2
  <2>2. ASSUME NEW o \in stack, NEW c \in stack, o < c, o \notin stack' \/ c \notin stack'
        PROVE  \E s \in spans' : \/ Inside(o, s) # Inside(c, s)
                                 \/ s.kind = "footnote" /\ Inside(o, s)
    <3>1. CASE Inside(o, t)
      BY <1>4, <3>1
    <3>2. CASE Inside(c, t) /\ ~Inside(o, t)
      <4>1. Inside(o, t) # Inside(c, t)
        BY <3>2 DEF Inside
      <4>2. QED
        BY <1>4, <4>1
    <3>3. QED
      BY <2>1, <2>2, <3>1, <3>2
  <2>3. \A o, c \in stack : o < c /\ (o \notin stack' \/ c \notin stack') =>
          \E s \in spans' : \/ Inside(o, s) # Inside(c, s)
                            \/ s.kind = "footnote" /\ Inside(o, s)
    BY <2>2
  <2>4. \A d \in stack \ stack' : \E s \in spans' : Inside(d, s)
    BY <1>4, <1>7
  <2>5. x \in Run \cup Bracket /\ Read(x) /\ ~ended /\ ~ended' /\ spans \subseteq spans'
    BY <1>1, <1>4
  <2>6. QED
    BY <1>3, <1>9, <2>3, <2>4, <2>5, ReadMiss
<1>10. QED
  BY <1>2, <1>9 DEF MissInv

LEMMA CloseMatchMiss ==
  ASSUME Inv, NestInv, NestInv', MissInv, NEW x \in Bracket, CloseMatch(x)
  PROVE  MissInv'
<1> DEFINE t == [kind |-> IF Top.image THEN "image" ELSE "link", from |-> Top.at, to |-> Here]
<1>1. /\ Read(x) /\ ~emph.on /\ ~ended /\ brackets # <<>> /\ spans' = spans \cup {t}
      /\ StartEmphasis(Top.at, stack) /\ UNCHANGED <<stack, ended>>
  BY DEF CloseMatch, Reading
<1>2. emph'.on /\ emph'.bottom = Top.at
  BY <1>1 DEF StartEmphasis
<1>3. t \in spans' /\ t.from = Top.at /\ t.to = Here
  BY <1>1
<1>4. Top.at \in Places /\ tokens[Top.at].type # "run"
  BY <1>1, TopIsLast
<1>5. Places = 1..Len(tokens) /\ stack \subseteq Places /\ Len(tokens) \in Nat
  BY DEF Places, Inv, Listed, TextOK
<1>6. x.type # "run"
  BY DEF Bracket
<1>7. /\ tokens'[Top.at] = tokens[Top.at] /\ tokens'[Here] = x /\ Len(tokens') = Here
  BY <1>1, <1>4, ReadText, ReadSpans DEF Places
<1>8. Ending'
  BY <1>1, <1>2, <1>4, <1>5 DEF Ending
<1>9. InLink'
  BY <1>2, <1>3, <1>4, <1>6, <1>7 DEF InLink
<1>10. Passed'
  <2>1. stack \in SUBSET (Nat \ {0}) /\ Top.at \in Nat
    BY <1>4, <1>5
  <2>2. QED
    BY <1>1, <2>1, StartPassed
<1>11. ASSUME NoTildes' PROVE OpenersInside' /\ ListedOrSettled'
  BY <1>1, <1>6, <1>11, ReadMiss
<1>12. QED
  BY <1>8, <1>9, <1>10, <1>11 DEF MissInv

LEMMA EndOfTextMiss == ASSUME Inv, MissInv, EndOfText PROVE MissInv'
<1>1. /\ ~ended /\ ended' /\ StartEmphasis(0, stack) /\ UNCHANGED <<tokens, left, stack, spans>>
  BY DEF EndOfText
<1>2. emph'.on /\ emph'.bottom = 0
  BY <1>1 DEF StartEmphasis
<1>3. Ending' /\ InLink' /\ OpenersInside'
  BY <1>1, <1>2 DEF Ending, InLink, OpenersInside
<1>4. Passed'
  <2>1. stack \in SUBSET (Nat \ {0})
    BY DEF Inv, Listed, TextOK
  <2>2. QED
    BY <1>1, <2>1, StartPassed
<1>5. ASSUME NoTildes' PROVE ListedOrSettled'
  <2>1. ListedOrSettled
    BY <1>1, <1>5 DEF NoTildes, Places, MissInv
  <2>2. QED
    BY <1>1, <2>1 DEF ListedOrSettled, Settled, Pairable, IsText, Matches, OddMatch, ClassOf, Places, Inside
<1>6. QED
  BY <1>3, <1>4, <1>5 DEF MissInv

LEMMA StutterMiss == ASSUME MissInv, UNCHANGED vars PROVE MissInv'
<1>1. UNCHANGED <<tokens, left, stack, spans, emph, ended>>
  BY DEF vars
<1>2. Ending' /\ InLink' /\ NoTildes' = NoTildes
  BY <1>1 DEF MissInv, Ending, InLink, NoTildes, Places
<1>3. ASSUME NoTildes PROVE OpenersInside' /\ ListedOrSettled' /\ Passed'
  <2>1. OpenersInside'
    BY <1>1, <1>3 DEF MissInv, OpenersInside, IsText, Inside, Places
  <2>2. ListedOrSettled'
    BY <1>1, <1>3 DEF MissInv, ListedOrSettled, Settled, Pairable, IsText, Matches, OddMatch,
       ClassOf, Places, Inside
  <2>3. Passed'
    BY <1>1, <1>3 DEF MissInv, Passed, Matches, OddMatch, ClassOf
  <2>4. QED
    BY <2>1, <2>2, <2>3
<1>4. QED
  BY <1>2, <1>3 DEF MissInv

LEMMA NextMiss == Inv /\ NestInv /\ MissInv /\ [Next]_vars => MissInv'
<1> SUFFICES ASSUME Inv, NestInv, MissInv, [Next]_vars PROVE MissInv'
  OBVIOUS
<1>1. NestInv'
  BY NextNest
<1>2. CASE \E x \in Runs : PushRun(x)
  BY <1>1, <1>2, PushRunMiss
<1>3. CASE \E x \in Brackets :
             PushBracket(x) \/ CloseMatch(x) \/ CloseFootnote(x) \/ CloseText(x)
  BY <1>1, <1>3, BracketsAreBrackets, BracketMiss, CloseMatchMiss, CloseFootnoteMiss
<1>4. CASE Emphasis
  BY <1>4, SkipOpenerMiss, PairMiss, RefuseMiss, PairQuotesMiss, NoOpenerMiss, EndEmphasisMiss
     DEF Emphasis
<1>5. CASE EndOfText
  BY <1>5, EndOfTextMiss
<1>6. CASE Done \/ UNCHANGED vars
  BY <1>6, StutterMiss DEF Done
<1>7. QED
  BY <1>2, <1>3, <1>4, <1>5, <1>6 DEF Next

\* Once the list is empty every pair left is settled
LEMMA MissInvMeans == MissInv => NothingMissedWithoutTildes
<1> SUFFICES ASSUME MissInv, NoTildes, ended, ~emph.on,
                    NEW o \in Places, NEW c \in Places, Pairable(o, c)
             PROVE  Settled(o, c)
  BY DEF NothingMissedWithoutTildes, NothingMissed, NoTildes, Pairable, IsText, Settled
<1>1. stack = {} /\ ListedOrSettled
  BY DEF MissInv, Ending
<1>2. QED
  BY <1>1 DEF ListedOrSettled

(***************************************************************************)
(* The theorems                                                            *)
(***************************************************************************)
\* Whatever the text, each run on the delimiter list still has characters, and so has the closer of
\* process_emphasis: insert_emph subtracts no more from a run than the run has
THEOREM ListedHaveText == Spec => []ListedRunsHaveText
<1>1. Inv => ListedRunsHaveText
  BY DEF Inv
<1>2. QED
  BY InitInv, NextInv, <1>1, PTL DEF Spec

\* Whatever the text, the search that openers_bottom cuts short finds the opener the search of the
\* whole stack finds, so the cache changes no result
THEOREM SearchExact == Spec => []SearchIsExact
BY InitInv, NextInv, CacheIsExact, PTL DEF Spec

\* Whatever the text, the nodes made of runs and brackets nest, and a link lies in another only where
\* no_link_openers was taken back (insert_emph, close_bracket_match, handle_close_bracket)
THEOREM NodesAlwaysNest == Spec => []NodesNest
<1>1. NestInv => NodesNest
  BY DEF NestInv, NodesNest
<1>2. Inv /\ NestInv /\ [Next]_vars => (Inv /\ NestInv)'
  BY NextInv, NextNest
<1>3. QED
  BY InitInv, InitNest, <1>1, <1>2, PTL DEF Spec

\* Whatever the text, if no run of it is of tildes, no two runs left as text could still be paired
\* without overlapping a node: process_emphasis, cut short by openers_bottom and run link by link,
\* misses nothing
THEOREM NothingIsMissed == Spec => []NothingMissedWithoutTildes
<1>1. Inv /\ NestInv /\ MissInv /\ [Next]_vars => (Inv /\ NestInv /\ MissInv)'
  BY NextInv, NextNest, NextMiss
<1>2. QED
  BY InitInv, InitNest, InitMiss, MissInvMeans, <1>1, PTL DEF Spec
================================================================================
