---------------------------- MODULE FootnotesProofs ----------------------------
(***************************************************************************)
(* Footnotes, for every set of names, every size of a document and every   *)
(* depth of inline notes: each reference leads to a definition in the page *)
(* that bears its name, the numbers shown are those of the list items and  *)
(* count the references, and the links back are there once and lead back.  *)
(*                                                                         *)
(* The inductive invariant has a part for each phase.  The text makes a    *)
(* forest, in which a child is made after its parent.  A walk over it has  *)
(* met a set of nodes that the children of what it met never leave, so at  *)
(* its end the first node it did not meet would have a parent it met.      *)
(***************************************************************************)
EXTENDS Footnotes, NaturalsInduction, FiniteSetTheorems, FunctionTheorems, TLAPS

Listed(s) == {s[i] : i \in DOMAIN s}

Bases == {name.base : name \in Names} \cup {"__inline_"}
AnyName == [base : Bases, n : Nat, caps : BOOLEAN]
NodeRec == [kind : {"ref", "def", "inline", "text"}, name : AnyName, ix : Nat, num : Nat]
Entry == [at : Nat, leaving : BOOLEAN]
Fd == [node : Nat, name : AnyName, ix : Nat, total : Nat]
Book == [items : Seq(Nat), refs : SUBSET Nat, backs : Seq([def : Nat, item : Nat]), ix : Nat]
Unwritten == [items |-> <<>>, refs |-> {}, backs |-> <<>>, ix |-> 0]

Typed ==
  /\ leave \in BOOLEAN
  /\ phase \in {"reading", "numbering", "placing", "rendering", "done"}
  /\ node \in Seq(NodeRec)
  /\ open \in Seq(Nat) /\ defs \in Seq(Nat)
  /\ next \in Nat /\ saw \in BOOLEAN
  /\ fdMap \in [DOMAIN fdMap -> Fd]
  /\ walk \in Seq(Entry)
  /\ nextIx \in Nat
  /\ written \in Book
  /\ removed \in SUBSET Nat

(***************************************************************************)
(* The tree                                                                *)
(***************************************************************************)
\* A child is made after its parent, and has one parent and one place there
Forest(k, N) ==
  /\ k \in [0..N -> Seq(1..N)]
  /\ \A c \in 0..N : \A n \in Listed(k[c]) : c < n
  /\ \A c, b \in 0..N : \A i \in DOMAIN k[c], j \in DOMAIN k[b] : k[c][i] = k[b][j] => c = b /\ i = j

\* Children are in the order they were made, and what was made between a container and a child
\* of it is inside the container
TextOrder(k, N) ==
  /\ \A c \in 0..N : \A i, j \in DOMAIN k[c] : i < j => k[c][i] < k[c][j]
  /\ \A c, b \in 0..N : \A n \in Listed(k[c]), m \in Listed(k[b]) : c < m /\ m < n => c <= b

Held(k, N, n) == \E c \in 0..N : n \in Listed(k[c])

IsDefinition(n) == node[n].kind \in {"def", "inline"}
NoInlines == \A n \in Nodes : ~IsInline(n)

\* The reference made with an inline definition has its name, which no other one has
Paired ==
  /\ \A d \in Nodes : IsInline(d) =>
       /\ d - 1 \in Nodes /\ node[d - 1].kind = "ref" /\ node[d - 1].name = node[d].name
       /\ node[d].name.base = "__inline_" /\ node[d].name.n < next /\ node[d].name.caps = FALSE
  /\ \A d, e \in Nodes : IsInline(d) /\ IsInline(e) /\ node[d].name = node[e].name => d = e

OpenOnes ==
  /\ \A i, j \in DOMAIN open : i < j => open[i] < open[j]
  /\ \A i \in DOMAIN open : open[i] \in Nodes /\ node[open[i]].kind # "ref"
  /\ \A i \in DOMAIN open : \A c \in Containers : \A m \in Listed(kids[c]) : open[i] < m => open[i] <= c

ReadOnes ==
  /\ \A i, j \in DOMAIN defs : defs[i] = defs[j] => i = j
  /\ \A i \in DOMAIN defs : defs[i] \in Nodes /\ IsInline(defs[i]) /\ defs[i] \notin Listed(open)

Fresh(n) ==
  /\ node[n].kind # "text" /\ node[n].num = 0
  /\ node[n].kind = "ref" => kids[n] = <<>>
  /\ IsInline(n) => n \in Listed(open) \cup Listed(defs) /\ ~Held(kids, Len(node), n)
  /\ ~IsInline(n) => Held(kids, Len(node), n)

ReadInv ==
  /\ Forest(kids, Len(node)) /\ TextOrder(kids, Len(node))
  /\ OpenOnes /\ ReadOnes
  /\ \A n \in Nodes : Fresh(n)
  /\ saw \/ node = <<>>
  /\ fdMap = <<>> /\ nextIx = 0 /\ written = Unwritten /\ removed = {}

\* From the end of the text on
TreeInv ==
  /\ Forest(kids, Len(node))
  /\ \A n \in Nodes \ removed : Held(kids, Len(node), n)
  /\ \A n \in removed : n \in Nodes /\ IsDefinition(n)
  /\ \A n \in Nodes : ~IsDefinition(n) => kids[n] = <<>>

(***************************************************************************)
(* Numbering and placing                                                   *)
(***************************************************************************)
\* The references of this name that have a number have those from 1 to total, each once
CountsTo(name, total) ==
  /\ \A r \in References : node[r].name = name => node[r].num <= total
  /\ \A k \in 1..total : \E r \in References : node[r].name = name /\ node[r].num = k
  /\ \A r, s \in References :
       node[r].name = name /\ node[s].name = name /\ node[r].num = node[s].num /\ node[r].num > 0 => r = s

\* An entry of the map of definitions
Labelled(l) ==
  /\ fdMap[l].node \in Listed(kids[Root]) /\ IsDefinition(fdMap[l].node)
  /\ Fold(fdMap[l].name) = l /\ node[fdMap[l].node].name = fdMap[l].name
  /\ CountsTo(fdMap[l].name, fdMap[l].total)
  /\ fdMap[l].ix = 0 <=> fdMap[l].total = 0
  /\ fdMap[l].ix <= nextIx

OwnIx == \A l, m \in DOMAIN fdMap : fdMap[l].ix = fdMap[m].ix /\ fdMap[l].ix > 0 => l = m

\* A reference shows what its definition has
Shows(r) ==
  LET l == Fold(node[r].name) IN
  l \in DOMAIN fdMap /\ fdMap[l].name = node[r].name /\ fdMap[l].ix = node[r].ix

\* The nodes a walk still has to enter
Ahead(w) == {w[i].at : i \in {j \in DOMAIN w : ~w[j].leaving}}

\* It enters none of them twice
EntersOnce(w) ==
  \A i, j \in DOMAIN w : ~w[i].leaving /\ ~w[j].leaving /\ w[i].at = w[j].at => i = j

\* A walk w over the tree k of N nodes has met those in D
Met(k, N, w, D) ==
  /\ D \subseteq 1..N
  /\ Ahead(w) \subseteq (1..N) \ D /\ EntersOnce(w)
  /\ \A c \in D \cup {Root} : Listed(k[c]) \subseteq D \cup Ahead(w)
  /\ \A c \in (1..N) \ D : Listed(k[c]) \cap (D \cup Ahead(w)) = {}

FirstUses ==
  \A r, s \in References : node[r].num = 1 /\ node[s].num = 1 /\ r < s => node[r].ix < node[s].ix

\* In a document without inline notes the walk meets the nodes in their order
MetInOrder(D) ==
  /\ TextOrder(kids, Len(node))
  /\ \A n \in D, m \in Nodes \ D : n < m
  /\ \A i, j \in DOMAIN walk : i < j => walk[i].at < walk[j].at
  /\ FirstUses

Counted(D) ==
  /\ Met(kids, Len(node), walk, D)
  /\ \A i \in DOMAIN walk : ~walk[i].leaving
  /\ \A n \in Nodes : /\ node[n].kind = "text" => n \in D
                      /\ node[n].kind = "ref" => (n \in D <=> node[n].num > 0)
  /\ NoInlines => MetInOrder(D)

NumberInv ==
  /\ removed = {} /\ written = Unwritten
  /\ \A l \in DOMAIN fdMap : Labelled(l)
  /\ OwnIx
  /\ \A i \in 1..nextIx : \E l \in DOMAIN fdMap : fdMap[l].ix = i
  /\ \A n \in Listed(kids[Root]) : IsDefinition(n) => Fold(node[n].name) \in DOMAIN fdMap
  /\ \A d \in Nodes : IsInline(d) => d \in Listed(kids[Root]) /\ fdMap[Fold(node[d].name)].node = d
  /\ \A d \in Definitions : node[d].num = 0
  /\ \A r \in References : node[r].num > 0 => Shows(r)
  /\ \E D \in SUBSET Nodes : Counted(D)

\* A definition at the root has the name of the reference
Leads(r) == \E d \in Listed(kids[Root]) : IsDefinition(d) /\ node[d].name = node[r].name

\* The references and the definitions are numbered
AllNumbered ==
  /\ \A r \in References : node[r].num > 0
  /\ \A d \in Definitions : node[d].num > 0 => CountsTo(node[d].name, node[d].num)
  /\ NoInlines => FirstUses

\* The last p children of the root are the definitions numbered 1 to p, in their order
Lined(p) ==
  LET s == kids[Root]
      b == Len(kids[Root]) - p
  IN
  /\ p \in 0..nextIx /\ b \in Nat
  /\ \A i \in 1..p : /\ IsDefinition(s[b + i])
                     /\ \A l \in DOMAIN fdMap : fdMap[l].node # s[b + i]
                     /\ \A r \in References : node[r].ix = i => node[s[b + i]].name = node[r].name
  /\ \A i \in 1..b : IsDefinition(s[i]) => \E l \in DOMAIN fdMap : fdMap[l].node = s[i]
  /\ \A l \in DOMAIN fdMap : fdMap[l].ix > 0 => p < fdMap[l].ix
  /\ \A i \in (p + 1)..nextIx : \E l \in DOMAIN fdMap : fdMap[l].ix = i
  /\ \A r \in References : Fold(node[r].name) \in DOMAIN fdMap \/ node[r].ix \in 1..p

PlaceInv ==
  /\ written = Unwritten
  /\ leave => removed = {}
  /\ AllNumbered
  /\ \A l \in DOMAIN fdMap : Labelled(l)
  /\ OwnIx
  /\ \A r \in References : Shows(r) \/ (Fold(node[r].name) \notin DOMAIN fdMap /\ Leads(r))
  /\ \A d \in Nodes : IsInline(d) =>
       node[d].num > 0 \/ (Fold(node[d].name) \in DOMAIN fdMap /\ fdMap[Fold(node[d].name)].node = d)
  /\ ~leave /\ ~Leftover /\ ~Nested => \E p \in Nat : Lined(p)

(***************************************************************************)
(* Rendering                                                               *)
(***************************************************************************)
Rendered(D) ==
  /\ Met(kids, Len(node), walk, D)
  /\ \A i \in DOMAIN walk : walk[i].leaving => walk[i].at \in Definitions
  /\ written.refs = D \cap References
  /\ Listed(written.items) = D \cap Definitions

\* The list items are the last children of the root, those that the walk has entered
Aligned(q) ==
  LET s == kids[Root]
      b == Len(kids[Root]) - nextIx
  IN
  /\ b \in Nat
  /\ \A i \in 1..b : ~IsDefinition(s[i])
  /\ \A i \in 1..nextIx : IsDefinition(s[b + i])
  /\ \A r \in References : node[r].ix \in 1..nextIx /\ node[s[b + node[r].ix]].name = node[r].name
  /\ Len(written.items) = IF q <= b THEN 0 ELSE q - b
  /\ \A i \in DOMAIN written.items : written.items[i] = s[b + i]

\* The links back of the first items are written
LinkedTo(w) ==
  /\ Len(w.backs) = w.ix /\ w.ix <= Len(w.items)
  /\ \A i \in 1..w.ix : w.backs[i] = [def |-> w.items[i], item |-> i]

\* Without definitions in definitions: the walk has q children of the root behind it, and h
\* entries of the last of them ahead
Framed(q, h) ==
  LET s == kids[Root]
      items == written.items
  IN
  /\ q \in 0..Len(s) /\ h \in Nat /\ Len(walk) = h + (Len(s) - q)
  /\ \A i \in 1..(Len(s) - q) : walk[h + i].at = s[q + i] /\ ~walk[h + i].leaving
  /\ LinkedTo(written)
  /\ h = 0 => written.ix = Len(items)
  /\ h > 0 => /\ Len(items) > 0 /\ Len(items) <= written.ix + 1
              /\ walk[h].leaving /\ walk[h].at = items[Len(items)]
              /\ \A i \in 1..(h - 1) : ~walk[i].leaving /\ walk[i].at \in Listed(kids[items[Len(items)]])
  /\ ~leave /\ ~Leftover => Aligned(q)

RenderInv ==
  /\ AllNumbered
  /\ \A r \in References : Leads(r)
  /\ \A d \in Nodes : IsInline(d) => node[d].num > 0
  /\ \A i \in DOMAIN written.backs : written.backs[i].def \in Definitions
  /\ \E D \in SUBSET Nodes : Rendered(D)
  /\ ~Nested => \E q, h \in Nat : Framed(q, h)

\* The inductive invariant
NotesInv ==
  /\ Typed /\ Paired
  /\ phase = "reading" => ReadInv
  /\ phase # "reading" => TreeInv
  /\ phase = "numbering" => NumberInv
  /\ phase = "placing" => PlaceInv
  /\ phase \in {"rendering", "done"} => RenderInv
  /\ phase = "done" => walk = <<>>

(***************************************************************************)
(* Sequences                                                               *)
(***************************************************************************)
LEMMA SeqWidens ==
  ASSUME NEW S, NEW T, S \subseteq T, NEW s \in Seq(S)
  PROVE  s \in Seq(T)
OBVIOUS

LEMMA ListedIn ==
  ASSUME NEW S, NEW s \in Seq(S)
  PROVE  Listed(s) \subseteq S
BY DEF Listed

LEMMA ListedAppend ==
  ASSUME NEW S, NEW s \in Seq(S), NEW x \in S
  PROVE  Listed(Append(s, x)) = Listed(s) \cup {x}
<1>1. Append(s, x) \in Seq(S) /\ Len(Append(s, x)) = Len(s) + 1
  OBVIOUS
<1>2. \A i \in 1..Len(s) : Append(s, x)[i] = s[i]
  OBVIOUS
<1>3. Append(s, x)[Len(s) + 1] = x
  OBVIOUS
<1>4. QED
  BY <1>1, <1>2, <1>3 DEF Listed

LEMMA ListedEmpty == Listed(<<>>) = {}
BY DEF Listed

LEMMA ConcatPlaces ==
  ASSUME NEW S, NEW s \in Seq(S), NEW t \in Seq(S)
  PROVE  /\ s \o t \in Seq(S) /\ Len(s \o t) = Len(s) + Len(t)
         /\ \A i \in 1..Len(s) : (s \o t)[i] = s[i]
         /\ \A i \in 1..Len(t) : (s \o t)[Len(s) + i] = t[i]
         /\ \A i \in 1..Len(s \o t) : i > Len(s) => (s \o t)[i] = t[i - Len(s)]
OBVIOUS

LEMMA ConcatIs ==
  ASSUME NEW S, NEW s \in Seq(S), NEW t \in Seq(S), NEW u, u = s \o t
  PROVE  /\ u \in Seq(S) /\ Len(u) = Len(s) + Len(t) /\ DOMAIN u = 1..(Len(s) + Len(t))
         /\ \A i \in 1..Len(s) : u[i] = s[i]
         /\ \A i \in 1..Len(t) : u[Len(s) + i] = t[i]
         /\ \A i \in DOMAIN u : i > Len(s) => u[i] = t[i - Len(s)] /\ i - Len(s) \in DOMAIN t
<1>1. /\ u \in Seq(S) /\ Len(u) = Len(s) + Len(t)
      /\ \A i \in 1..Len(s) : u[i] = s[i]
      /\ \A i \in 1..Len(t) : u[Len(s) + i] = t[i]
      /\ \A i \in 1..Len(u) : i > Len(s) => u[i] = t[i - Len(s)]
  BY ConcatPlaces
<1>2. DOMAIN u = 1..Len(u) /\ DOMAIN t = 1..Len(t) /\ Len(s) \in Nat /\ Len(t) \in Nat
  BY <1>1
<1>3. ASSUME NEW i \in DOMAIN u, i > Len(s) PROVE u[i] = t[i - Len(s)] /\ i - Len(s) \in DOMAIN t
  <2>1. i \in 1..(Len(s) + Len(t))
    BY <1>1, <1>2
  <2>2. i - Len(s) \in 1..Len(t)
    BY <1>2, <1>3, <2>1
  <2>3. QED
    BY <1>1, <1>2, <1>3, <2>2
<1>4. QED
  BY <1>1, <1>2, <1>3

LEMMA ListedConcat ==
  ASSUME NEW S, NEW s \in Seq(S), NEW t \in Seq(S)
  PROVE  Listed(s \o t) = Listed(s) \cup Listed(t)
<1>1. \A i \in DOMAIN (s \o t) : (s \o t)[i] \in Listed(s) \cup Listed(t)
  BY ConcatPlaces DEF Listed
<1>2. \A i \in DOMAIN s : s[i] \in Listed(s \o t)
  BY ConcatPlaces DEF Listed
<1>3. \A i \in DOMAIN t : t[i] \in Listed(s \o t)
  <2>1. \A i \in 1..Len(t) : Len(s) + i \in 1..Len(s \o t) /\ (s \o t)[Len(s) + i] = t[i]
    BY ConcatPlaces
  <2>2. DOMAIN (s \o t) = 1..Len(s \o t) /\ DOMAIN t = 1..Len(t)
    BY ConcatPlaces
  <2>3. ASSUME NEW i \in DOMAIN t PROVE t[i] \in Listed(s \o t)
    <3>1. Len(s) + i \in DOMAIN (s \o t) /\ (s \o t)[Len(s) + i] = t[i]
      BY <2>1, <2>2
    <3>2. QED
      BY <3>1 DEF Listed
  <2>4. QED
    BY <2>3
<1>4. QED
  BY <1>1, <1>2, <1>3 DEF Listed

LEMMA TwoParts ==
  ASSUME NEW S, NEW s \in Seq(S), NEW p \in 1..Len(s), NEW a \in Seq(S), NEW b \in Seq(S),
         Len(a) = p - 1, \A i \in 1..(p - 1) : a[i] = s[i],
         Len(b) = Len(s) - p, \A i \in 1..(Len(s) - p) : b[i] = s[p + i]
  PROVE  /\ a \o b \in Seq(S) /\ Len(a \o b) = Len(s) - 1
         /\ \A i \in 1..(Len(s) - 1) : (a \o b)[i] = IF i < p THEN s[i] ELSE s[i + 1]
<1>1. a \o b \in Seq(S) /\ Len(a \o b) = Len(s) - 1
  <2>1. a \o b \in Seq(S) /\ Len(a \o b) = Len(a) + Len(b)
    BY ConcatPlaces, Zenon
  <2>2. Len(s) \in Nat /\ p \in Nat
    OBVIOUS
  <2>3. QED
    BY <2>1, <2>2
<1>2. ASSUME NEW i \in 1..(Len(s) - 1), i < p PROVE (a \o b)[i] = s[i]
  <2>1. i \in 1..Len(a)
    BY <1>2
  <2>2. QED
    BY <2>1
<1>3. ASSUME NEW i \in 1..(Len(s) - 1), i >= p PROVE (a \o b)[i] = s[i + 1]
  <2>1. i - (p - 1) \in 1..(Len(s) - p) /\ p + (i - (p - 1)) = i + 1
    BY <1>3
  <2>2. b[i - (p - 1)] = s[i + 1]
    BY <2>1
  <2>3. i \in 1..Len(a \o b) /\ i > Len(a)
    BY <1>1, <1>3
  <2>4. (a \o b)[i] = b[i - Len(a)]
    BY <2>3
  <2>5. QED
    BY <2>2, <2>4
<1>4. QED
  BY <1>1, <1>2, <1>3

\* What is left of a sequence without one of its places
LEMMA WithoutPlaces ==
  ASSUME NEW S, NEW s \in Seq(S), NEW x \in Listed(s),
         \A i, j \in DOMAIN s : s[i] = s[j] => i = j
  PROVE  \E p \in 1..Len(s) :
           /\ s[p] = x
           /\ Without(s, x) \in Seq(S) /\ Len(Without(s, x)) = Len(s) - 1
           /\ \A i \in 1..(Len(s) - 1) : Without(s, x)[i] = IF i < p THEN s[i] ELSE s[i + 1]
<1> DEFINE p == CHOOSE j \in DOMAIN s : s[j] = x
           a == SubSeq(s, 1, p - 1)
           b == SubSeq(s, p + 1, Len(s))
<1>1. p \in 1..Len(s) /\ s[p] = x
  BY DEF Listed
<1>2. Without(s, x) = a \o b
  BY DEF Without
<1> HIDE DEF p
<1>3. a \in Seq(S) /\ Len(a) = p - 1 /\ \A i \in 1..(p - 1) : a[i] = s[i]
  BY <1>1
<1>4. b \in Seq(S) /\ Len(b) = Len(s) - p /\ \A i \in 1..(Len(s) - p) : b[i] = s[p + i]
  BY <1>1
<1> HIDE DEF a, b
<1>5. /\ a \o b \in Seq(S) /\ Len(a \o b) = Len(s) - 1
      /\ \A i \in 1..(Len(s) - 1) : (a \o b)[i] = IF i < p THEN s[i] ELSE s[i + 1]
  BY <1>1, <1>3, <1>4, TwoParts
<1>6. QED
  BY <1>1, <1>2, <1>5

\* The first number of which something holds
LEMMA FirstExists ==
  ASSUME NEW S \in SUBSET Nat, S # {}
  PROVE  \E m \in S : \A k \in S : m <= k
<1>1. PICK m \in S : \A k \in S : <<k, m>> \notin OpToRel(<, Nat)
  BY NatLessThanWellFounded, WFMin
<1>2. \A k \in S : ~(k < m)
  BY <1>1 DEF OpToRel
<1>3. QED
  BY <1>2

\* A set of numbers up to another has a last one
LEMMA LastExists ==
  ASSUME NEW S \in SUBSET Nat, S # {}, NEW c \in Nat, \A d \in S : d <= c
  PROVE  \E d \in S : \A e \in S : e <= d
<1> DEFINE D == {c - d : d \in S}
<1>1. D \in SUBSET Nat /\ D # {}
  <2>1. \A d \in S : c - d \in Nat
    OBVIOUS
  <2>2. QED
    BY <2>1
<1>2. PICK m \in D : \A k \in D : m <= k
  BY <1>1, FirstExists
<1>3. PICK d \in S : m = c - d
  OBVIOUS
<1>4. ASSUME NEW e \in S PROVE e <= d
  <2>1. c - e \in D /\ m <= c - e
    BY <1>2
  <2>2. e \in Nat /\ d \in Nat /\ e <= c /\ d <= c
    OBVIOUS
  <2>3. QED
    BY <1>3, <2>1, <2>2
<1>5. QED
  BY <1>4

(***************************************************************************)
(* The text                                                                *)
(***************************************************************************)
LEMMA ContainersAre ==
  ASSUME Typed
  PROVE  Nodes = 1..Len(node) /\ Containers = 0..Len(node) /\ Len(node) \in Nat
<1>1. node \in Seq(NodeRec)
  BY DEF Typed
<1>2. QED
  BY <1>1 DEF Nodes, Containers, Root

\* Where the next node goes
LEMMA HereIs ==
  ASSUME Typed, OpenOnes
  PROVE  /\ Here \in Containers
         /\ \A i \in DOMAIN open : open[i] <= Here
         /\ \A c \in Containers : \A m \in Listed(kids[c]) : Here < m => Here <= c
         /\ Here \in Nodes => node[Here].kind # "ref"
<1>1. open \in Seq(Nat)
  BY DEF Typed
<1>2. CASE open = <<>>
  <2>1. Here = Root /\ Root \notin Nodes
    BY <1>2, ContainersAre DEF Here, Root
  <2>2. \A c \in Containers : Root <= c
    BY ContainersAre DEF Root
  <2>3. QED
    BY <1>1, <1>2, <2>1, <2>2 DEF Containers
<1>3. CASE open # <<>>
  <2>1. Here = open[Len(open)] /\ Len(open) \in DOMAIN open /\ DOMAIN open = 1..Len(open)
    BY <1>1, <1>3 DEF Here
  <2>2. Here \in Nodes /\ node[Here].kind # "ref"
    BY <2>1 DEF OpenOnes
  <2>3. ASSUME NEW i \in DOMAIN open PROVE open[i] <= Here
    BY <1>1, <2>1 DEF OpenOnes
  <2>4. QED
    BY <2>1, <2>2, <2>3 DEF OpenOnes, Containers
<1>4. QED
  BY <1>2, <1>3

\* What Grow makes of the children: K nodes after the N there are, the first of them in h
Planted(k, N, K, h) ==
  [c \in 0..(N + K) |-> IF c = h THEN Append(k[c], N + 1) ELSE IF c \in 0..N THEN k[c] ELSE <<>>]

\* s with one more, n
Longer(t, s, n) ==
  /\ Len(t) = Len(s) + 1 /\ t[Len(s) + 1] = n
  /\ Listed(t) = Listed(s) \cup {n}
  /\ \A i \in 1..Len(s) : t[i] = s[i]

\* The children of c in g, when N + 1 is planted in h
PlantedAt(g, k, N, K, h, c) ==
  /\ g[c] \in Seq(1..(N + K))
  /\ c = h => Longer(g[c], k[c], N + 1)
  /\ c # h /\ c \in 0..N => g[c] = k[c]
  /\ c \notin 0..N => g[c] = <<>>

LEMMA PlantedKids ==
  ASSUME NEW N \in Nat, NEW K \in Nat \ {0}, NEW k, Forest(k, N), NEW h \in 0..N
  PROVE  \A c \in 0..(N + K) : PlantedAt(Planted(k, N, K, h), k, N, K, h, c)
<1> SUFFICES ASSUME NEW c \in 0..(N + K) PROVE PlantedAt(Planted(k, N, K, h), k, N, K, h, c)
  OBVIOUS
<1> DEFINE g == Planted(k, N, K, h)
<1>1. \A b \in 0..N : k[b] \in Seq(1..(N + K))
  <2>1. \A b \in 0..N : k[b] \in Seq(1..N)
    BY DEF Forest
  <2>2. 1..N \subseteq 1..(N + K)
    OBVIOUS
  <2>3. QED
    BY <2>1, <2>2
<1>2. N + 1 \in 1..(N + K)
  OBVIOUS
<1>3. ASSUME c = h PROVE g[c] \in Seq(1..(N + K)) /\ Longer(g[c], k[c], N + 1)
  <2>1. g[c] = Append(k[c], N + 1) /\ c \in 0..N
    BY <1>3 DEF Planted
  <2>2. k[c] \in Seq(1..(N + K))
    BY <1>1, <2>1
  <2>3. Listed(g[c]) = Listed(k[c]) \cup {N + 1}
    BY <1>2, <2>1, <2>2, ListedAppend
  <2>4. /\ Append(k[c], N + 1) \in Seq(1..(N + K)) /\ Len(Append(k[c], N + 1)) = Len(k[c]) + 1
        /\ Append(k[c], N + 1)[Len(k[c]) + 1] = N + 1
        /\ \A i \in 1..Len(k[c]) : Append(k[c], N + 1)[i] = k[c][i]
    BY <1>2, <2>2
  <2>5. Longer(g[c], k[c], N + 1)
    BY <2>1, <2>3, <2>4 DEF Longer
  <2>6. QED
    BY <1>3, <2>1, <2>4, <2>5
<1>4. ASSUME c # h, c \in 0..N PROVE g[c] \in Seq(1..(N + K)) /\ g[c] = k[c]
  BY <1>1, <1>4 DEF Planted
<1>5. ASSUME c \notin 0..N PROVE g[c] \in Seq(1..(N + K)) /\ g[c] = <<>>
  <2>1. c # h
    BY <1>5
  <2>2. g[c] = <<>>
    BY <1>5, <2>1 DEF Planted
  <2>3. <<>> \in Seq(1..(N + K))
    OBVIOUS
  <2>4. QED
    BY <2>2, <2>3, Zenon
<1> HIDE DEF g
<1>6. /\ g[c] \in Seq(1..(N + K))
      /\ c = h => Longer(g[c], k[c], N + 1)
      /\ c # h /\ c \in 0..N => g[c] = k[c]
      /\ c \notin 0..N => g[c] = <<>>
  BY <1>3, <1>4, <1>5
<1>7. QED
  BY <1>6 DEF g, PlantedAt

\* The i-th child of c is n
ChildAt(k, c, i, n) == i \in DOMAIN k[c] /\ k[c][i] = n

LEMMA OneParent ==
  ASSUME NEW N, NEW k, Forest(k, N), NEW c \in 0..N, NEW b \in 0..N, NEW i, NEW j, NEW n,
         ChildAt(k, c, i, n), ChildAt(k, b, j, n)
  PROVE  c = b /\ i = j
<1>1. i \in DOMAIN k[c] /\ j \in DOMAIN k[b] /\ k[c][i] = k[b][j]
  BY DEF ChildAt
<1>2. QED
  BY <1>1, Zenon DEF Forest

LEMMA PlantedForest ==
  ASSUME NEW N \in Nat, NEW K \in Nat \ {0}, NEW k, Forest(k, N), NEW h \in 0..N
  PROVE  Forest(Planted(k, N, K, h), N + K)
<1> DEFINE g == Planted(k, N, K, h)
<1>1. ASSUME NEW c \in 0..(N + K)
      PROVE  /\ g[c] \in Seq(1..(N + K))
             /\ c = h => Longer(g[c], k[c], N + 1)
             /\ c # h /\ c \in 0..N => g[c] = k[c]
             /\ c \notin 0..N => g[c] = <<>>
  <2>1. \A b \in 0..(N + K) : PlantedAt(g, k, N, K, h, b)
    BY PlantedKids
  <2> HIDE DEF g
  <2>2. QED
    BY <2>1 DEF PlantedAt
<1>2. \A c \in 0..N : k[c] \in Seq(1..N)
  BY DEF Forest
<1>3. g \in [0..(N + K) -> Seq(1..(N + K))]
  <2>1. g = [c \in 0..(N + K) |-> g[c]]
    BY DEF Planted
  <2>2. \A c \in 0..(N + K) : g[c] \in Seq(1..(N + K))
    BY <1>1
  <2> HIDE DEF g
  <2>3. QED
    BY <2>1, <2>2
<1> HIDE DEF g
\* The places of g are those of k and one more
<1>4. ASSUME NEW c \in 0..(N + K), NEW i \in DOMAIN g[c]
      PROVE  \/ c \in 0..N /\ i \in DOMAIN k[c] /\ g[c][i] = k[c][i] /\ k[c][i] \in 1..N
             \/ c = h /\ i = Len(k[c]) + 1 /\ g[c][i] = N + 1
  <2>1. g[c] \in Seq(1..(N + K)) /\ i \in 1..Len(g[c])
    BY <1>1
  <2>2. CASE c = h
    <3>1. Len(g[c]) = Len(k[c]) + 1 /\ g[c][Len(k[c]) + 1] = N + 1 /\ c \in 0..N
      BY <2>2, <1>1 DEF Longer
    <3>2. k[c] \in Seq(1..N)
      BY <1>2, <3>1
    <3>3. CASE i = Len(k[c]) + 1
      BY <2>2, <3>1, <3>3
    <3>4. CASE i # Len(k[c]) + 1
      <4>1. i \in 1..Len(k[c])
        BY <2>1, <3>1, <3>2, <3>4
      <4>2. g[c][i] = k[c][i]
        BY <2>2, <3>1, <4>1, <1>1 DEF Longer
      <4>3. QED
        BY <3>1, <3>2, <4>1, <4>2
    <3>5. QED
      BY <3>3, <3>4
  <2>3. CASE c # h /\ c \in 0..N
    <3>1. g[c] = k[c]
      BY <2>3, <1>1
    <3>2. k[c] \in Seq(1..N)
      BY <1>2, <2>3
    <3>3. QED
      BY <2>3, <3>1, <3>2
  <2>4. CASE c \notin 0..N
    <3>1. g[c] = <<>>
      BY <2>4, <1>1
    <3>2. QED
      BY <2>1, <3>1
  <2>5. QED
    BY <2>2, <2>3, <2>4
<1>5. \A c \in 0..(N + K) : \A n \in Listed(g[c]) : c < n
  <2>1. ASSUME NEW c \in 0..(N + K), NEW i \in DOMAIN g[c] PROVE c < g[c][i]
    <3>1. CASE c \in 0..N /\ i \in DOMAIN k[c] /\ g[c][i] = k[c][i]
      BY <3>1 DEF Forest, Listed
    <3>2. CASE c = h /\ g[c][i] = N + 1
      BY <3>2
    <3>3. QED
      BY <1>4, <3>1, <3>2
  <2>2. QED
    BY <2>1 DEF Listed
<1>6. ASSUME NEW c \in 0..(N + K), NEW b \in 0..(N + K), NEW i \in DOMAIN g[c], NEW j \in DOMAIN g[b],
             g[c][i] = g[b][j]
      PROVE  c = b /\ i = j
  <2>1. CASE g[c][i] = N + 1
    <3>1. c = h /\ i = Len(k[c]) + 1
      BY <1>4, <2>1
    <3>2. g[b][j] = N + 1
      BY <1>6, <2>1
    <3>3. b = h /\ j = Len(k[b]) + 1
      BY <1>4, <3>2
    <3>4. QED
      BY <3>1, <3>3
  <2>2. CASE g[c][i] # N + 1
    <3>1. c \in 0..N /\ i \in DOMAIN k[c] /\ g[c][i] = k[c][i]
      BY <1>4, <2>2
    <3>2. b \in 0..N /\ j \in DOMAIN k[b] /\ g[b][j] = k[b][j]
      BY <1>4, <1>6, <2>2
    <3>3. k[c][i] = k[b][j]
      BY <1>6, <3>1, <3>2
    <3>4. c \in 0..N /\ b \in 0..N /\ ChildAt(k, c, i, k[b][j]) /\ ChildAt(k, b, j, k[b][j])
      BY <3>1, <3>2, <3>3 DEF ChildAt
    <3>5. QED
      BY <3>4, OneParent
  <2>3. QED
    BY <2>1, <2>2
<1>7. QED
  BY <1>3, <1>5, <1>6 DEF Forest, g

LEMMA PlantedOrder ==
  ASSUME NEW N \in Nat, NEW K \in Nat \ {0}, NEW k, Forest(k, N), NEW h \in 0..N, TextOrder(k, N),
         \A c \in 0..N : \A m \in Listed(k[c]) : h < m => h <= c
  PROVE  TextOrder(Planted(k, N, K, h), N + K)
<1> DEFINE g == Planted(k, N, K, h)
<1>1. ASSUME NEW c \in 0..(N + K)
      PROVE  /\ g[c] \in Seq(1..(N + K))
             /\ c = h => Longer(g[c], k[c], N + 1)
             /\ c # h /\ c \in 0..N => g[c] = k[c]
             /\ c \notin 0..N => g[c] = <<>>
  <2>1. \A b \in 0..(N + K) : PlantedAt(g, k, N, K, h, b)
    BY PlantedKids
  <2> HIDE DEF g
  <2>2. QED
    BY <2>1 DEF PlantedAt
<1>2. \A c \in 0..N : k[c] \in Seq(1..N)
  BY DEF Forest
<1> HIDE DEF g
<1>3. ASSUME NEW c \in 0..(N + K), NEW i \in DOMAIN g[c], NEW j \in DOMAIN g[c], i < j
      PROVE  g[c][i] < g[c][j]
  <2>1. g[c] \in Seq(1..(N + K))
    BY <1>1
  <2>2. CASE c = h
    <3>1. /\ Len(g[c]) = Len(k[c]) + 1 /\ g[c][Len(k[c]) + 1] = N + 1 /\ c \in 0..N
          /\ \A l \in 1..Len(k[c]) : g[c][l] = k[c][l]
      BY <2>2, <1>1 DEF Longer
    <3>2. k[c] \in Seq(1..N)
      BY <1>2, <3>1
    <3>3. i \in 1..(Len(k[c]) + 1) /\ j \in 1..(Len(k[c]) + 1) /\ i < j /\ Len(k[c]) \in Nat
      <4>1. DOMAIN g[c] = 1..Len(g[c])
        BY <2>1
      <4>2. Len(k[c]) \in Nat
        BY <3>2
      <4>3. QED
        BY <1>3, <3>1, <4>1, <4>2
    <3>4. i \in 1..Len(k[c]) /\ g[c][i] = k[c][i] /\ k[c][i] \in 1..N
      <4>1. i \in 1..Len(k[c])
        BY <3>3
      <4>2. QED
        BY <3>1, <3>2, <4>1
    <3>5. CASE j = Len(k[c]) + 1
      BY <3>1, <3>4, <3>5
    <3>6. CASE j # Len(k[c]) + 1
      <4>1. j \in 1..Len(k[c])
        BY <3>3, <3>6
      <4>2. g[c][j] = k[c][j]
        BY <3>1, <4>1
      <4>3. k[c][i] < k[c][j]
        BY <1>3, <3>1, <3>2, <3>4, <4>1, SMTT(30) DEF TextOrder
      <4>4. QED
        BY <3>4, <4>2, <4>3
    <3>7. QED
      BY <3>5, <3>6
  <2>3. CASE c # h /\ c \in 0..N
    <3>1. g[c] = k[c]
      BY <2>3, <1>1
    <3>2. QED
      BY <1>3, <2>3, <3>1 DEF TextOrder
  <2>4. CASE c \notin 0..N
    <3>1. g[c] = <<>>
      BY <2>4, <1>1
    <3>2. QED
      BY <2>1, <3>1
  <2>5. QED
    BY <2>2, <2>3, <2>4
\* The children of g are those of k and one more
<1>4. ASSUME NEW c \in 0..(N + K), NEW n \in Listed(g[c])
      PROVE  \/ c \in 0..N /\ n \in Listed(k[c]) /\ n \in 1..N
             \/ c = h /\ n = N + 1
  <2>1. CASE c = h
    <3>1. Listed(g[c]) = Listed(k[c]) \cup {N + 1} /\ c \in 0..N
      BY <2>1, <1>1 DEF Longer
    <3>2. Listed(k[c]) \subseteq 1..N
      BY <1>2, <3>1, ListedIn
    <3>3. QED
      BY <1>4, <2>1, <3>1, <3>2
  <2>2. CASE c # h /\ c \in 0..N
    <3>1. g[c] = k[c] /\ Listed(k[c]) \subseteq 1..N
      BY <1>2, <2>2, <1>1, ListedIn
    <3>2. QED
      BY <1>4, <2>2, <3>1
  <2>3. CASE c \notin 0..N
    <3>1. g[c] = <<>>
      BY <2>3, <1>1
    <3>2. QED
      BY <1>4, <3>1, ListedEmpty
  <2>4. QED
    BY <2>1, <2>2, <2>3
<1>5. ASSUME NEW c \in 0..(N + K), NEW b \in 0..(N + K), NEW n \in Listed(g[c]), NEW m \in Listed(g[b]),
             c < m, m < n
      PROVE  c <= b
  <2>1. CASE n = N + 1
    <3>1. c = h /\ b \in 0..N /\ m \in Listed(k[b])
      BY <1>4, <1>5, <2>1
    <3>2. QED
      BY <1>5, <3>1
  <2>2. CASE n # N + 1
    <3>1. c \in 0..N /\ n \in Listed(k[c]) /\ n \in 1..N
      BY <1>4, <2>2
    <3>2. b \in 0..N /\ m \in Listed(k[b])
      BY <1>4, <1>5, <3>1
    <3>3. QED
      BY <1>5, <3>1, <3>2 DEF TextOrder
  <2>3. QED
    BY <2>1, <2>2
<1>6. QED
  BY <1>3, <1>5 DEF TextOrder, g

LEMMA PlantedListed ==
  ASSUME NEW N \in Nat, NEW K \in Nat \ {0}, NEW k, Forest(k, N), NEW h \in 0..N, NEW c \in 0..(N + K)
  PROVE  /\ c = h => Listed(Planted(k, N, K, h)[c]) = Listed(k[c]) \cup {N + 1}
         /\ c # h /\ c \in 0..N => Listed(Planted(k, N, K, h)[c]) = Listed(k[c])
         /\ c \notin 0..N => Listed(Planted(k, N, K, h)[c]) = {}
         /\ c \in 0..N => Listed(k[c]) \subseteq 1..N
<1> DEFINE g == Planted(k, N, K, h)
<1>1. c \in 0..N => Listed(k[c]) \subseteq 1..N
  BY ListedIn DEF Forest
<1>2. /\ c = h => Longer(g[c], k[c], N + 1)
      /\ c # h /\ c \in 0..N => g[c] = k[c]
      /\ c \notin 0..N => g[c] = <<>>
  <2>1. \A b \in 0..(N + K) : PlantedAt(g, k, N, K, h, b)
    BY PlantedKids
  <2> HIDE DEF g
  <2>2. QED
    BY <2>1 DEF PlantedAt
<1> HIDE DEF g
<1>3. /\ c = h => Listed(g[c]) = Listed(k[c]) \cup {N + 1}
      /\ c # h /\ c \in 0..N => Listed(g[c]) = Listed(k[c])
      /\ c \notin 0..N => Listed(g[c]) = {}
  BY <1>2, ListedEmpty DEF Longer
<1>4. QED
  BY <1>1, <1>3 DEF g

LEMMA PlantedHeld ==
  ASSUME NEW N \in Nat, NEW K \in Nat \ {0}, NEW k, Forest(k, N), NEW h \in 0..N
  PROVE  /\ \A n \in 1..N : Held(Planted(k, N, K, h), N + K, n) <=> Held(k, N, n)
         /\ Held(Planted(k, N, K, h), N + K, N + 1)
         /\ \A n \in (N + 2)..(N + K) : ~Held(Planted(k, N, K, h), N + K, n)
<1> DEFINE g == Planted(k, N, K, h)
<1>1. ASSUME NEW c \in 0..(N + K)
      PROVE  /\ c = h => Listed(g[c]) = Listed(k[c]) \cup {N + 1}
             /\ c # h /\ c \in 0..N => Listed(g[c]) = Listed(k[c])
             /\ c \notin 0..N => Listed(g[c]) = {}
             /\ c \in 0..N => Listed(k[c]) \subseteq 1..N
  BY PlantedListed
<1> HIDE DEF g
<1>2. ASSUME NEW n \in 1..N PROVE Held(g, N + K, n) <=> Held(k, N, n)
  <2>1. ASSUME NEW c \in 0..(N + K), n \in Listed(g[c]) PROVE c \in 0..N /\ n \in Listed(k[c])
    BY <1>1, <2>1
  <2>2. ASSUME NEW c \in 0..N, n \in Listed(k[c]) PROVE c \in 0..(N + K) /\ n \in Listed(g[c])
    BY <1>1, <2>2
  <2>3. QED
    BY <2>1, <2>2 DEF Held
<1>3. Held(g, N + K, N + 1)
  <2>1. h \in 0..(N + K) /\ N + 1 \in Listed(g[h])
    BY <1>1
  <2>2. QED
    BY <2>1 DEF Held
<1>4. ASSUME NEW n \in (N + 2)..(N + K), NEW c \in 0..(N + K) PROVE n \notin Listed(g[c])
  BY <1>1
<1>5. QED
  BY <1>2, <1>3, <1>4 DEF Held, g

\* What Grow does
Grown(new) ==
  LET N == Len(node)
      K == Len(new)
  IN
  /\ node' \in Seq(NodeRec) /\ Len(node') = N + K
  /\ \A n \in 1..N : node'[n] = node[n]
  /\ \A i \in 1..K : node'[N + i] = new[i]
  /\ Forest(kids', N + K) /\ TextOrder(kids', N + K)
  /\ \A n \in 1..N : Held(kids', N + K, n) <=> Held(kids, N, n)
  /\ Held(kids', N + K, N + 1)
  /\ \A n \in (N + 2)..(N + K) : ~Held(kids', N + K, n)
  /\ \A c \in 0..N : c # Here => kids'[c] = kids[c]
  /\ \A c \in (N + 1)..(N + K) : kids'[c] = <<>>
  /\ \A i \in DOMAIN open : \A c \in 0..(N + K) : \A m \in Listed(kids'[c]) : open[i] < m => open[i] <= c
  /\ saw' = TRUE
  /\ UNCHANGED <<leave, phase, fdMap, walk, nextIx, written, removed>>

LEMMA GrowIs ==
  ASSUME Typed, ReadInv, NEW new \in Seq(NodeRec), new # <<>>, Grow(new)
  PROVE  Grown(new) /\ phase = "reading"
<1> DEFINE N == Len(node)
           K == Len(new)
<1>1. N \in Nat /\ K \in Nat \ {0} /\ Containers = 0..N /\ node \in Seq(NodeRec)
  BY ContainersAre DEF Typed
<1>2. Here \in 0..N
  BY <1>1, HereIs DEF ReadInv
<1>3. kids' = Planted(kids, N, K, Here)
  <2>1. Containers \cup (N + 1 .. N + K) = 0..(N + K)
    BY <1>1
  <2>2. QED
    BY <1>1, <2>1 DEF Grow, Planted
<1>4. node' \in Seq(NodeRec) /\ Len(node') = N + K /\ (\A n \in 1..N : node'[n] = node[n])
      /\ \A i \in 1..K : node'[N + i] = new[i]
  <2>1. node' = node \o new
    BY DEF Grow
  <2>2. QED
    BY <1>1, <2>1, ConcatPlaces
<1> HIDE DEF N, K
<1>5. Forest(kids, N) /\ TextOrder(kids, N)
  BY DEF ReadInv, N
<1>6. Forest(kids', N + K)
  BY <1>1, <1>2, <1>3, <1>5, PlantedForest
<1>7. TextOrder(kids', N + K)
  <2>1. \A c \in 0..N : \A m \in Listed(kids[c]) : Here < m => Here <= c
    BY <1>1, HereIs DEF ReadInv
  <2>2. QED
    BY <1>1, <1>2, <1>3, <1>5, <2>1, PlantedOrder
<1>8. /\ \A n \in 1..N : Held(kids', N + K, n) <=> Held(kids, N, n)
      /\ Held(kids', N + K, N + 1)
      /\ \A n \in (N + 2)..(N + K) : ~Held(kids', N + K, n)
  BY <1>1, <1>2, <1>3, <1>5, PlantedHeld
<1>9. ASSUME NEW c \in 0..(N + K)
      PROVE  /\ c # Here /\ c \in 0..N => kids'[c] = kids[c]
             /\ c \notin 0..N => kids'[c] = <<>>
  <2>1. \A b \in 0..(N + K) : PlantedAt(kids', kids, N, K, Here, b)
    BY <1>1, <1>2, <1>3, <1>5, PlantedKids
  <2>2. QED
    BY <2>1 DEF PlantedAt
<1>10. /\ \A c \in 0..N : c # Here => kids'[c] = kids[c]
       /\ \A c \in (N + 1)..(N + K) : kids'[c] = <<>>
  <2>1. (\A c \in 0..N : c \in 0..(N + K)) /\ \A c \in (N + 1)..(N + K) : c \in 0..(N + K) /\ c \notin 0..N
    BY <1>1
  <2>2. QED
    BY <1>9, <2>1
<1>11. ASSUME NEW i \in DOMAIN open, NEW c \in 0..(N + K), NEW m \in Listed(kids'[c]), open[i] < m
       PROVE  open[i] <= c
  <2>1. open[i] \in Nat /\ open[i] <= Here
    BY HereIs DEF Typed, ReadInv
  <2>2. \/ c \in 0..N /\ m \in Listed(kids[c])
        \/ c = Here
    BY <1>1, <1>2, <1>3, <1>5, PlantedListed
  <2>3. CASE c \in 0..N /\ m \in Listed(kids[c])
    BY <1>1, <1>11, <2>3 DEF ReadInv, OpenOnes
  <2>4. QED
    BY <2>1, <2>2, <2>3
<1>12. saw' = TRUE /\ phase = "reading" /\ UNCHANGED <<leave, phase, fdMap, walk, nextIx, written, removed>>
  BY DEF Grow
<1>13. QED
  BY <1>1, <1>4, <1>6, <1>7, <1>8, <1>10, <1>11, <1>12 DEF Grown, N, K

LEMMA NamesAreAny ==
  /\ \A name \in Names : name \in AnyName
  /\ \A n \in Nat : InlineName(n) \in AnyName
<1>1. ASSUME NEW name \in Names PROVE name \in AnyName
  <2>1. name \in Name
    BY NamesAreNames
  <2>2. name = [base |-> name.base, n |-> name.n, caps |-> name.caps] /\ name.n \in Nat /\ name.caps \in BOOLEAN
    BY <2>1 DEF Name
  <2>3. name.base \in Bases
    BY DEF Bases
  <2>4. QED
    BY <2>2, <2>3 DEF AnyName
<1>2. ASSUME NEW n \in Nat PROVE InlineName(n) \in AnyName
  BY DEF InlineName, AnyName, Bases
<1>3. QED
  BY <1>1, <1>2

LEMMA NodeIs ==
  ASSUME NEW kind \in {"ref", "def", "inline"}, NEW name \in AnyName
  PROVE  /\ Node(kind, name) \in NodeRec
         /\ Node(kind, name).kind = kind /\ Node(kind, name).name = name /\ Node(kind, name).num = 0
BY DEF Node, NodeRec

\* A node there was stays as it was read
LEMMA GrownFresh ==
  ASSUME Typed, ReadInv, NEW new \in Seq(NodeRec), Grown(new), NEW n \in Nodes,
         Listed(open) \cup Listed(defs) \subseteq Listed(open') \cup Listed(defs')
  PROVE  Fresh(n)'
<1> DEFINE N == Len(node)
<1>1. n \in 1..N /\ N \in Nat /\ Len(node') = N + Len(new) /\ node'[n] = node[n]
  BY ContainersAre DEF Grown
<1>2. Fresh(n)
  BY DEF ReadInv
<1>3. node[n].kind = "ref" => kids'[n] = <<>>
  <2>1. node[n].kind = "ref" => n # Here
    BY HereIs DEF ReadInv
  <2>2. n \in 0..N /\ (n # Here => kids'[n] = kids[n])
    BY <1>1 DEF Grown
  <2>3. QED
    BY <1>2, <2>1, <2>2 DEF Fresh
<1>4. Held(kids', Len(node'), n) <=> Held(kids, Len(node), n)
  BY <1>1 DEF Grown
<1>5. QED
  BY <1>1, <1>2, <1>3, <1>4 DEF Fresh, IsInline

\* The reading goes on
LEMMA StillReading ==
  ASSUME NotesInv, phase' = "reading", Typed', Paired', ReadInv'
  PROVE  NotesInv'
BY DEF NotesInv

\* Nodes that are no inline definitions
LEMMA GrownPaired ==
  ASSUME Typed, Paired, NEW new \in Seq(NodeRec), Grown(new), next' = next,
         \A i \in 1..Len(new) : new[i].kind # "inline"
  PROVE  Paired'
<1> DEFINE N == Len(node)
<1>1. /\ Nodes = 1..N /\ N \in Nat /\ Nodes' = 1..(N + Len(new)) /\ Len(new) \in Nat
      /\ \A n \in 1..N : node'[n] = node[n]
      /\ \A i \in 1..Len(new) : node'[N + i] = new[i]
  BY ContainersAre DEF Grown, Nodes
<1>2. ASSUME NEW d \in Nodes', node'[d].kind = "inline" PROVE d \in Nodes /\ node'[d] = node[d] /\ IsInline(d)
  <2>1. d \notin 1..N => d - N \in 1..Len(new) /\ d = N + (d - N)
    BY <1>1
  <2>2. QED
    BY <1>1, <1>2, <2>1 DEF IsInline
<1>3. ASSUME NEW d \in Nodes', node'[d].kind = "inline"
      PROVE  /\ d - 1 \in Nodes' /\ node'[d - 1].kind = "ref" /\ node'[d - 1].name = node'[d].name
             /\ node'[d].name.base = "__inline_" /\ node'[d].name.n < next' /\ node'[d].name.caps = FALSE
  <2>1. d \in Nodes /\ node'[d] = node[d] /\ IsInline(d)
    BY <1>2, <1>3
  <2>2. d - 1 \in Nodes /\ node[d - 1].kind = "ref" /\ node[d - 1].name = node[d].name
        /\ node[d].name.base = "__inline_" /\ node[d].name.n < next /\ node[d].name.caps = FALSE
    BY <2>1 DEF Paired
  <2>3. d - 1 \in Nodes' /\ node'[d - 1] = node[d - 1]
    BY <1>1, <2>2
  <2>4. QED
    BY <2>1, <2>2, <2>3
<1>4. ASSUME NEW d \in Nodes', NEW e \in Nodes', node'[d].kind = "inline", node'[e].kind = "inline",
             node'[d].name = node'[e].name
      PROVE  d = e
  BY <1>2, <1>4 DEF Paired
<1>5. QED
  BY <1>3, <1>4 DEF Paired, IsInline

LEMMA AddReferenceKeeps ==
  ASSUME NotesInv, NEW name \in Names, AddReference(name)
  PROVE  NotesInv'
<1> DEFINE x == Node("ref", name)
           new == <<x>>
<1>1. x \in NodeRec /\ x.kind = "ref" /\ x.num = 0
  BY NamesAreAny, NodeIs
<1> HIDE DEF x
<1>2. new \in Seq(NodeRec) /\ Len(new) = 1 /\ new[1] = x /\ new # <<>>
  BY <1>1
<1>3. Grow(new) /\ UNCHANGED <<open, defs, next>>
  BY DEF AddReference, x
<1> HIDE DEF new
<1>4. phase = "reading"
  BY <1>3 DEF Grow
<1>5. Typed /\ Paired /\ ReadInv
  BY <1>4 DEF NotesInv
<1>6. Grown(new)
  BY <1>2, <1>3, <1>5, GrowIs
<1>7. Typed' /\ phase' = "reading"
  BY <1>3, <1>4, <1>5, <1>6 DEF Typed, Grown
<1>8. Paired'
  BY <1>1, <1>2, <1>3, <1>5, <1>6, GrownPaired
<1>9. Nodes = 1..Len(node) /\ Len(node) \in Nat /\ Len(node') = Len(node) + 1 /\ Nodes' = 1..(Len(node) + 1)
      /\ Containers' = 0..(Len(node) + 1)
  BY <1>2, <1>5, <1>6, <1>7, ContainersAre DEF Grown, Typed, Containers, Nodes, Root
<1>10. \A n \in Nodes : node'[n] = node[n]
  BY <1>6, <1>9 DEF Grown
<1>11. ASSUME NEW n \in Nodes' PROVE Fresh(n)'
  <2>1. CASE n \in Nodes
    BY <1>2, <1>3, <1>5, <1>6, <2>1, GrownFresh
  <2>2. CASE n = Len(node) + 1
    <3>1. node'[n] = x /\ kids'[n] = <<>> /\ Held(kids', Len(node'), n)
      BY <1>2, <1>6, <1>9, <2>2 DEF Grown
    <3>2. QED
      BY <1>1, <3>1 DEF Fresh, IsInline
  <2>3. QED
    BY <1>9, <2>1, <2>2
<1>12. OpenOnes' /\ ReadOnes'
  <2>1. \A n \in Nodes : n \in Nodes'
    BY <1>9
  <2>2. \A i \in DOMAIN open : \A c \in Containers' : \A m \in Listed(kids'[c]) : open[i] < m => open[i] <= c
    BY <1>2, <1>6, <1>9 DEF Grown
  <2>3. QED
    BY <1>3, <1>5, <1>10, <2>1, <2>2 DEF ReadInv, OpenOnes, ReadOnes, IsInline
<1>13. ReadInv'
  BY <1>2, <1>5, <1>6, <1>9, <1>11, <1>12 DEF ReadInv, Grown
<1>14. QED
  BY <1>7, <1>8, <1>13, StillReading

\* The last of the new nodes is a definition that is opened
LEMMA PushOpen ==
  ASSUME Typed, ReadInv, NEW new \in Seq(NodeRec), new # <<>>, Grown(new), new[Len(new)].kind # "ref",
         open' = Append(open, Len(node) + Len(new)), defs' = defs
  PROVE  /\ OpenOnes' /\ ReadOnes' /\ open' \in Seq(Nat)
         /\ Listed(open') = Listed(open) \cup {Len(node) + Len(new)}
<1> DEFINE x == Len(node) + Len(new)
<1>1. /\ Nodes = 1..Len(node) /\ Len(node) \in Nat /\ Len(new) \in Nat \ {0} /\ x \in Nat /\ x > Len(node)
      /\ Len(node') = x /\ Nodes' = 1..x /\ Containers' = 0..x
      /\ \A n \in Nodes : node'[n] = node[n] /\ n \in Nodes' /\ n < x
      /\ node'[x] = new[Len(new)]
  <2>1. Nodes = 1..Len(node) /\ Len(node) \in Nat /\ Len(new) \in Nat \ {0}
    BY ContainersAre
  <2>2. node' \in Seq(NodeRec) /\ Len(node') = x /\ (\A n \in 1..Len(node) : node'[n] = node[n])
        /\ node'[x] = new[Len(new)]
    BY <2>1 DEF Grown
  <2>3. Nodes' = 1..x /\ Containers' = 0..x
    BY <2>1, <2>2 DEF Nodes, Containers, Root
  <2>4. QED
    BY <2>1, <2>2, <2>3
<1>2. x \in Nodes' /\ node'[x].kind # "ref"
  BY <1>1
<1>3. ASSUME NEW c \in Containers', NEW m \in Listed(kids'[c]) PROVE m <= x /\ m \in Nat
  <2>1. kids'[c] \in Seq(1..x)
    BY <1>1 DEF Grown, Forest
  <2>2. m \in 1..x
    BY <2>1, ListedIn
  <2>3. QED
    BY <1>1, <2>2
<1>4. \A i \in DOMAIN open : open[i] \in Nodes /\ node[open[i]].kind # "ref"
  BY DEF ReadInv, OpenOnes
<1>5. \A i \in DOMAIN open : \A c \in Containers' : \A m \in Listed(kids'[c]) : open[i] < m => open[i] <= c
  BY <1>1 DEF Grown
<1> HIDE DEF x
<1>6. open \in Seq(Nat) /\ open' = Append(open, x)
  BY DEF Typed, x
<1>7. /\ open' \in Seq(Nat) /\ Len(open') = Len(open) + 1 /\ open'[Len(open) + 1] = x /\ Len(open) \in Nat
      /\ \A i \in 1..Len(open) : open'[i] = open[i]
      /\ DOMAIN open' = 1..(Len(open) + 1) /\ DOMAIN open = 1..Len(open)
  BY <1>1, <1>6
<1>8. Listed(open') = Listed(open) \cup {x}
  BY <1>1, <1>6, ListedAppend
<1>9. ASSUME NEW i \in DOMAIN open', NEW j \in DOMAIN open', i < j PROVE open'[i] < open'[j]
  <2>1. i \in DOMAIN open /\ open'[i] = open[i] /\ open[i] \in Nodes
    BY <1>4, <1>7, <1>9
  <2>2. CASE j = Len(open) + 1
    BY <1>1, <1>7, <2>1, <2>2
  <2>3. CASE j # Len(open) + 1
    <3>1. j \in DOMAIN open /\ open'[j] = open[j]
      BY <1>7, <2>3
    <3>2. QED
      BY <1>9, <2>1, <3>1 DEF ReadInv, OpenOnes
  <2>4. QED
    BY <2>2, <2>3
<1>10. ASSUME NEW i \in DOMAIN open'
       PROVE  /\ open'[i] \in Nodes' /\ node'[open'[i]].kind # "ref"
              /\ \A c \in Containers' : \A m \in Listed(kids'[c]) : open'[i] < m => open'[i] <= c
  <2>1. CASE i = Len(open) + 1
    <3>1. open'[i] = x
      BY <1>7, <2>1
    <3>2. \A c \in Containers' : \A m \in Listed(kids'[c]) : ~(x < m)
      BY <1>1, <1>3, SMTT(30)
    <3>3. QED
      BY <1>2, <3>1, <3>2
  <2>2. CASE i # Len(open) + 1
    <3>1. i \in DOMAIN open /\ open'[i] = open[i]
      BY <1>7, <2>2
    <3>2. QED
      BY <1>1, <1>4, <1>5, <3>1
  <2>3. QED
    BY <2>1, <2>2
<1>11. OpenOnes'
  BY <1>9, <1>10 DEF OpenOnes
<1>12. ReadOnes'
  <2>1. ASSUME NEW i \in DOMAIN defs PROVE defs[i] \in Nodes' /\ node'[defs[i]].kind = "inline" /\ defs[i] \notin Listed(open')
    <3>1. defs[i] \in Nodes /\ node[defs[i]].kind = "inline" /\ defs[i] \notin Listed(open)
      BY DEF ReadInv, ReadOnes, IsInline
    <3>2. QED
      BY <1>1, <1>8, <3>1
  <2>2. QED
    BY <2>1 DEF ReadInv, ReadOnes, IsInline
<1>13. QED
  BY <1>7, <1>8, <1>11, <1>12 DEF x

LEMMA OpenDefinitionKeeps ==
  ASSUME NotesInv, NEW name \in Names, OpenDefinition(name)
  PROVE  NotesInv'
<1> DEFINE x == Node("def", name)
           new == <<x>>
<1>1. x \in NodeRec /\ x.kind = "def" /\ x.num = 0
  BY NamesAreAny, NodeIs
<1> HIDE DEF x
<1>2. new \in Seq(NodeRec) /\ Len(new) = 1 /\ new[1] = x /\ new # <<>>
  BY <1>1
<1>3. Grow(new) /\ open' = Append(open, Len(node) + 1) /\ UNCHANGED <<defs, next>>
  BY DEF OpenDefinition, x
<1> HIDE DEF new
<1>4. phase = "reading"
  BY <1>3 DEF Grow
<1>5. Typed /\ Paired /\ ReadInv
  BY <1>4 DEF NotesInv
<1>6. Grown(new)
  BY <1>2, <1>3, <1>5, GrowIs
<1>7. OpenOnes' /\ ReadOnes' /\ open' \in Seq(Nat) /\ Listed(open') = Listed(open) \cup {Len(node) + 1}
  BY <1>1, <1>2, <1>3, <1>5, <1>6, PushOpen
<1>8. Typed' /\ phase' = "reading"
  BY <1>3, <1>4, <1>5, <1>6, <1>7 DEF Typed, Grown
<1>9. Paired'
  BY <1>1, <1>2, <1>3, <1>5, <1>6, GrownPaired
<1>10. Nodes = 1..Len(node) /\ Len(node) \in Nat /\ Len(node') = Len(node) + 1 /\ Nodes' = 1..(Len(node) + 1)
  BY <1>2, <1>5, <1>6, <1>8, ContainersAre DEF Grown, Typed, Nodes
<1>11. ASSUME NEW n \in Nodes' PROVE Fresh(n)'
  <2>1. CASE n \in Nodes
    BY <1>2, <1>3, <1>5, <1>6, <1>7, <2>1, GrownFresh
  <2>2. CASE n = Len(node) + 1
    <3>1. node'[n] = x /\ kids'[n] = <<>> /\ Held(kids', Len(node'), n)
      BY <1>2, <1>6, <1>10, <2>2 DEF Grown
    <3>2. QED
      BY <1>1, <3>1 DEF Fresh, IsInline
  <2>3. QED
    BY <1>10, <2>1, <2>2
<1>12. ReadInv'
  BY <1>2, <1>5, <1>6, <1>7, <1>10, <1>11 DEF ReadInv, Grown
<1>13. QED
  BY <1>8, <1>9, <1>12, StillReading

\* The innermost definition is closed
LEMMA PopOpen ==
  ASSUME Typed, OpenOnes, open # <<>>, open' = SubSeq(open, 1, Len(open) - 1), UNCHANGED <<node, kids>>
  PROVE  /\ OpenOnes' /\ open' \in Seq(Nat)
         /\ Here \in Nodes /\ Listed(open) = Listed(open') \cup {Here} /\ Here \notin Listed(open')
<1>1. open \in Seq(Nat) /\ Len(open) \in Nat \ {0} /\ DOMAIN open = 1..Len(open)
  BY DEF Typed
<1>2. /\ open' \in Seq(Nat) /\ Len(open') = Len(open) - 1 /\ DOMAIN open' = 1..(Len(open) - 1)
      /\ \A i \in 1..(Len(open) - 1) : open'[i] = open[i]
  BY <1>1
<1>3. Here = open[Len(open)] /\ Here \in Nodes
  BY <1>1 DEF Here, OpenOnes
<1>4. \A i \in DOMAIN open' : i \in DOMAIN open /\ open'[i] = open[i] /\ i < Len(open)
  BY <1>1, <1>2
<1>5. OpenOnes'
  BY <1>4 DEF OpenOnes, Nodes, Containers
<1>6. Listed(open) = Listed(open') \cup {Here}
  <2>1. \A i \in DOMAIN open : i \in DOMAIN open' \/ i = Len(open)
    BY <1>1, <1>2
  <2>2. QED
    BY <1>1, <1>3, <1>4, <2>1 DEF Listed
<1>7. Here \notin Listed(open')
  <2>1. ASSUME NEW i \in DOMAIN open', open'[i] = Here PROVE FALSE
    <3>1. i \in DOMAIN open /\ Len(open) \in DOMAIN open /\ open[i] = open[Len(open)] /\ i < Len(open)
      BY <1>1, <1>3, <1>4, <2>1
    <3>2. open[i] < open[Len(open)]
      BY <3>1 DEF OpenOnes
    <3>3. open[i] \in Nat /\ open[Len(open)] \in Nat
      BY <1>1, <3>1
    <3>4. QED
      BY <3>1, <3>2, <3>3
  <2>2. QED
    BY <2>1 DEF Listed
<1>8. QED
  BY <1>2, <1>3, <1>5, <1>6, <1>7

LEMMA CloseDefinitionKeeps == ASSUME NotesInv, CloseDefinition PROVE NotesInv'
<1>1. /\ phase = "reading" /\ open # <<>> /\ node[Here].kind # "inline"
      /\ open' = SubSeq(open, 1, Len(open) - 1)
      /\ UNCHANGED <<leave, phase, node, kids, defs, next, saw, fdMap, walk, nextIx, written, removed>>
  BY DEF CloseDefinition, IsInline
<1>2. Typed /\ Paired /\ ReadInv
  BY <1>1 DEF NotesInv
<1>3. /\ OpenOnes' /\ open' \in Seq(Nat)
      /\ Here \in Nodes /\ Listed(open) = Listed(open') \cup {Here} /\ Here \notin Listed(open')
  BY <1>1, <1>2, PopOpen DEF ReadInv
<1>4. Typed' /\ Paired'
  BY <1>1, <1>2, <1>3 DEF Typed, Paired, Nodes, IsInline
<1>5. ReadOnes'
  BY <1>1, <1>2, <1>3 DEF ReadInv, ReadOnes, Nodes, IsInline
<1>6. \A n \in Nodes : Fresh(n)'
  BY <1>1, <1>2, <1>3 DEF ReadInv, Fresh, IsInline, Held
<1>7. ReadInv'
  BY <1>1, <1>2, <1>3, <1>5, <1>6 DEF ReadInv, Nodes
<1>8. QED
  BY <1>1, <1>4, <1>7, StillReading

LEMMA CloseInlineKeeps == ASSUME NotesInv, CloseInline PROVE NotesInv'
<1>1. /\ phase = "reading" /\ open # <<>> /\ node[Here].kind = "inline"
      /\ open' = SubSeq(open, 1, Len(open) - 1) /\ defs' = Append(defs, Here)
      /\ UNCHANGED <<leave, phase, node, kids, next, saw, fdMap, walk, nextIx, written, removed>>
  BY DEF CloseInline, IsInline
<1>2. Typed /\ Paired /\ ReadInv
  BY <1>1 DEF NotesInv
<1>3. /\ OpenOnes' /\ open' \in Seq(Nat)
      /\ Here \in Nodes /\ Listed(open) = Listed(open') \cup {Here} /\ Here \notin Listed(open')
  BY <1>1, <1>2, PopOpen DEF ReadInv
<1>4. /\ defs \in Seq(Nat) /\ defs' \in Seq(Nat) /\ Listed(defs') = Listed(defs) \cup {Here}
      /\ DOMAIN defs = 1..Len(defs) /\ DOMAIN defs' = 1..(Len(defs) + 1) /\ Len(defs) \in Nat
      /\ defs'[Len(defs) + 1] = Here
      /\ \A i \in 1..Len(defs) : defs'[i] = defs[i]
  <2>1. defs \in Seq(Nat) /\ Here \in Nat
    BY <1>2, <1>3, ContainersAre DEF Typed
  <2>2. QED
    BY <1>1, <2>1, ListedAppend
<1>5. Typed' /\ Paired'
  BY <1>1, <1>2, <1>3, <1>4 DEF Typed, Paired, Nodes, IsInline
<1>6. ReadOnes'
  <2>1. \A i \in DOMAIN defs : defs[i] \in Nodes /\ node[defs[i]].kind = "inline" /\ defs[i] \notin Listed(open')
                               /\ defs[i] # Here
    BY <1>2, <1>3 DEF ReadInv, ReadOnes, IsInline
  <2>2. ASSUME NEW i \in DOMAIN defs'
        PROVE  \/ i \in DOMAIN defs /\ defs'[i] = defs[i]
               \/ i = Len(defs) + 1 /\ defs'[i] = Here
    <3>1. i \in 1..(Len(defs) + 1)
      BY <1>4, Zenon
    <3>2. i \in 1..Len(defs) \/ i = Len(defs) + 1
      BY <1>4, <3>1
    <3>3. QED
      BY <1>4, <3>2, Zenon
  <2>3. \A i, j \in DOMAIN defs : defs[i] = defs[j] => i = j
    BY <1>2 DEF ReadInv, ReadOnes
  <2>4. QED
    BY <1>1, <1>3, <2>1, <2>2, <2>3 DEF ReadOnes, Nodes, IsInline
<1>7. \A n \in Nodes : Fresh(n)'
  BY <1>1, <1>2, <1>3, <1>4 DEF ReadInv, Fresh, IsInline, Held
<1>8. ReadInv'
  BY <1>1, <1>2, <1>3, <1>6, <1>7 DEF ReadInv, Nodes
<1>9. QED
  BY <1>1, <1>5, <1>8, StillReading

LEMMA OpenInlineKeeps == ASSUME NotesInv, OpenInline PROVE NotesInv'
<1> DEFINE x == Node("ref", InlineName(next))
           y == Node("inline", InlineName(next))
           new == <<x, y>>
           N == Len(node)
<1>1. phase = "reading"
  BY DEF OpenInline, Grow
<1>2. Typed /\ Paired /\ ReadInv /\ next \in Nat
  BY <1>1 DEF NotesInv, Typed
<1>3. InlineName(next) \in AnyName
  BY <1>2, NamesAreAny
<1>4. /\ x \in NodeRec /\ x.kind = "ref" /\ x.num = 0 /\ x.name = InlineName(next)
      /\ y \in NodeRec /\ y.kind = "inline" /\ y.num = 0 /\ y.name = InlineName(next)
  BY <1>3, NodeIs
<1>5. Grow(new) /\ open' = Append(open, N + 2) /\ next' = next + 1 /\ UNCHANGED defs
  BY DEF OpenInline
<1> HIDE DEF x, y
<1>6. new \in Seq(NodeRec) /\ Len(new) = 2 /\ new[1] = x /\ new[2] = y /\ new # <<>>
  BY <1>4
<1> HIDE DEF new
<1>7. Grown(new)
  BY <1>2, <1>5, <1>6, GrowIs
<1>8. OpenOnes' /\ ReadOnes' /\ open' \in Seq(Nat) /\ Listed(open') = Listed(open) \cup {N + 2}
  BY <1>2, <1>4, <1>5, <1>6, <1>7, PushOpen
<1>9. Typed' /\ phase' = "reading"
  BY <1>1, <1>2, <1>5, <1>7, <1>8 DEF Typed, Grown
<1>10. Nodes = 1..N /\ N \in Nat /\ Len(node') = N + 2 /\ Nodes' = 1..(N + 2)
      /\ (\A n \in 1..N : node'[n] = node[n]) /\ node'[N + 1] = x /\ node'[N + 2] = y
  <2>1. Nodes = 1..N /\ N \in Nat
    BY <1>2, ContainersAre
  <2>2. node' \in Seq(NodeRec) /\ Len(node') = N + 2 /\ (\A n \in 1..N : node'[n] = node[n])
        /\ \A i \in 1..2 : node'[N + i] = new[i]
    BY <1>6, <1>7 DEF Grown
  <2>3. Nodes' = 1..(N + 2)
    BY <2>2 DEF Nodes
  <2>4. QED
    BY <1>6, <2>1, <2>2, <2>3
<1>11. ASSUME NEW d \in Nodes', node'[d].kind = "inline"
       PROVE  \/ d \in Nodes /\ node'[d] = node[d] /\ IsInline(d)
              \/ d = N + 2
  <2>1. d \in 1..N \/ d = N + 1 \/ d = N + 2
    BY <1>10
  <2>2. d # N + 1
    BY <1>4, <1>10, <1>11
  <2>3. QED
    BY <1>10, <1>11, <2>1, <2>2 DEF IsInline
<1>12. Paired'
  <2>1. ASSUME NEW d \in Nodes', node'[d].kind = "inline"
        PROVE  /\ d - 1 \in Nodes' /\ node'[d - 1].kind = "ref" /\ node'[d - 1].name = node'[d].name
               /\ node'[d].name.base = "__inline_" /\ node'[d].name.n < next' /\ node'[d].name.caps = FALSE
    <3>1. CASE d \in Nodes /\ node'[d] = node[d] /\ IsInline(d)
      <4>1. d - 1 \in Nodes /\ node[d - 1].kind = "ref" /\ node[d - 1].name = node[d].name
            /\ node[d].name.base = "__inline_" /\ node[d].name.n < next /\ node[d].name.caps = FALSE
        BY <1>2, <3>1 DEF Paired
      <4>2. d - 1 \in Nodes' /\ node'[d - 1] = node[d - 1]
        BY <1>10, <4>1
      <4>3. node[d].name.n \in Nat
        <5>1. node[d] \in NodeRec
          BY <1>2, <3>1 DEF Typed, Nodes
        <5>2. QED
          BY <5>1 DEF NodeRec, AnyName
      <4>4. node[d].name.n < next'
        BY <1>2, <1>5, <4>1, <4>3
      <4>5. QED
        BY <3>1, <4>1, <4>2, <4>4
    <3>2. CASE d = N + 2
      <4>1. d - 1 = N + 1 /\ d - 1 \in Nodes'
        BY <1>10, <3>2
      <4>2. InlineName(next).base = "__inline_" /\ InlineName(next).n = next /\ InlineName(next).caps = FALSE
        BY DEF InlineName
      <4>3. next < next'
        BY <1>2, <1>5
      <4>4. QED
        BY <1>4, <1>10, <3>2, <4>1, <4>2, <4>3
    <3>3. QED
      BY <1>11, <2>1, <3>1, <3>2
  <2>2. ASSUME NEW d \in Nodes', node'[d].kind = "inline", d # N + 2 PROVE node'[d].name # InlineName(next)
    <3>1. d \in Nodes /\ node'[d] = node[d] /\ IsInline(d)
      BY <1>11, <2>2
    <3>2. node[d].name.n < next
      BY <1>2, <3>1 DEF Paired
    <3>3. InlineName(next).n = next
      BY DEF InlineName
    <3>4. QED
      BY <1>2, <3>1, <3>2, <3>3
  <2>3. ASSUME NEW d \in Nodes', NEW e \in Nodes', node'[d].kind = "inline", node'[e].kind = "inline",
               node'[d].name = node'[e].name
        PROVE  d = e
    <3>1. CASE d = N + 2
      BY <1>4, <1>10, <2>2, <2>3, <3>1
    <3>2. CASE e = N + 2
      BY <1>4, <1>10, <2>2, <2>3, <3>2
    <3>3. CASE d # N + 2 /\ e # N + 2
      BY <1>2, <1>11, <2>3, <3>3 DEF Paired
    <3>4. QED
      BY <3>1, <3>2, <3>3
  <2>4. QED
    BY <2>1, <2>3 DEF Paired, IsInline
<1>13. ASSUME NEW n \in Nodes' PROVE Fresh(n)'
  <2>1. CASE n \in Nodes
    BY <1>2, <1>5, <1>6, <1>7, <1>8, <2>1, GrownFresh
  <2>2. CASE n = N + 1
    <3>1. n \in (N + 1)..(N + 2)
      BY <1>10, <2>2
    <3>2. node'[n] = x /\ kids'[n] = <<>> /\ Held(kids', Len(node'), n)
      BY <1>6, <1>7, <1>10, <2>2, <3>1 DEF Grown
    <3>3. QED
      BY <1>4, <3>2 DEF Fresh, IsInline
  <2>3. CASE n = N + 2
    <3>1. n \in (N + 2)..(N + 2)
      BY <1>10, <2>3
    <3>2. node'[n] = y /\ ~Held(kids', Len(node'), n) /\ n \in Listed(open')
      BY <1>6, <1>7, <1>8, <1>10, <2>3, <3>1 DEF Grown
    <3>3. QED
      BY <1>4, <3>2 DEF Fresh, IsInline
  <2>4. QED
    BY <1>10, <2>1, <2>2, <2>3
<1>14. ReadInv'
  BY <1>2, <1>6, <1>7, <1>8, <1>10, <1>13 DEF ReadInv, Grown
<1>15. QED
  BY <1>9, <1>12, <1>14, StillReading

(***************************************************************************)
(* The end of the text                                                     *)
(***************************************************************************)
\* At the end no inline definition is open
LEMMA NoneOpen ==
  ASSUME Typed, Depth = 0
  PROVE  \A i \in DOMAIN open : ~IsInline(open[i])
<1> DEFINE S == {i \in DOMAIN open : IsInline(open[i])}
<1>1. open \in Seq(Nat) /\ DOMAIN open = 1..Len(open) /\ Len(open) \in Nat
  BY DEF Typed
<1>2. IsFiniteSet(S)
  <2>1. IsFiniteSet(1..Len(open))
    BY <1>1, FS_Interval
  <2>2. S \subseteq 1..Len(open)
    BY <1>1
  <2>3. QED
    BY <2>1, <2>2, FS_Subset
<1>3. S = {}
  BY <1>2, FS_EmptySet DEF Depth
<1>4. QED
  BY <1>3

LEMMA EntriesAre ==
  ASSUME NEW s \in Seq(Nat)
  PROVE  /\ Entries(s) \in Seq(Entry) /\ Len(Entries(s)) = Len(s) /\ DOMAIN Entries(s) = DOMAIN s
         /\ \A i \in DOMAIN s : Entries(s)[i].at = s[i] /\ ~Entries(s)[i].leaving
<1>1. DOMAIN s = 1..Len(s) /\ Len(s) \in Nat /\ \A i \in DOMAIN s : [at |-> s[i], leaving |-> FALSE] \in Entry
  BY DEF Entry
<1>2. Entries(s) = [i \in 1..Len(s) |-> [at |-> s[i], leaving |-> FALSE]]
  BY <1>1 DEF Entries
<1>3. Entries(s) \in Seq(Entry) /\ Len(Entries(s)) = Len(s) /\ DOMAIN Entries(s) = DOMAIN s
  BY <1>1, <1>2
<1>4. QED
  BY <1>1, <1>2, <1>3

\* The tree with the inline definitions after the text
LEMMA JoinedTree ==
  ASSUME Typed, ReadInv, Depth = 0, kids' = [kids EXCEPT ![Root] = WithInline], UNCHANGED <<node, removed>>
  PROVE  /\ TreeInv'
         /\ \A c \in Containers : c # Root => kids'[c] = kids[c]
         /\ kids'[Root] = WithInline /\ WithInline \in Seq(Nodes)
         /\ Listed(WithInline) = Listed(kids[Root]) \cup Listed(defs)
         /\ \A d \in Nodes : IsInline(d) => d \in Listed(kids'[Root])
<1> DEFINE N == Len(node)
<1>1. Nodes = 1..N /\ Containers = 0..N /\ N \in Nat /\ Root = 0 /\ Root \in 0..N
  BY ContainersAre DEF Root
<1>2. Forest(kids, N)
  BY DEF ReadInv
<1>3. \A c \in 0..N : kids[c] \in Seq(Nodes)
  BY <1>1, <1>2 DEF Forest
<1>4. defs \in Seq(Nodes)
  <2>1. defs \in Seq(Nat) /\ \A i \in DOMAIN defs : defs[i] \in Nodes
    BY DEF Typed, ReadInv, ReadOnes
  <2>2. QED
    BY <2>1
<1>5. kids' \in [0..N -> Seq(1..N)] /\ kids'[Root] = WithInline /\ \A c \in Containers : c # Root => kids'[c] = kids[c]
  <2>1. WithInline \in Seq(Nodes)
    BY <1>1, <1>3, <1>4 DEF WithInline
  <2>2. kids \in [0..N -> Seq(1..N)]
    BY <1>2 DEF Forest
  <2>3. QED
    BY <1>1, <2>1, <2>2
<1>6. WithInline \in Seq(Nodes) /\ Listed(WithInline) = Listed(kids[Root]) \cup Listed(defs)
  BY <1>1, <1>3, <1>4, ListedConcat DEF WithInline
<1>7. \A d \in Nodes : IsInline(d) => d \in Listed(defs)
  <2>1. \A d \in Listed(open) : ~IsInline(d)
    BY NoneOpen DEF Listed
  <2>2. QED
    BY <2>1 DEF ReadInv, Fresh
<1>8. \A d \in Listed(defs) : d \in Nodes /\ ~Held(kids, N, d)
  BY DEF ReadInv, ReadOnes, Listed, Fresh
\* A place in the joined tree
<1>9. ASSUME NEW c \in 0..N, NEW i \in DOMAIN kids'[c]
      PROVE  \/ i \in DOMAIN kids[c] /\ kids'[c][i] = kids[c][i] /\ kids[c][i] \in Listed(kids[c])
             \/ /\ c = Root /\ i - Len(kids[Root]) \in DOMAIN defs /\ i > Len(kids[Root])
                /\ kids'[c][i] = defs[i - Len(kids[Root])] /\ kids'[c][i] \in Listed(defs)
  <2>1. CASE c # Root
    BY <1>1, <1>5, <2>1 DEF Listed
  <2>2. CASE c = Root
    <3>1. kids'[c] = kids[Root] \o defs /\ kids[Root] \in Seq(Nodes)
      BY <1>1, <1>3, <1>5, <2>2 DEF WithInline
    <3>2. /\ DOMAIN kids'[c] = 1..(Len(kids[Root]) + Len(defs))
          /\ \A j \in 1..Len(kids[Root]) : kids'[c][j] = kids[Root][j]
          /\ \A j \in DOMAIN kids'[c] : j > Len(kids[Root]) =>
               kids'[c][j] = defs[j - Len(kids[Root])] /\ j - Len(kids[Root]) \in DOMAIN defs
      <4> DEFINE u == kids'[c]
                 r == kids[Root]
      <4>1. u = r \o defs /\ r \in Seq(Nodes)
        BY <3>1
      <4> HIDE DEF u, r
      <4>2. /\ DOMAIN u = 1..(Len(r) + Len(defs))
            /\ \A j \in 1..Len(r) : u[j] = r[j]
            /\ \A j \in DOMAIN u : j > Len(r) => u[j] = defs[j - Len(r)] /\ j - Len(r) \in DOMAIN defs
        BY <1>4, <4>1, ConcatIs
      <4>3. QED
        BY <4>2 DEF u, r
    <3>3. Len(kids[Root]) \in Nat /\ DOMAIN kids[Root] = 1..Len(kids[Root]) /\ Len(defs) \in Nat
      BY <1>4, <3>1
    <3>4. CASE i \in 1..Len(kids[Root])
      BY <2>2, <3>2, <3>3, <3>4 DEF Listed
    <3>5. CASE i \notin 1..Len(kids[Root])
      <4>1. i > Len(kids[Root])
        BY <3>2, <3>3, <3>5
      <4>2. kids'[c][i] = defs[i - Len(kids[Root])] /\ i - Len(kids[Root]) \in DOMAIN defs
        BY <3>2, <4>1
      <4>3. QED
        BY <2>2, <4>1, <4>2 DEF Listed
    <3>6. QED
      BY <3>4, <3>5
  <2>3. QED
    BY <2>1, <2>2
<1>10. Forest(kids', N)
  <2>1. ASSUME NEW c \in 0..N, NEW i \in DOMAIN kids'[c] PROVE c < kids'[c][i]
    <3>1. CASE i \in DOMAIN kids[c] /\ kids'[c][i] = kids[c][i] /\ kids[c][i] \in Listed(kids[c])
      BY <1>2, <3>1 DEF Forest
    <3>2. CASE c = Root /\ kids'[c][i] \in Listed(defs)
      BY <1>1, <1>8, <3>2
    <3>3. QED
      BY <1>9, <3>1, <3>2
  <2>2. ASSUME NEW c \in 0..N, NEW b \in 0..N, NEW i \in DOMAIN kids'[c], NEW j \in DOMAIN kids'[b],
               kids'[c][i] = kids'[b][j]
        PROVE  c = b /\ i = j
    <3>1. CASE kids'[c][i] \in Listed(defs)
      <4>1. \A a \in 0..N : kids'[c][i] \notin Listed(kids[a])
        BY <1>8, <3>1 DEF Held
      <4>2. c = Root /\ i - Len(kids[Root]) \in DOMAIN defs /\ kids'[c][i] = defs[i - Len(kids[Root])]
        BY <1>9, <4>1
      <4>3. b = Root /\ j - Len(kids[Root]) \in DOMAIN defs /\ kids'[b][j] = defs[j - Len(kids[Root])]
        BY <1>9, <2>2, <4>1
      <4>4. i - Len(kids[Root]) = j - Len(kids[Root])
        BY <2>2, <4>2, <4>3 DEF ReadInv, ReadOnes
      <4>5. i \in Nat /\ j \in Nat /\ Len(kids[Root]) \in Nat
        BY <1>1, <1>3, <1>5
      <4>6. QED
        BY <4>2, <4>3, <4>4, <4>5
    <3>2. CASE kids'[c][i] \notin Listed(defs)
      <4>1. i \in DOMAIN kids[c] /\ kids'[c][i] = kids[c][i]
        BY <1>9, <3>2
      <4>2. j \in DOMAIN kids[b] /\ kids'[b][j] = kids[b][j]
        BY <1>9, <2>2, <3>2
      <4>3. kids[c][i] = kids[b][j]
        BY <2>2, <4>1, <4>2
      <4>4. QED
        BY <1>2, <4>1, <4>2, <4>3 DEF Forest
    <3>3. QED
      BY <3>1, <3>2
  <2>3. \A c \in 0..N : \A n \in Listed(kids'[c]) : c < n
    BY <2>1 DEF Listed
  <2>4. QED
    BY <1>5, <2>2, <2>3 DEF Forest
<1>11. \A d \in Nodes : IsInline(d) => d \in Listed(kids'[Root])
  BY <1>5, <1>6, <1>7
<1>12. ASSUME NEW n \in Nodes PROVE Held(kids', N, n)
  <2>1. CASE IsInline(n)
    BY <1>1, <1>11, <2>1 DEF Held
  <2>2. CASE ~IsInline(n)
    <3>1. PICK c \in 0..N : n \in Listed(kids[c])
      BY <2>2 DEF ReadInv, Fresh, Held
    <3>2. n \in Listed(kids'[c])
      BY <1>1, <1>5, <1>6, <3>1
    <3>3. QED
      BY <3>2 DEF Held
  <2>3. QED
    BY <2>1, <2>2
<1>13. ASSUME NEW n \in Nodes, ~IsDefinition(n) PROVE kids'[n] = <<>>
  <2>1. node[n].kind = "ref"
    <3>1. node[n] \in NodeRec
      BY DEF Typed, Nodes
    <3>2. node[n].kind # "text"
      BY DEF ReadInv, Fresh
    <3>3. QED
      BY <1>13, <3>1, <3>2 DEF IsDefinition, NodeRec
  <2>2. kids[n] = <<>> /\ n \in Containers /\ n # Root
    BY <1>1, <2>1 DEF ReadInv, Fresh
  <2>3. QED
    BY <1>5, <2>2
<1>14. removed = {}
  BY DEF ReadInv
<1>15. TreeInv'
  BY <1>10, <1>12, <1>13, <1>14 DEF TreeInv, Nodes, IsDefinition
<1>16. QED
  BY <1>5, <1>6, <1>11, <1>15

(***************************************************************************)
(* Walks                                                                   *)
(***************************************************************************)
\* A walk that begins has met nothing
LEMMA WalkBegins ==
  ASSUME NEW N \in Nat, NEW k, Forest(k, N), NEW w, w = Entries(k[Root])
  PROVE  /\ Met(k, N, w, {}) /\ w \in Seq(Entry)
         /\ \A i \in DOMAIN w : ~w[i].leaving
<1>1. Root = 0 /\ Root \in 0..N /\ 1..N \subseteq Nat
  BY DEF Root
<1>2. k[Root] \in Seq(1..N) /\ k[Root] \in Seq(Nat)
  BY <1>1 DEF Forest
<1>3. /\ w \in Seq(Entry) /\ DOMAIN w = DOMAIN k[Root]
      /\ \A i \in DOMAIN w : w[i].at = k[Root][i] /\ ~w[i].leaving
  BY <1>2, EntriesAre
<1>4. Ahead(w) = Listed(k[Root])
  BY <1>3 DEF Ahead, Listed
<1>5. \A i \in DOMAIN w : w[i].at \in 1..N
  BY <1>2, <1>3
<1>6. \A i, j \in DOMAIN w : w[i].at = w[j].at => i = j
  BY <1>1, <1>3 DEF Forest
<1>7. ASSUME NEW c \in 1..N PROVE Listed(k[c]) \cap Listed(k[Root]) = {}
  <2>1. c \in 0..N /\ c # Root
    BY <1>1
  <2>2. QED
    BY <1>1, <2>1 DEF Forest, Listed
<1>8. Ahead(w) \subseteq 1..N
  BY <1>5 DEF Ahead
<1>9. EntersOnce(w)
  BY <1>6 DEF EntersOnce
<1>10. \A c \in (1..N) \ {} : Listed(k[c]) \cap ({} \cup Ahead(w)) = {}
  BY <1>4, <1>7
<1>11. Met(k, N, w, {})
  BY <1>4, <1>8, <1>9, <1>10 DEF Met
<1>12. QED
  BY <1>3, <1>11

\* At the end of a walk every node is met, but for the one that nothing holds and what it holds
LEMMA WalkEnds ==
  ASSUME NEW N \in Nat, NEW k, NEW D, Met(k, N, <<>>, D), NEW out \in SUBSET (1..N),
         \A n \in 1..N : n \notin out => \E c \in 0..N : c < n /\ n \in Listed(k[c]),
         \A n \in out : k[n] = <<>>
  PROVE  (1..N) \ out \subseteq D
<1> DEFINE S == ((1..N) \ out) \ D
<1>1. SUFFICES ASSUME S # {} PROVE FALSE
  OBVIOUS
<1>2. PICK n \in S : \A m \in S : n <= m
  <2>1. S \in SUBSET Nat
    OBVIOUS
  <2>2. QED
    BY <1>1, <2>1, FirstExists
<1>3. PICK c \in 0..N : c < n /\ n \in Listed(k[c])
  OBVIOUS
<1>4. c \in D \cup {Root}
  <2>1. c \notin out
    BY <1>3, ListedEmpty
  <2>2. c \notin S
    BY <1>2, <1>3
  <2>3. QED
    BY <2>1, <2>2 DEF Root
<1>5. Ahead(<<>>) = {}
  BY DEF Ahead
<1>6. QED
  BY <1>3, <1>4, <1>5 DEF Met

\* The map has an entry for each label, and the last definition of it is the one
LEMMA CollectedIs ==
  ASSUME NEW s \in Seq(Nodes)
  PROVE  /\ \A i \in DOMAIN s : node[s[i]].kind # "ref" => Fold(node[s[i]].name) \in DOMAIN Collected(s)
         /\ \A l \in DOMAIN Collected(s) : \E i \in DOMAIN s :
              /\ node[s[i]].kind # "ref" /\ Fold(node[s[i]].name) = l
              /\ Collected(s)[l] = [node |-> s[i], name |-> node[s[i]].name, ix |-> 0, total |-> 0]
              /\ \A j \in DOMAIN s : node[s[j]].kind # "ref" /\ Fold(node[s[j]].name) = l => j <= i
<1> DEFINE places == {i \in DOMAIN s : node[s[i]].kind # "ref"}
           label(i) == Fold(node[s[i]].name)
           Last(l, i) == i \in places /\ label(i) = l /\ \A j \in places : label(j) = l => j <= i
           entry(d) == [node |-> d, name |-> node[d].name, ix |-> 0, total |-> 0]
           labels == {label(i) : i \in places}
<1>1. Collected(s) = [l \in labels |-> entry(s[CHOOSE i \in places : label(i) = l /\ \A j \in places : label(j) = l => j <= i])]
  BY DEF Collected
<1>2. ASSUME NEW l \in labels PROVE \E i \in places : label(i) = l /\ \A j \in places : label(j) = l => j <= i
  <2> DEFINE S == {i \in places : label(i) = l}
  <2>1. S \in SUBSET Nat /\ S # {} /\ Len(s) \in Nat /\ \A i \in S : i <= Len(s)
    OBVIOUS
  <2> HIDE DEF S
  <2>2. PICK i \in S : \A j \in S : j <= i
    BY <2>1, LastExists
  <2>3. QED
    BY <2>2 DEF S
<1> HIDE DEF label, entry, places
<1>3. ASSUME NEW l \in labels
      PROVE  \E i \in places : /\ label(i) = l /\ \A j \in places : label(j) = l => j <= i
                               /\ Collected(s)[l] = entry(s[i])
  <2> DEFINE i == CHOOSE i \in places : label(i) = l /\ \A j \in places : label(j) = l => j <= i
  <2>1. i \in places /\ label(i) = l /\ \A j \in places : label(j) = l => j <= i
    BY <1>2
  <2>2. Collected(s)[l] = entry(s[i])
    BY <1>1
  <2>3. QED
    BY <2>1, <2>2
<1>4. DOMAIN Collected(s) = labels
  BY <1>1
<1>5. QED
  BY <1>3, <1>4 DEF labels, label, entry, places

LEMMA EndOfTextIs ==
  ASSUME NotesInv, EndOfText
  PROVE  /\ phase = "reading" /\ Typed /\ Paired /\ ReadInv
         /\ Depth = 0 /\ kids' = [kids EXCEPT ![Root] = WithInline] /\ UNCHANGED <<node, removed>>
         /\ phase' = IF saw THEN "numbering" ELSE "rendering"
         /\ fdMap' = IF saw THEN Collected(WithInline) ELSE fdMap
         /\ walk' = Entries(WithInline) /\ open' = <<>> /\ defs' = <<>>
         /\ UNCHANGED <<leave, node, next, saw, nextIx, written, removed>>
BY DEF NotesInv, EndOfText

LEMMA EndOfTextWalks ==
  ASSUME NotesInv, EndOfText
  PROVE  /\ TreeInv' /\ Paired' /\ Typed'
         /\ Met(kids', Len(node'), walk', {})
         /\ \A i \in DOMAIN walk' : ~walk'[i].leaving
<1>1. TreeInv' /\ kids'[Root] = WithInline /\ WithInline \in Seq(Nodes)
  BY EndOfTextIs, JoinedTree
<1>2. Paired'
  BY EndOfTextIs DEF Paired, Nodes, IsInline
<1>3. node' = node /\ walk' = Entries(kids'[Root]) /\ Len(node) \in Nat /\ Typed /\ Nodes \subseteq Nat
  BY <1>1, EndOfTextIs, ContainersAre
<1>4. Forest(kids', Len(node'))
  BY <1>1 DEF TreeInv
<1>5. Met(kids', Len(node'), walk', {}) /\ walk' \in Seq(Entry) /\ \A i \in DOMAIN walk' : ~walk'[i].leaving
  BY <1>3, <1>4, WalkBegins
<1>6. fdMap' \in [DOMAIN fdMap' -> Fd]
  <2>1. CASE saw
    <3>1. fdMap' = Collected(WithInline)
      BY <2>1, EndOfTextIs
    <3>2. ASSUME NEW l \in DOMAIN Collected(WithInline) PROVE Collected(WithInline)[l] \in Fd
      <4>1. PICK i \in DOMAIN WithInline :
              Collected(WithInline)[l] = [node |-> WithInline[i], name |-> node[WithInline[i]].name, ix |-> 0, total |-> 0]
        BY <1>1, CollectedIs
      <4>2. WithInline[i] \in Nodes /\ WithInline[i] \in Nat
        <5>1. Listed(WithInline) \subseteq Nodes
          BY <1>1, ListedIn
        <5>2. WithInline[i] \in Listed(WithInline)
          BY DEF Listed
        <5>3. QED
          BY <1>3, <5>1, <5>2
      <4>3. node[WithInline[i]] \in NodeRec
        BY <1>3, <4>2 DEF Typed, Nodes
      <4>4. QED
        BY <4>1, <4>2, <4>3 DEF Fd, NodeRec
    <3>3. Collected(WithInline) = [l \in DOMAIN Collected(WithInline) |-> Collected(WithInline)[l]]
      BY DEF Collected
    <3>4. QED
      BY <3>1, <3>2, <3>3
  <2>2. CASE ~saw
    BY <1>3, <2>2, EndOfTextIs DEF Typed
  <2>3. QED
    BY <2>1, <2>2, EndOfTextIs DEF ReadInv, Typed
<1>7. Typed'
  BY <1>3, <1>5, <1>6, EndOfTextIs DEF Typed
<1>8. QED
  BY <1>1, <1>2, <1>5, <1>7

\* A document without footnotes
LEMMA NoFootnotes ==
  ASSUME NotesInv, EndOfText, ~saw
  PROVE  RenderInv'
<1>1. node' = <<>> /\ Nodes' = {} /\ node = <<>>
  BY EndOfTextIs DEF ReadInv, Nodes
<1>2. References' = {} /\ Definitions' = {}
  BY <1>1 DEF References, Definitions
<1>3. AllNumbered' /\ nextIx' = 0 /\ written' = Unwritten
  BY <1>1, <1>2, EndOfTextIs DEF AllNumbered, FirstUses, ReadInv
<1>4. kids'[Root] = <<>>
  <2>1. kids'[Root] = WithInline /\ WithInline \in Seq(Nodes)
    BY EndOfTextIs, JoinedTree
  <2>2. QED
    BY <1>1, <2>1 DEF Nodes
<1>5. walk' = <<>>
  BY <1>4, EndOfTextIs, JoinedTree DEF Entries
<1>6. Rendered({})'
  BY <1>2, <1>3, <1>5, EndOfTextWalks, ListedEmpty DEF Rendered, Unwritten
<1>7. Framed(0, 0)'
  BY <1>2, <1>3, <1>4, <1>5 DEF Framed, LinkedTo, Aligned, Unwritten
<1>8. QED
  BY <1>1, <1>2, <1>3, <1>6, <1>7 DEF RenderInv, Unwritten

\* Inline definitions are the last of their labels
LEMMA InlineIsLast ==
  ASSUME NotesInv, EndOfText, NEW d \in Nodes, IsInline(d)
  PROVE  /\ Fold(node[d].name) \in DOMAIN Collected(WithInline)
         /\ Collected(WithInline)[Fold(node[d].name)].node = d
<1> DEFINE s == WithInline
           l == Fold(node[d].name)
           M == Len(kids[Root])
<1>1. s \in Seq(Nodes) /\ d \in Listed(s)
  BY EndOfTextIs, JoinedTree
<1>2. /\ kids[Root] \in Seq(Nodes) /\ defs \in Seq(Nodes) /\ M \in Nat
      /\ \A i \in 1..M : s[i] \in Listed(kids[Root])
      /\ \A i \in DOMAIN s : i > M => s[i] \in Listed(defs)
  <2>1. Typed /\ ReadInv /\ Nodes = 1..Len(node) /\ Len(node) \in Nat
    BY EndOfTextIs, ContainersAre
  <2>2. kids[Root] \in Seq(Nodes)
    BY <2>1 DEF ReadInv, Forest, Root
  <2>3. defs \in Seq(Nodes)
    <3>1. defs \in Seq(Nat) /\ \A i \in DOMAIN defs : defs[i] \in Nodes
      BY <2>1 DEF Typed, ReadInv, ReadOnes
    <3>2. QED
      BY <3>1
  <2>4. s = kids[Root] \o defs
    BY DEF WithInline
  <2> HIDE DEF s
  <2>5. (\A i \in 1..M : s[i] = kids[Root][i])
        /\ \A i \in DOMAIN s : i > M => s[i] = defs[i - M] /\ i - M \in DOMAIN defs
    BY <2>2, <2>3, <2>4, ConcatIs
  <2>6. M \in Nat /\ \A i \in 1..M : i \in DOMAIN kids[Root]
    BY <2>2
  <2>7. QED
    BY <2>2, <2>3, <2>5, <2>6 DEF Listed
<1>3. \A n \in Listed(kids[Root]) : ~IsInline(n)
  <2>1. ReadInv /\ Nodes = 1..Len(node) /\ Len(node) \in Nat
    BY EndOfTextIs, ContainersAre
  <2>2. ASSUME NEW n \in Listed(kids[Root]) PROVE ~IsInline(n)
    <3>1. n \in Nodes
      BY <1>2, ListedIn
    <3>2. Held(kids, Len(node), n)
      BY <2>1 DEF Held, Root
    <3>3. QED
      BY <2>1, <3>1, <3>2 DEF ReadInv, Fresh
  <2>3. QED
    BY <2>2
<1>4. \A n \in Listed(defs) : n \in Nodes /\ IsInline(n)
  BY EndOfTextIs DEF ReadInv, ReadOnes, Listed
<1> HIDE DEF s
<1>5. PICK j \in DOMAIN s : s[j] = d
  BY <1>1 DEF Listed
<1>6. j > M /\ j \in Nat
  BY <1>1, <1>2, <1>3, <1>5
<1>7. node[d].kind # "ref" /\ l \in DOMAIN Collected(s)
  <2>1. node[s[j]].kind # "ref"
    BY <1>5 DEF IsInline
  <2>2. QED
    BY <1>1, <1>5, <2>1, CollectedIs
<1>8. PICK i \in DOMAIN s :
        /\ node[s[i]].kind # "ref" /\ Fold(node[s[i]].name) = l
        /\ Collected(s)[l] = [node |-> s[i], name |-> node[s[i]].name, ix |-> 0, total |-> 0]
        /\ \A k \in DOMAIN s : node[s[k]].kind # "ref" /\ Fold(node[s[k]].name) = l => k <= i
  BY <1>1, <1>7, CollectedIs
<1>9. j <= i /\ i \in Nat
  BY <1>1, <1>5, <1>7, <1>8
<1>10. s[i] \in Nodes /\ IsInline(s[i])
  BY <1>2, <1>4, <1>6, <1>8, <1>9
<1>11. node[s[i]].name = node[d].name
  <2>1. node[s[i]] \in NodeRec /\ node[d] \in NodeRec
    BY <1>10, EndOfTextIs DEF Typed, Nodes
  <2>2. node[s[i]].name.caps = FALSE /\ node[d].name.caps = FALSE
    BY <1>10, EndOfTextIs DEF Paired
  <2>3. node[s[i]].name.base = node[d].name.base /\ node[s[i]].name.n = node[d].name.n
    BY <1>8 DEF Fold
  <2>4. node[s[i]].name \in AnyName /\ node[d].name \in AnyName
    BY <2>1 DEF NodeRec
  <2>5. QED
    BY <2>2, <2>3, <2>4 DEF AnyName
<1>12. s[i] = d
  BY <1>10, <1>11, EndOfTextIs DEF Paired
<1>13. QED
  BY <1>7, <1>8, <1>12 DEF s

LEMMA EndOfTextLabels ==
  ASSUME NotesInv, EndOfText, saw, NEW l \in DOMAIN fdMap'
  PROVE  Labelled(l)' /\ fdMap'[l].ix = 0
<1> DEFINE s == WithInline
<1>1. s \in Seq(Nodes) /\ kids'[Root] = s
  BY EndOfTextIs, JoinedTree
<1>2. fdMap' = Collected(s) /\ node' = node
  BY EndOfTextIs
<1> HIDE DEF s
<1>3. PICK d \in Listed(s) :
        /\ node[d].kind # "ref" /\ Fold(node[d].name) = l
        /\ Collected(s)[l] = [node |-> d, name |-> node[d].name, ix |-> 0, total |-> 0]
  BY <1>1, <1>2, CollectedIs DEF Listed
<1>4. d \in Nodes
  BY <1>1, ListedIn
<1>5. IsDefinition(d)'
  <2>1. node[d] \in NodeRec /\ node[d].kind # "text"
    BY <1>4, EndOfTextIs DEF Typed, Nodes, ReadInv, Fresh
  <2>2. QED
    BY <1>2, <1>3, <2>1 DEF NodeRec, IsDefinition
<1>6. \A name : CountsTo(name, 0)'
  <2>1. \A r \in Nodes : node[r].num = 0
    BY EndOfTextIs DEF ReadInv, Fresh
  <2>2. QED
    BY <1>2, <2>1 DEF CountsTo, References, Nodes
<1>7. fdMap'[l].node = d /\ fdMap'[l].name = node[d].name /\ fdMap'[l].ix = 0 /\ fdMap'[l].total = 0
  BY <1>2, <1>3
<1>8. nextIx' \in Nat
  BY EndOfTextIs DEF Typed
<1>9. d \in Listed(kids'[Root])
  BY <1>1
<1>10. CountsTo(fdMap[l].name, fdMap[l].total)'
  BY <1>6, <1>7
<1>11. QED
  BY <1>2, <1>3, <1>5, <1>7, <1>8, <1>9, <1>10 DEF Labelled

LEMMA FootnotesSeen ==
  ASSUME NotesInv, EndOfText, saw
  PROVE  NumberInv'
<1>1. /\ Typed /\ Paired /\ ReadInv /\ node' = node /\ fdMap' = Collected(WithInline)
      /\ removed' = {} /\ written' = Unwritten /\ nextIx' = 0
  BY EndOfTextIs DEF ReadInv
<1>2. /\ TreeInv' /\ kids'[Root] = WithInline /\ WithInline \in Seq(Nodes)
      /\ \A d \in Nodes : IsInline(d) => d \in Listed(kids'[Root])
  BY EndOfTextIs, JoinedTree
<1>3. \A l \in DOMAIN fdMap' : Labelled(l)' /\ fdMap'[l].ix = 0
  BY EndOfTextLabels
<1>4. OwnIx'
  BY <1>3 DEF OwnIx
<1>5. ASSUME NEW n \in Listed(kids'[Root]), IsDefinition(n)' PROVE Fold(node'[n].name) \in DOMAIN fdMap'
  <2>1. PICK i \in DOMAIN WithInline : WithInline[i] = n
    BY <1>2 DEF Listed
  <2>2. node[WithInline[i]].kind # "ref"
    BY <1>1, <1>5, <2>1 DEF IsDefinition
  <2>3. QED
    BY <1>1, <1>2, <2>1, <2>2, CollectedIs
<1>6. \A d \in Nodes' : IsInline(d)' => d \in Listed(kids'[Root]) /\ fdMap'[Fold(node'[d].name)].node = d
  BY <1>1, <1>2, InlineIsLast DEF Nodes, IsInline
<1>7. \A n \in Nodes' : node'[n].num = 0 /\ node'[n].kind # "text"
  BY <1>1 DEF ReadInv, Fresh, Nodes
<1>8. (\A d \in Definitions' : node'[d].num = 0) /\ \A r \in References' : node'[r].num = 0
  BY <1>7 DEF Definitions, References
<1>9. NoInlines' => TextOrder(kids', Len(node'))
  <2>1. SUFFICES ASSUME NoInlines' PROVE TextOrder(kids', Len(node))
    BY <1>1
  <2>2. defs = <<>>
    <3>1. \A i \in DOMAIN defs : FALSE
      BY <1>1, <2>1 DEF NoInlines, ReadInv, ReadOnes, Nodes, IsInline
    <3>2. defs \in Seq(Nat)
      BY <1>1 DEF Typed
    <3>3. ~(Len(defs) > 0)
      BY <3>1, <3>2
    <3>4. QED
      BY <3>2, <3>3
  <2>3. kids[Root] \in Seq(1..Len(node)) /\ kids \in [0..Len(node) -> Seq(1..Len(node))]
    BY <1>1, ContainersAre DEF ReadInv, Forest, Root
  <2>4. WithInline = kids[Root]
    BY <2>2, <2>3 DEF WithInline
  <2>5. kids' = kids
    BY <2>3, <2>4, EndOfTextIs
  <2>6. QED
    BY <1>1, <2>5 DEF ReadInv
<1>10. NoInlines' => MetInOrder({})'
  <2>1. SUFFICES ASSUME NoInlines' PROVE MetInOrder({})'
    OBVIOUS
  <2>2. TextOrder(kids', Len(node'))
    BY <1>9, <2>1
  <2>3. ASSUME NEW i \in DOMAIN walk', NEW j \in DOMAIN walk', i < j PROVE walk'[i].at < walk'[j].at
    <3>1. walk' = Entries(kids'[Root]) /\ kids'[Root] \in Seq(Nat)
      <4>1. Nodes \subseteq Nat
        BY <1>1, ContainersAre
      <4>2. WithInline \in Seq(Nat)
        BY <1>2, <4>1, SeqWidens
      <4>3. walk' = Entries(WithInline)
        BY EndOfTextIs
      <4>4. QED
        BY <1>2, <4>2, <4>3
    <3>2. i \in DOMAIN kids'[Root] /\ j \in DOMAIN kids'[Root] /\ walk'[i].at = kids'[Root][i] /\ walk'[j].at = kids'[Root][j]
      BY <3>1, EntriesAre
    <3>3. Root \in 0..Len(node')
      BY <1>1, ContainersAre DEF Root
    <3>4. QED
      BY <2>2, <2>3, <3>2, <3>3 DEF TextOrder
  <2>4. FirstUses'
    BY <1>8 DEF FirstUses
  <2>5. QED
    BY <2>2, <2>3, <2>4 DEF MetInOrder
<1>11. Counted({})'
  BY <1>7, <1>10, EndOfTextWalks DEF Counted
<1>12. \E D \in SUBSET Nodes' : Counted(D)'
  BY <1>11
<1>13. \A i \in 1..nextIx' : FALSE
  BY <1>1
<1>14. \A r \in References' : node'[r].num > 0 => Shows(r)'
  BY <1>8
<1>15. QED
  BY <1>1, <1>3, <1>4, <1>5, <1>6, <1>8, <1>12, <1>13, <1>14 DEF NumberInv

LEMMA EndOfTextKeeps == ASSUME NotesInv, EndOfText PROVE NotesInv'
<1>1. TreeInv' /\ Paired' /\ Typed'
  BY EndOfTextWalks
<1>2. CASE saw
  <2>1. phase' = "numbering" /\ NumberInv'
    BY <1>2, EndOfTextIs, FootnotesSeen
  <2>2. QED
    BY <1>1, <2>1 DEF NotesInv
<1>3. CASE ~saw
  <2>1. phase' = "rendering" /\ RenderInv'
    BY <1>3, EndOfTextIs, NoFootnotes
  <2>2. QED
    BY <1>1, <2>1 DEF NotesInv
<1>4. QED
  BY <1>2, <1>3

(***************************************************************************)
(* The steps of a walk                                                     *)
(***************************************************************************)
LEMMA RestIs ==
  ASSUME NEW S, NEW w \in Seq(S), w # <<>>, NEW v, v = SubSeq(w, 2, Len(w))
  PROVE  /\ v \in Seq(S) /\ Len(v) = Len(w) - 1 /\ Len(w) \in Nat \ {0} /\ 1 \in DOMAIN w
         /\ DOMAIN v = 1..(Len(w) - 1) /\ DOMAIN w = 1..Len(w)
         /\ \A i \in DOMAIN v : v[i] = w[i + 1] /\ i + 1 \in DOMAIN w
<1>1. Len(w) \in Nat \ {0} /\ 1 \in DOMAIN w /\ DOMAIN w = 1..Len(w)
  OBVIOUS
<1>2. v \in Seq(S) /\ Len(v) = Len(w) - 1 /\ \A i \in 1..(Len(w) - 1) : v[i] = w[i + 1]
  BY <1>1
<1>3. DOMAIN v = 1..(Len(w) - 1)
  BY <1>2
<1>4. \A i \in 1..(Len(w) - 1) : i + 1 \in 1..Len(w)
  BY <1>1
<1>5. QED
  BY <1>1, <1>2, <1>3, <1>4

\* The rest of the walk of a state
LEMMA WalkRest ==
  ASSUME walk \in Seq(Entry), walk # <<>>
  PROVE  /\ Rest \in Seq(Entry) /\ Len(Rest) = Len(walk) - 1 /\ Len(walk) \in Nat \ {0} /\ 1 \in DOMAIN walk
         /\ DOMAIN Rest = 1..(Len(walk) - 1) /\ DOMAIN walk = 1..Len(walk)
         /\ \A i \in DOMAIN Rest : Rest[i] = walk[i + 1] /\ i + 1 \in DOMAIN walk
<1>1. PICK S, w, v : S = Entry /\ w = walk /\ v = SubSeq(w, 2, Len(w))
  OBVIOUS
<1>2. w \in Seq(S) /\ w # <<>>
  BY <1>1
<1>3. v = SubSeq(w, 2, Len(w))
  BY <1>1
<1>4. Len(w) \in Nat \ {0} /\ 1 \in DOMAIN w /\ DOMAIN w = 1..Len(w)
  BY <1>2
<1>5. v \in Seq(S) /\ Len(v) = Len(w) - 1 /\ \A i \in 1..(Len(w) - 1) : v[i] = w[i + 1]
  BY <1>2, <1>3, <1>4
<1>6. DOMAIN v = 1..(Len(w) - 1)
  BY <1>5
<1>7. \A i \in 1..(Len(w) - 1) : i + 1 \in 1..Len(w)
  BY <1>4
<1>8. /\ v \in Seq(S) /\ Len(v) = Len(w) - 1 /\ Len(w) \in Nat \ {0} /\ 1 \in DOMAIN w
      /\ DOMAIN v = 1..(Len(w) - 1) /\ DOMAIN w = 1..Len(w)
      /\ \A i \in DOMAIN v : v[i] = w[i + 1] /\ i + 1 \in DOMAIN w
  BY <1>4, <1>5, <1>6, <1>7
<1>9. QED
  BY <1>1, <1>8 DEF Rest

LEMMA RestAhead ==
  ASSUME NEW w \in Seq(Entry), w # <<>>, NEW v, v = SubSeq(w, 2, Len(w)), EntersOnce(w)
  PROVE  /\ EntersOnce(v)
         /\ w[1].leaving => Ahead(v) = Ahead(w)
         /\ ~w[1].leaving => w[1].at \in Ahead(w) /\ Ahead(v) = Ahead(w) \ {w[1].at}
<1>1. /\ DOMAIN v = 1..(Len(w) - 1) /\ DOMAIN w = 1..Len(w) /\ Len(w) \in Nat \ {0} /\ 1 \in DOMAIN w
      /\ \A i \in DOMAIN v : v[i] = w[i + 1] /\ i + 1 \in DOMAIN w
  BY RestIs
<1> HIDE DEF Entry
<1>2. \A i \in DOMAIN w : i # 1 => i - 1 \in DOMAIN v /\ (i - 1) + 1 = i
  BY <1>1
<1>3. EntersOnce(v)
  <2>1. ASSUME NEW i \in DOMAIN v, NEW j \in DOMAIN v, ~v[i].leaving, ~v[j].leaving, v[i].at = v[j].at
        PROVE  i = j
    <3>1. i + 1 = j + 1
      BY <1>1, <2>1 DEF EntersOnce
    <3>2. i \in Nat /\ j \in Nat
      BY <1>1
    <3>3. QED
      BY <3>1, <3>2
  <2>2. QED
    BY <2>1 DEF EntersOnce
<1>4. \A i \in DOMAIN w : i # 1 => v[i - 1] = w[i]
  BY <1>1, <1>2
<1>5. Ahead(v) \subseteq Ahead(w)
  BY <1>1 DEF Ahead
<1>6. ASSUME NEW i \in DOMAIN w, i # 1, ~w[i].leaving PROVE w[i].at \in Ahead(v)
  BY <1>2, <1>4, <1>6 DEF Ahead
<1>7. ASSUME ~w[1].leaving, NEW i \in DOMAIN v, ~v[i].leaving PROVE v[i].at # w[1].at
  <2>1. v[i] = w[i + 1] /\ i + 1 \in DOMAIN w /\ i + 1 # 1
    BY <1>1
  <2>2. QED
    BY <1>1, <1>7, <2>1 DEF EntersOnce
<1>8. CASE w[1].leaving
  BY <1>3, <1>5, <1>6, <1>8 DEF Ahead
<1>9. CASE ~w[1].leaving
  <2>1. w[1].at \in Ahead(w)
    BY <1>1, <1>9 DEF Ahead
  <2>2. w[1].at \notin Ahead(v)
    BY <1>7, <1>9 DEF Ahead
  <2>3. \A x \in Ahead(w) : x = w[1].at \/ x \in Ahead(v)
    BY <1>6 DEF Ahead
  <2>4. QED
    BY <1>3, <1>5, <1>9, <2>1, <2>2, <2>3
<1>10. QED
  BY <1>8, <1>9

\* The walk u enters the nodes of e and goes on as v
GoesOn(u, e, v) ==
  /\ DOMAIN u = 1..(Len(e) + Len(v)) /\ DOMAIN e = 1..Len(e) /\ DOMAIN v = 1..Len(v)
  /\ Len(e) \in Nat /\ Len(v) \in Nat
  /\ \A i \in DOMAIN e : i \in DOMAIN u /\ u[i].at = e[i] /\ ~u[i].leaving
  /\ \A i \in DOMAIN v : Len(e) + i \in DOMAIN u /\ u[Len(e) + i] = v[i]
  /\ \A i \in DOMAIN u : \/ i \in DOMAIN e /\ u[i].at = e[i] /\ ~u[i].leaving
                         \/ i > Len(e) /\ u[i] = v[i - Len(e)] /\ i - Len(e) \in DOMAIN v

LEMMA EntriesPlaces ==
  ASSUME NEW e \in Seq(Nat), NEW v \in Seq(Entry), NEW u, u = Entries(e) \o v
  PROVE  u \in Seq(Entry) /\ GoesOn(u, e, v)
<1> DEFINE a == Entries(e)
           M == Len(e)
<1>1. /\ a \in Seq(Entry) /\ Len(a) = M /\ M \in Nat /\ DOMAIN e = 1..M
      /\ \A i \in 1..M : a[i].at = e[i] /\ ~a[i].leaving
  BY EntriesAre
<1>2. u = a \o v
  OBVIOUS
<1> HIDE DEF a
<1>3. /\ u \in Seq(Entry) /\ DOMAIN u = 1..(M + Len(v)) /\ Len(v) \in Nat /\ DOMAIN v = 1..Len(v)
      /\ \A i \in 1..M : u[i] = a[i]
      /\ \A i \in 1..Len(v) : u[M + i] = v[i]
      /\ \A i \in DOMAIN u : i > M => u[i] = v[i - M] /\ i - M \in DOMAIN v
  <2>1. Len(a) = M /\ a \in Seq(Entry)
    BY <1>1
  <2> HIDE DEF M
  <2>2. /\ u \in Seq(Entry) /\ DOMAIN u = 1..(Len(a) + Len(v))
        /\ \A i \in 1..Len(a) : u[i] = a[i]
        /\ \A i \in 1..Len(v) : u[Len(a) + i] = v[i]
        /\ \A i \in DOMAIN u : i > Len(a) => u[i] = v[i - Len(a)] /\ i - Len(a) \in DOMAIN v
    BY <1>2, <2>1, ConcatIs, SMTT(30)
  <2>3. Len(v) \in Nat /\ DOMAIN v = 1..Len(v)
    OBVIOUS
  <2>4. QED
    BY <2>1, <2>2, <2>3
<1> HIDE DEF M
<1>4. ASSUME NEW i \in DOMAIN u
      PROVE  \/ i \in DOMAIN e /\ u[i].at = e[i] /\ ~u[i].leaving
             \/ i > M /\ u[i] = v[i - M] /\ i - M \in DOMAIN v
  <2>1. i \in Nat /\ i > 0
    BY <1>1, <1>3
  <2>2. i \in 1..M \/ i > M
    BY <1>1, <2>1
  <2>3. QED
    BY <1>1, <1>3, <2>2
<1>5. ASSUME NEW i \in DOMAIN e PROVE i \in DOMAIN u /\ u[i].at = e[i] /\ ~u[i].leaving
  <2>1. i \in 1..M /\ i \in 1..(M + Len(v))
    BY <1>1, <1>3
  <2>2. u[i] = a[i]
    BY <1>3, <2>1
  <2>3. QED
    BY <1>1, <1>3, <2>1, <2>2
<1>6. ASSUME NEW i \in DOMAIN v PROVE M + i \in DOMAIN u /\ u[M + i] = v[i]
  <2>1. i \in 1..Len(v) /\ M + i \in 1..(M + Len(v))
    BY <1>1, <1>3
  <2>2. QED
    BY <1>3, <2>1
<1>7. QED
  BY <1>1, <1>3, <1>4, <1>5, <1>6 DEF M, GoesOn

\* These nodes are entered before the rest
LEMMA EntriesAhead ==
  ASSUME NEW e \in Seq(Nat), \A i, j \in DOMAIN e : e[i] = e[j] => i = j,
         NEW v \in Seq(Entry), EntersOnce(v), Listed(e) \cap Ahead(v) = {},
         NEW u, u = Entries(e) \o v
  PROVE  u \in Seq(Entry) /\ EntersOnce(u) /\ Ahead(u) = Listed(e) \cup Ahead(v)
<1>1. u \in Seq(Entry) /\ GoesOn(u, e, v)
  BY EntriesPlaces
<1>2. /\ DOMAIN u = 1..(Len(e) + Len(v)) /\ Len(e) \in Nat /\ Len(v) \in Nat /\ DOMAIN e = 1..Len(e)
      /\ \A i \in DOMAIN e : i \in DOMAIN u /\ u[i].at = e[i] /\ ~u[i].leaving
      /\ \A i \in DOMAIN v : Len(e) + i \in DOMAIN u /\ u[Len(e) + i] = v[i]
      /\ \A i \in DOMAIN u : \/ i \in DOMAIN e /\ u[i].at = e[i] /\ ~u[i].leaving
                             \/ i > Len(e) /\ u[i] = v[i - Len(e)] /\ i - Len(e) \in DOMAIN v
  BY <1>1 DEF GoesOn
<1>3. EntersOnce(u)
  <2>1. ASSUME NEW i \in DOMAIN u, NEW j \in DOMAIN u, ~u[i].leaving, ~u[j].leaving, u[i].at = u[j].at
        PROVE  i = j
    <3>1. CASE i \in DOMAIN e /\ u[i].at = e[i]
      <4>1. u[j].at \in Listed(e)
        BY <2>1, <3>1 DEF Listed
      <4>2. ~(j > Len(e) /\ u[j] = v[j - Len(e)] /\ j - Len(e) \in DOMAIN v)
        BY <2>1, <4>1 DEF Ahead
      <4>3. j \in DOMAIN e /\ u[j].at = e[j]
        BY <1>2, <4>2
      <4>4. QED
        BY <2>1, <3>1, <4>3
    <3>2. CASE i > Len(e) /\ u[i] = v[i - Len(e)] /\ i - Len(e) \in DOMAIN v
      <4>1. u[i].at \in Ahead(v)
        BY <2>1, <3>2 DEF Ahead
      <4>2. ~(j \in DOMAIN e /\ u[j].at = e[j])
        BY <2>1, <4>1 DEF Listed
      <4>3. j > Len(e) /\ u[j] = v[j - Len(e)] /\ j - Len(e) \in DOMAIN v
        BY <1>2, <4>2
      <4>4. i - Len(e) = j - Len(e)
        BY <2>1, <3>2, <4>3 DEF EntersOnce
      <4>5. i \in Nat /\ j \in Nat
        BY <1>2
      <4>6. QED
        BY <1>2, <4>4, <4>5
    <3>3. QED
      BY <1>2, <3>1, <3>2
  <2>2. QED
    BY <2>1 DEF EntersOnce
<1>4. Ahead(u) \subseteq Listed(e) \cup Ahead(v)
  BY <1>2 DEF Ahead, Listed
<1>5. Listed(e) \subseteq Ahead(u)
  <2>1. \A i \in DOMAIN e : e[i] \in Ahead(u)
    BY <1>2, Zenon DEF Ahead
  <2>2. QED
    BY <2>1 DEF Listed
<1>6. Ahead(v) \subseteq Ahead(u)
  <2>1. ASSUME NEW i \in DOMAIN v, ~v[i].leaving PROVE v[i].at \in Ahead(u)
    <3>1. Len(e) + i \in DOMAIN u /\ u[Len(e) + i] = v[i]
      BY <1>2
    <3>2. QED
      BY <2>1, <3>1 DEF Ahead
  <2>2. QED
    BY <2>1 DEF Ahead
<1>7. QED
  BY <1>1, <1>3, <1>4, <1>5, <1>6

\* The node on top is met, and its children are ahead
LEMMA MetEnters ==
  ASSUME NEW N \in Nat, NEW k, Forest(k, N), NEW w, NEW D, Met(k, N, w, D), NEW t \in Ahead(w),
         NEW u, EntersOnce(u), Ahead(u) = (Ahead(w) \ {t}) \cup Listed(k[t])
  PROVE  Met(k, N, u, D \cup {t})
<1>1. D \subseteq 1..N /\ Ahead(w) \subseteq (1..N) \ D /\ t \in (1..N) \ D
  BY DEF Met
<1>2. t \in 0..N /\ Listed(k[t]) \subseteq 1..N /\ t \notin Listed(k[t])
  <2>1. t \in 0..N
    BY <1>1
  <2>2. k[t] \in Seq(1..N) /\ \A n \in Listed(k[t]) : t < n
    BY <2>1 DEF Forest
  <2>3. QED
    BY <2>1, <2>2, ListedIn
<1>3. Listed(k[t]) \cap (D \cup Ahead(w)) = {}
  BY <1>1 DEF Met
<1>4. Ahead(u) \subseteq (1..N) \ (D \cup {t})
  BY <1>1, <1>2, <1>3
<1>5. ASSUME NEW c \in D \cup {t} \cup {Root} PROVE Listed(k[c]) \subseteq D \cup {t} \cup Ahead(u)
  <2>1. CASE c = t
    BY <2>1
  <2>2. CASE c # t
    BY <2>2 DEF Met
  <2>3. QED
    BY <2>1, <2>2
<1>6. ASSUME NEW c \in (1..N) \ (D \cup {t}) PROVE Listed(k[c]) \cap (D \cup {t} \cup Ahead(u)) = {}
  <2>1. Listed(k[c]) \cap (D \cup Ahead(w)) = {}
    BY DEF Met
  <2>2. Listed(k[c]) \cap Listed(k[t]) = {}
    <3>1. c \in 0..N /\ c # t
      OBVIOUS
    <3>2. QED
      BY <1>2, <3>1 DEF Forest, Listed
  <2>3. QED
    BY <2>1, <2>2
<1>7. QED
  BY <1>1, <1>4, <1>5, <1>6 DEF Met

LEMMA NumberingIs ==
  ASSUME NotesInv, phase = "numbering"
  PROVE  /\ Typed /\ Paired /\ TreeInv /\ NumberInv
         /\ Nodes = 1..Len(node) /\ Containers = 0..Len(node) /\ Len(node) \in Nat
         /\ Forest(kids, Len(node))
         /\ \A n \in Nodes : \E c \in Containers : c < n /\ n \in Listed(kids[c])
<1>1. Typed /\ Paired /\ TreeInv /\ NumberInv
  BY DEF NotesInv
<1>2. Nodes = 1..Len(node) /\ Containers = 0..Len(node) /\ Len(node) \in Nat
  BY <1>1, ContainersAre
<1>3. Forest(kids, Len(node))
  BY <1>1 DEF TreeInv
<1>4. ASSUME NEW n \in Nodes PROVE \E c \in Containers : c < n /\ n \in Listed(kids[c])
  <2>1. Held(kids, Len(node), n)
    BY <1>1 DEF TreeInv, NumberInv
  <2>2. PICK c \in Containers : n \in Listed(kids[c])
    BY <1>2, <2>1 DEF Held
  <2>3. c < n
    BY <1>2, <1>3, <2>2 DEF Forest
  <2>4. QED
    BY <2>2, <2>3
<1>5. QED
  BY <1>1, <1>2, <1>3, <1>4

\* The walk meets the node on top, its children come next
LEMMA WalkGoesOn ==
  ASSUME NotesInv, phase = "numbering", walk # <<>>, NEW D, Counted(D),
         NEW e, e = kids[Top], NEW u, u = Entries(e) \o Rest
  PROVE  /\ Top \in Nodes \ D /\ u \in Seq(Entry)
         /\ Met(kids, Len(node), u, D \cup {Top})
         /\ \A i \in DOMAIN u : ~u[i].leaving
<1> DEFINE t == Top
           v == Rest
<1>1. /\ Forest(kids, Len(node)) /\ Nodes = 1..Len(node) /\ Containers = 0..Len(node) /\ Len(node) \in Nat
      /\ walk \in Seq(Entry)
  BY NumberingIs DEF Typed
<1>2. Met(kids, Len(node), walk, D) /\ \A i \in DOMAIN walk : ~walk[i].leaving
  BY DEF Counted
<1>3. v = SubSeq(walk, 2, Len(walk)) /\ t = walk[1].at
  BY DEF Rest, Top
<1> HIDE DEF t, v
<1>4. /\ v \in Seq(Entry) /\ 1 \in DOMAIN walk
      /\ \A i \in DOMAIN v : v[i] = walk[i + 1] /\ i + 1 \in DOMAIN walk
  BY <1>1, <1>3, RestIs
<1>5. EntersOnce(walk) /\ Ahead(walk) \subseteq Nodes \ D
  BY <1>1, <1>2 DEF Met
<1>6. EntersOnce(v) /\ t \in Ahead(walk) /\ Ahead(v) = Ahead(walk) \ {t}
  <2>1. ~walk[1].leaving /\ walk \in Seq(Entry) /\ walk # <<>>
    BY <1>1, <1>2, <1>4
  <2>2. EntersOnce(v) /\ walk[1].at \in Ahead(walk) /\ Ahead(v) = Ahead(walk) \ {walk[1].at}
    BY <1>3, <1>5, <2>1, RestAhead, ZenonT(30)
  <2>3. QED
    BY <1>3, <2>2
<1>7. t \in Nodes \ D /\ t \in Containers
  BY <1>1, <1>5, <1>6
<1>8. e \in Seq(Nat) /\ (\A i, j \in DOMAIN e : e[i] = e[j] => i = j) /\ Listed(e) \cap Ahead(walk) = {}
  <2>1. e = kids[t] /\ e \in Seq(Nodes)
    BY <1>1, <1>7 DEF Forest, t
  <2>2. e \in Seq(Nat)
    BY <1>1, <2>1, SeqWidens
  <2>3. \A i, j \in DOMAIN e : e[i] = e[j] => i = j
    BY <1>1, <1>7, <2>1 DEF Forest
  <2>4. Listed(e) \cap Ahead(walk) = {}
    BY <1>1, <1>2, <1>7, <2>1 DEF Met
  <2>5. QED
    BY <2>2, <2>3, <2>4
<1>9. u \in Seq(Entry) /\ EntersOnce(u) /\ Ahead(u) = Listed(e) \cup Ahead(v)
  <2>1. u = Entries(e) \o v
    BY DEF v
  <2>2. Listed(e) \cap Ahead(v) = {}
    BY <1>6, <1>8
  <2>3. QED
    BY <1>4, <1>6, <1>8, <2>1, <2>2, EntriesAhead
<1>10. Met(kids, Len(node), u, D \cup {t})
  <2>1. e = kids[t] /\ Ahead(u) = (Ahead(walk) \ {t}) \cup Listed(kids[t])
    BY <1>6, <1>9 DEF t
  <2>2. QED
    BY <1>1, <1>2, <1>6, <1>9, <2>1, MetEnters
<1>11. \A i \in DOMAIN u : ~u[i].leaving
  <2>1. \A i \in DOMAIN v : ~v[i].leaving
    BY <1>2, <1>4
  <2>2. u = Entries(e) \o v
    BY DEF v
  <2>3. \A i \in DOMAIN u : ~u[i].leaving \/ (u[i] = v[i - Len(e)] /\ i - Len(e) \in DOMAIN v)
    <3>1. GoesOn(u, e, v)
      BY <1>4, <1>8, <2>2, EntriesPlaces
    <3>2. QED
      BY <3>1 DEF GoesOn
  <2>4. QED
    BY <2>1, <2>3
<1>12. QED
  BY <1>7, <1>9, <1>10, <1>11 DEF t

\* In a document without inline notes the node on top is the first that the walk has not met
LEMMA TopIsFirst ==
  ASSUME NotesInv, phase = "numbering", walk # <<>>, NEW D, Counted(D), NoInlines
  PROVE  \A m \in Nodes \ D : Top <= m
<1>1. /\ Nodes = 1..Len(node) /\ Containers = 0..Len(node) /\ Len(node) \in Nat /\ walk \in Seq(Entry)
      /\ \A n \in Nodes : \E c \in Containers : c < n /\ n \in Listed(kids[c])
  BY NumberingIs DEF Typed
<1>2. Met(kids, Len(node), walk, D) /\ MetInOrder(D)
  BY DEF Counted
<1>3. Top \in Nodes \ D
  BY WalkGoesOn
<1>4. PICK m \in Nodes \ D : \A n \in Nodes \ D : m <= n
  <2>1. Nodes \ D \in SUBSET Nat /\ Nodes \ D # {}
    BY <1>1, <1>3
  <2>2. QED
    BY <2>1, FirstExists
<1>5. PICK c \in Containers : c < m /\ m \in Listed(kids[c])
  BY <1>1
<1>6. c \in D \cup {Root}
  BY <1>1, <1>4, <1>5 DEF Root
<1>7. m \in Ahead(walk)
  BY <1>2, <1>5, <1>6 DEF Met
<1>8. PICK i \in DOMAIN walk : walk[i].at = m
  BY <1>7 DEF Ahead
<1>9. 1 \in DOMAIN walk /\ DOMAIN walk = 1..Len(walk) /\ Len(walk) \in Nat
  BY <1>1, <1>8
<1>10. Top <= m
  <2>1. CASE i = 1
    BY <1>1, <1>3, <1>8, <2>1 DEF Top
  <2>2. CASE i # 1
    <3>1. 1 < i
      BY <1>9, <2>2
    <3>2. walk[1].at < walk[i].at
      BY <1>2, <1>9, <3>1 DEF MetInOrder
    <3>3. QED
      BY <1>1, <1>3, <1>8, <3>2 DEF Top
  <2>3. QED
    BY <2>1, <2>2
<1>11. QED
  BY <1>1, <1>3, <1>4, <1>10

\* What the walk has ahead after the node on top was made after what that node holds
LEMMA RestIsAfter ==
  ASSUME NotesInv, phase = "numbering", walk # <<>>, NEW D, Counted(D), NoInlines,
         NEW x \in Listed(kids[Top]), NEW j \in DOMAIN walk, j > 1
  PROVE  x < walk[j].at
<1> DEFINE t == Top
           y == walk[j].at
<1>1. /\ Nodes = 1..Len(node) /\ Containers = 0..Len(node) /\ Len(node) \in Nat /\ walk \in Seq(Entry)
      /\ \A n \in Nodes : \E c \in Containers : c < n /\ n \in Listed(kids[c])
      /\ Forest(kids, Len(node))
  BY NumberingIs DEF Typed
<1>2. Met(kids, Len(node), walk, D) /\ MetInOrder(D) /\ \A i \in DOMAIN walk : ~walk[i].leaving
  BY DEF Counted
<1>3. t \in Nodes \ D /\ \A m \in Nodes \ D : t <= m
  BY TopIsFirst, WalkGoesOn
<1>4. y \in Ahead(walk) /\ y \in Nodes \ D /\ t < y
  <2>1. y \in Ahead(walk)
    BY <1>2 DEF Ahead
  <2>2. y \in Nodes \ D
    BY <1>1, <1>2, <2>1 DEF Met
  <2>3. 1 \in DOMAIN walk /\ 1 < j
    BY <1>1
  <2>4. walk[1].at < walk[j].at
    BY <1>2, <2>3 DEF MetInOrder
  <2>5. QED
    BY <2>1, <2>2, <2>4 DEF Top
<1>5. x \in Nodes /\ x # y
  <2>1. x \in Nodes
    <3>1. t \in Containers
      BY <1>1, <1>3
    <3>2. kids[t] \in Seq(Nodes)
      BY <1>1, <3>1 DEF Forest
    <3>3. QED
      BY <3>2, ListedIn
  <2>2. Listed(kids[t]) \cap Ahead(walk) = {}
    BY <1>1, <1>2, <1>3 DEF Met
  <2>3. QED
    BY <1>4, <2>1, <2>2
<1> HIDE DEF t, y
<1>6. ~(y < x)
  <2>1. SUFFICES ASSUME y < x PROVE FALSE
    OBVIOUS
  <2>2. PICK b \in Containers : b < y /\ y \in Listed(kids[b])
    BY <1>1, <1>4
  <2>3. x \in Listed(kids[t]) /\ t \in Containers
    BY <1>1, <1>3 DEF t
  <2>4. t <= b
    BY <1>1, <1>2, <1>4, <2>1, <2>2, <2>3 DEF MetInOrder, TextOrder
  <2>5. b \in D \cup {Root}
    <3>1. b \in Nodes \/ b = Root
      BY <2>2 DEF Containers
    <3>2. b \in Nodes \ D => y \notin Listed(kids[b])
      BY <1>1, <1>2, <1>4 DEF Met
    <3>3. QED
      BY <2>2, <3>1, <3>2
  <2>6. b < t
    <3>1. CASE b \in D
      BY <1>2, <1>3, <3>1 DEF MetInOrder
    <3>2. CASE b = Root
      BY <1>1, <1>3, <3>2 DEF Root
    <3>3. QED
      BY <2>5, <3>1, <3>2
  <2>7. b \in Nat /\ t \in Nat
    BY <1>1, <1>3, <2>2
  <2>8. QED
    BY <2>4, <2>6, <2>7
<1>7. x \in Nat /\ y \in Nat
  BY <1>1, <1>4, <1>5
<1>8. QED
  BY <1>5, <1>6, <1>7 DEF y

LEMMA WalkStaysInOrder ==
  ASSUME NotesInv, phase = "numbering", walk # <<>>, NEW D, Counted(D), NoInlines,
         NEW e, e = kids[Top], NEW u, u = Entries(e) \o Rest
  PROVE  /\ \A n \in D \cup {Top}, m \in Nodes \ (D \cup {Top}) : n < m
         /\ \A i, j \in DOMAIN u : i < j => u[i].at < u[j].at
<1> DEFINE v == Rest
<1>1. /\ Nodes = 1..Len(node) /\ Containers = 0..Len(node) /\ Len(node) \in Nat /\ walk \in Seq(Entry)
      /\ Forest(kids, Len(node))
  BY NumberingIs DEF Typed
<1>2. MetInOrder(D)
  BY DEF Counted
<1>3. Top \in Nodes \ D /\ \A m \in Nodes \ D : Top <= m
  BY TopIsFirst, WalkGoesOn
<1>4. ASSUME NEW n \in D \cup {Top}, NEW m \in Nodes \ (D \cup {Top}) PROVE n < m
  <2>1. CASE n \in D
    BY <1>2, <2>1 DEF MetInOrder
  <2>2. CASE n = Top
    <3>1. Top <= m /\ Top # m
      BY <1>3
    <3>2. QED
      BY <1>1, <1>3, <2>2, <3>1
  <2>3. QED
    BY <2>1, <2>2
<1>5. /\ v \in Seq(Entry) /\ \A i \in DOMAIN v : v[i] = walk[i + 1] /\ i + 1 \in DOMAIN walk
  BY <1>1, RestIs DEF Rest
<1>6. u = Entries(e) \o v
  OBVIOUS
<1> HIDE DEF v
<1>7. e \in Seq(Nodes) /\ e \in Seq(Nat) /\ Top \in Containers
  <2>1. Top \in Containers
    BY <1>1, <1>3
  <2>2. e \in Seq(Nodes)
    BY <1>1, <2>1 DEF Forest
  <2>3. QED
    BY <1>1, <2>1, <2>2, SeqWidens
<1>8. GoesOn(u, e, v)
  BY <1>5, <1>6, <1>7, EntriesPlaces
<1>9. \A i \in DOMAIN u : \/ i \in DOMAIN e /\ u[i].at = e[i]
                          \/ i > Len(e) /\ u[i] = walk[i - Len(e) + 1] /\ i - Len(e) + 1 \in DOMAIN walk /\ i - Len(e) > 0
  <2>1. ASSUME NEW i \in DOMAIN u, i > Len(e), u[i] = v[i - Len(e)], i - Len(e) \in DOMAIN v
        PROVE  u[i] = walk[i - Len(e) + 1] /\ i - Len(e) + 1 \in DOMAIN walk /\ i - Len(e) > 0
    <3>1. v[i - Len(e)] = walk[(i - Len(e)) + 1] /\ (i - Len(e)) + 1 \in DOMAIN walk
      BY <1>5, <2>1
    <3>2. i \in Nat /\ Len(e) \in Nat
      BY <1>8 DEF GoesOn
    <3>3. QED
      BY <2>1, <3>1, <3>2
  <2>2. QED
    BY <1>8, <2>1 DEF GoesOn
<1>10. DOMAIN u \subseteq Nat /\ Len(e) \in Nat /\ DOMAIN e = 1..Len(e)
  BY <1>8 DEF GoesOn
<1>11. ASSUME NEW i \in DOMAIN u, NEW j \in DOMAIN u, i < j PROVE u[i].at < u[j].at
  <2>1. CASE i \in DOMAIN e /\ u[i].at = e[i] /\ j \in DOMAIN e /\ u[j].at = e[j]
    BY <1>1, <1>2, <1>7, <1>11, <2>1 DEF MetInOrder, TextOrder
  <2>2. CASE /\ i \in DOMAIN e /\ u[i].at = e[i]
             /\ j > Len(e) /\ u[j] = walk[j - Len(e) + 1] /\ j - Len(e) + 1 \in DOMAIN walk /\ j - Len(e) > 0
    <3>1. e[i] \in Listed(kids[Top])
      BY <2>2 DEF Listed
    <3>2. j - Len(e) + 1 > 1
      BY <1>10, <2>2
    <3>3. e[i] < walk[j - Len(e) + 1].at
      BY <2>2, <3>1, <3>2, RestIsAfter
    <3>4. QED
      BY <2>2, <3>3
  <2>3. CASE /\ i > Len(e) /\ u[i] = walk[i - Len(e) + 1] /\ i - Len(e) + 1 \in DOMAIN walk
             /\ j > Len(e) /\ u[j] = walk[j - Len(e) + 1] /\ j - Len(e) + 1 \in DOMAIN walk
    <3>1. i - Len(e) + 1 < j - Len(e) + 1
      BY <1>10, <1>11
    <3>2. QED
      BY <1>2, <2>3, <3>1 DEF MetInOrder
  <2>4. CASE i > Len(e) /\ j \in DOMAIN e
    BY <1>10, <1>11, <2>4
  <2>5. QED
    BY <1>9, <2>1, <2>2, <2>3, <2>4
<1>12. QED
  BY <1>4, <1>11

(***************************************************************************)
(* Numbering                                                               *)
(***************************************************************************)
\* Of a node that holds nothing the walk goes on to the rest
LEMMA RestFollows ==
  ASSUME NotesInv, phase = "numbering", walk # <<>>, NEW D, Counted(D), ~IsDefinition(Top)
  PROVE  /\ Top \in Nodes \ D /\ Rest \in Seq(Entry)
         /\ Met(kids, Len(node), Rest, D \cup {Top})
         /\ \A i \in DOMAIN Rest : ~Rest[i].leaving
         /\ NoInlines => /\ \A n \in D \cup {Top}, m \in Nodes \ (D \cup {Top}) : n < m
                         /\ \A i, j \in DOMAIN Rest : i < j => Rest[i].at < Rest[j].at
<1>1. Top \in Nodes \ D
  BY WalkGoesOn
<1>2. kids[Top] = <<>>
  BY <1>1, NumberingIs DEF TreeInv
<1>3. Rest \in Seq(Entry)
  BY NumberingIs, RestIs DEF Rest, Typed
<1>4. Rest = Entries(kids[Top]) \o Rest
  <2>1. Entries(<<>>) = <<>>
    BY DEF Entries
  <2> DEFINE v == Rest
  <2>2. v \in Seq(Entry)
    BY <1>3
  <2> HIDE DEF v
  <2>3. <<>> \o v = v
    BY <2>2
  <2>4. QED
    BY <1>2, <2>1, <2>3 DEF v
<1>5. /\ Met(kids, Len(node), Rest, D \cup {Top})
      /\ \A i \in DOMAIN Rest : ~Rest[i].leaving
  BY <1>4, WalkGoesOn
<1>6. NoInlines => /\ \A n \in D \cup {Top}, m \in Nodes \ (D \cup {Top}) : n < m
                   /\ \A i, j \in DOMAIN Rest : i < j => Rest[i].at < Rest[j].at
  BY <1>4, WalkStaysInOrder
<1>7. QED
  BY <1>1, <1>3, <1>5, <1>6

LEMMA EnterDefinitionKeeps == ASSUME NotesInv, EnterDefinition PROVE NotesInv'
<1>1. /\ phase = "numbering" /\ walk # <<>> /\ node[Top].kind # "ref"
      /\ walk' = Entries(kids[Top]) \o Rest
      /\ UNCHANGED <<leave, phase, node, kids, open, defs, next, saw, fdMap, nextIx, written, removed>>
  BY DEF EnterDefinition, Numbering, Pushed
<1>2. /\ Typed /\ Paired /\ TreeInv /\ NumberInv
      /\ Nodes = 1..Len(node) /\ Containers = 0..Len(node) /\ Len(node) \in Nat
      /\ Forest(kids, Len(node))
      /\ \A n \in Nodes : \E c \in Containers : c < n /\ n \in Listed(kids[c])
  BY <1>1, NumberingIs
<1>3. PICK D \in SUBSET Nodes : Counted(D)
  BY <1>2 DEF NumberInv
<1>4. /\ Top \in Nodes \ D /\ walk' \in Seq(Entry)
      /\ Met(kids, Len(node), walk', D \cup {Top})
      /\ \A i \in DOMAIN walk' : ~walk'[i].leaving
  BY <1>1, <1>3, WalkGoesOn
<1>5. NoInlines => /\ \A n \in D \cup {Top}, m \in Nodes \ (D \cup {Top}) : n < m
                   /\ \A i, j \in DOMAIN walk' : i < j => walk'[i].at < walk'[j].at
  BY <1>1, <1>3, WalkStaysInOrder
<1>6. PICK E : E = D \cup {Top}
  OBVIOUS
<1>7. NoInlines' => MetInOrder(E)'
  BY <1>6, <1>1, <1>3, <1>5 DEF NoInlines, MetInOrder, FirstUses, References, Nodes, IsInline, Counted
<1>8. Counted(E)'
  BY <1>6, <1>1, <1>3, <1>4, <1>7 DEF Counted, Nodes
<1>9. \E d \in SUBSET Nodes' : Counted(d)'
  BY <1>6, <1>1, <1>4, <1>8 DEF Nodes
<1>10. NumberInv'
  BY <1>1, <1>2, <1>9 DEF NumberInv, Labelled, CountsTo, OwnIx, Shows, IsDefinition, IsInline, References,
                           Definitions, Nodes
<1>11. Typed' /\ Paired' /\ TreeInv'
  BY <1>1, <1>2, <1>4 DEF Typed, Paired, TreeInv, IsDefinition, IsInline, Nodes
<1>12. QED
  BY <1>1, <1>10, <1>11 DEF NotesInv

\* What the numbering of a reference says of the counts, when the other references stay as they are
LEMMA RefTop ==
  ASSUME NotesInv, phase = "numbering", walk # <<>>, node[Top].kind = "ref", NEW D, Counted(D)
  PROVE  /\ Top \in Nodes \ D /\ ~IsDefinition(Top) /\ ~IsInline(Top) /\ Top \in References
         /\ node[Top].num = 0 /\ node[Top] \in NodeRec
         /\ \A r \in References : (r \in D) <=> (node[r].num > 0)
<1>1. ~IsDefinition(Top) /\ ~IsInline(Top)
  BY DEF IsDefinition, IsInline
<1>2. Top \in Nodes \ D
  BY <1>1, RestFollows
<1>3. node[Top] \in NodeRec
  BY <1>2, NumberingIs DEF Typed, Nodes
<1>4. \A r \in References : (r \in D) <=> (node[r].num > 0)
  BY DEF Counted, References
<1>5. Top \in References
  BY <1>2 DEF References
<1>6. node[Top].num = 0
  BY <1>2, <1>3, <1>4, <1>5 DEF NodeRec
<1>7. QED
  BY <1>1, <1>2, <1>3, <1>4, <1>5, <1>6

LEMMA RestoreKeeps == ASSUME NotesInv, Restore PROVE NotesInv'
<1>1. /\ phase = "numbering" /\ walk # <<>> /\ node[Top].kind = "ref"
      /\ Fold(node[Top].name) \notin DOMAIN fdMap
      /\ node' = [node EXCEPT ![Top].kind = "text"] /\ walk' = Rest
      /\ UNCHANGED <<leave, phase, kids, open, defs, next, saw, fdMap, nextIx, written, removed>>
  BY DEF Restore, Numbering
<1>2. /\ Typed /\ Paired /\ TreeInv /\ NumberInv
      /\ Nodes = 1..Len(node) /\ Containers = 0..Len(node) /\ Len(node) \in Nat
  BY <1>1, NumberingIs
<1>3. PICK D \in SUBSET Nodes : Counted(D)
  BY <1>2 DEF NumberInv
<1>4. /\ Top \in Nodes \ D /\ ~IsDefinition(Top) /\ ~IsInline(Top) /\ Top \in References
      /\ node[Top].num = 0 /\ node[Top] \in NodeRec
  BY <1>1, <1>3, RefTop
<1>5. /\ Rest \in Seq(Entry) /\ Met(kids, Len(node), Rest, D \cup {Top})
      /\ \A i \in DOMAIN Rest : ~Rest[i].leaving
      /\ NoInlines => /\ \A n \in D \cup {Top}, m \in Nodes \ (D \cup {Top}) : n < m
                      /\ \A i, j \in DOMAIN Rest : i < j => Rest[i].at < Rest[j].at
  BY <1>1, <1>3, <1>4, RestFollows
\* The new nodes
<1>6. /\ node' \in Seq(NodeRec) /\ Len(node') = Len(node) /\ Nodes' = Nodes
      /\ \A n \in Nodes : n # Top => node'[n] = node[n]
      /\ node'[Top].kind = "text" /\ node'[Top].name = node[Top].name
  <2>1. [node[Top] EXCEPT !.kind = "text"] \in NodeRec
    BY <1>4 DEF NodeRec
  <2>2. node' = [node EXCEPT ![Top] = [node[Top] EXCEPT !.kind = "text"]] /\ node \in Seq(NodeRec) /\ Top \in 1..Len(node)
    BY <1>1, <1>2, <1>4 DEF Typed
  <2>3. node'[Top] = [node[Top] EXCEPT !.kind = "text"]
    BY <2>2
  <2>4. node' \in Seq(NodeRec) /\ Len(node') = Len(node) /\ \A n \in 1..Len(node) : n # Top => node'[n] = node[n]
    BY <2>1, <2>2
  <2>5. DOMAIN node' = 1..Len(node)
    BY <2>4
  <2>6. node'[Top].kind = "text" /\ node'[Top].name = node[Top].name
    BY <1>4, <2>3 DEF NodeRec
  <2>7. QED
    BY <1>2, <2>4, <2>5, <2>6 DEF Nodes
<1>7. /\ References' = References \ {Top} /\ Definitions' = Definitions
      /\ \A n \in Nodes : (IsInline(n)' <=> IsInline(n)) /\ (IsDefinition(n)' <=> IsDefinition(n))
  BY <1>4, <1>6 DEF References, Definitions, IsInline, IsDefinition
<1>8. \A r \in References' : r \in References /\ r # Top /\ node'[r] = node[r]
  BY <1>6, <1>7 DEF References
<1>9. \A n \in Nodes : (IsInline(n) \/ IsDefinition(n)) => node'[n] = node[n]
  BY <1>4, <1>6
<1>10. \A d \in Nodes : IsInline(d) => d - 1 # Top
  <2>1. SUFFICES ASSUME NEW d \in Nodes, IsInline(d), d - 1 = Top PROVE FALSE
    OBVIOUS
  <2>2. node[Top].name = node[d].name /\ d \in Listed(kids[Root]) /\ IsDefinition(d)
    BY <1>2, <2>1 DEF Paired, NumberInv, IsInline, IsDefinition
  <2>3. Fold(node[d].name) \in DOMAIN fdMap
    BY <1>2, <2>2 DEF NumberInv
  <2>4. QED
    BY <1>1, <2>2, <2>3
<1>11. Paired'
  <2>1. \A d \in Nodes : IsInline(d) =>
           /\ d - 1 \in Nodes /\ node'[d - 1].kind = "ref" /\ node'[d - 1].name = node'[d].name
           /\ node'[d].name.base = "__inline_" /\ node'[d].name.n < next /\ node'[d].name.caps = FALSE
    BY <1>2, <1>6, <1>9, <1>10 DEF Paired
  <2>2. \A d, e \in Nodes : IsInline(d) /\ IsInline(e) /\ node'[d].name = node'[e].name => d = e
    BY <1>2, <1>9 DEF Paired
  <2>3. QED
    BY <1>1, <1>6, <1>7, <2>1, <2>2 DEF Paired
<1>12. ASSUME NEW name, NEW total, CountsTo(name, total) PROVE CountsTo(name, total)'
  <2>1. ASSUME NEW k \in 1..total PROVE \E r \in References' : node'[r].name = name /\ node'[r].num = k
    <3>1. PICK r \in References : node[r].name = name /\ node[r].num = k
      BY <1>12 DEF CountsTo
    <3>2. r # Top
      BY <1>4, <3>1
    <3>3. r \in References' /\ node'[r] = node[r]
      BY <1>7, <1>8, <3>1, <3>2
    <3>4. QED
      BY <3>1, <3>3
  <2>2. QED
    BY <1>8, <1>12, <2>1 DEF CountsTo
<1>13. ASSUME NEW l \in DOMAIN fdMap PROVE Labelled(l)'
  <2>1. Labelled(l)
    BY <1>2 DEF NumberInv
  <2>2. fdMap[l].node \in Nodes
    <3>1. kids[Root] \in Seq(Nodes)
      BY <1>2 DEF TreeInv, Forest, Root
    <3>2. QED
      BY <2>1, <3>1, ListedIn DEF Labelled
  <2>3. CountsTo(fdMap[l].name, fdMap[l].total)'
    <3>1. PICK a, b : a = fdMap[l].name /\ b = fdMap[l].total
      OBVIOUS
    <3>2. CountsTo(a, b)'
      BY <1>12, <2>1, <3>1 DEF Labelled
    <3>3. QED
      BY <1>1, <3>1, <3>2 DEF CountsTo
  <2>4. node'[fdMap[l].node] = node[fdMap[l].node] /\ IsDefinition(fdMap[l].node)'
    <3>1. node'[fdMap[l].node].kind = node[fdMap[l].node].kind /\ node'[fdMap[l].node] = node[fdMap[l].node]
      BY <1>9, <2>1, <2>2 DEF Labelled
    <3>2. QED
      BY <1>1, <2>1, <3>1 DEF Labelled, IsDefinition
  <2>5. QED
    BY <1>1, <2>1, <2>3, <2>4 DEF Labelled
<1>14. PICK E : E = D \cup {Top}
  OBVIOUS
<1>15. NoInlines' => MetInOrder(E)'
  BY <1>14, <1>1, <1>3, <1>5, <1>6, <1>7, <1>8 DEF NoInlines, MetInOrder, FirstUses, Counted
<1>16. Counted(E)'
  <2>1. ASSUME NEW n \in Nodes PROVE /\ node'[n].kind = "text" => n \in E
                                     /\ node'[n].kind = "ref" => (n \in E <=> node'[n].num > 0)
    BY <1>14, <1>3, <1>6 DEF Counted
  <2>2. QED
    BY <1>14, <1>1, <1>5, <1>6, <1>15, <2>1 DEF Counted
<1>17. \E d \in SUBSET Nodes' : Counted(d)'
  BY <1>14, <1>4, <1>6, <1>16
<1>18. NumberInv'
  <2>1. removed' = {} /\ written' = Unwritten /\ OwnIx' /\ (\A i \in 1..nextIx' : \E l \in DOMAIN fdMap' : fdMap'[l].ix = i)
    BY <1>1, <1>2 DEF NumberInv, OwnIx
  <2>2. \A l \in DOMAIN fdMap' : Labelled(l)'
    BY <1>1, <1>13
  <2>3. \A n \in Listed(kids'[Root]) : IsDefinition(n)' => Fold(node'[n].name) \in DOMAIN fdMap'
    <3>1. ASSUME NEW n \in Listed(kids[Root]) PROVE n \in Nodes
      <4>1. kids[Root] \in Seq(Nodes)
        BY <1>2 DEF TreeInv, Forest, Root
      <4>2. QED
        BY <4>1, ListedIn
    <3>2. QED
      BY <1>1, <1>2, <1>7, <1>9, <3>1 DEF NumberInv
  <2>4. \A d \in Nodes' : IsInline(d)' => d \in Listed(kids'[Root]) /\ fdMap'[Fold(node'[d].name)].node = d
    BY <1>1, <1>2, <1>6, <1>7, <1>9 DEF NumberInv
  <2>5. \A d \in Definitions' : node'[d].num = 0
    BY <1>2, <1>7, <1>9 DEF NumberInv, Definitions, IsDefinition
  <2>6. \A r \in References' : node'[r].num > 0 => Shows(r)'
    BY <1>1, <1>2, <1>8 DEF NumberInv, Shows
  <2>7. QED
    BY <1>17, <2>1, <2>2, <2>3, <2>4, <2>5, <2>6 DEF NumberInv
<1>19. Typed'
  BY <1>1, <1>2, <1>5, <1>6 DEF Typed
<1>20. TreeInv'
  BY <1>1, <1>2, <1>6, <1>7 DEF TreeInv
<1>21. QED
  BY <1>1, <1>11, <1>18, <1>19, <1>20 DEF NotesInv

\* What Resolve makes of the map and of the reference
LEMMA ResolveMap ==
  ASSUME NotesInv, Resolve, NEW l, l = Fold(node[Top].name)
  PROVE  /\ phase = "numbering" /\ walk # <<>> /\ node[Top].kind = "ref" /\ walk' = Rest
         /\ l \in DOMAIN fdMap /\ DOMAIN fdMap' = DOMAIN fdMap /\ fdMap' \in [DOMAIN fdMap' -> Fd]
         /\ fdMap[l] \in Fd
         /\ nextIx' = IF fdMap[l].ix = 0 THEN nextIx + 1 ELSE nextIx
         /\ nextIx \in Nat
         /\ \A m \in DOMAIN fdMap : m # l => fdMap'[m] = fdMap[m]
         /\ fdMap'[l].node = fdMap[l].node /\ fdMap'[l].name = fdMap[l].name
         /\ fdMap'[l].total = fdMap[l].total + 1
         /\ fdMap'[l].ix = IF fdMap[l].ix = 0 THEN nextIx + 1 ELSE fdMap[l].ix
         /\ node' = [node EXCEPT ![Top] = Numbered(node[Top], fdMap'[l])]
         /\ UNCHANGED <<leave, phase, kids, open, defs, next, saw, written, removed>>
<1>1. /\ phase = "numbering" /\ walk # <<>> /\ node[Top].kind = "ref" /\ walk' = Rest
      /\ l \in DOMAIN fdMap
      /\ nextIx' = IF fdMap[l].ix = 0 THEN nextIx + 1 ELSE nextIx
      /\ fdMap' = [fdMap EXCEPT ![l].ix = IF @ = 0 THEN nextIx' ELSE @, ![l].total = @ + 1]
      /\ node' = [node EXCEPT ![Top] = Numbered(node[Top], fdMap'[l])]
      /\ UNCHANGED <<leave, phase, kids, open, defs, next, saw, written, removed>>
  BY DEF Resolve, Numbering
<1>2. nextIx \in Nat /\ fdMap \in [DOMAIN fdMap -> Fd] /\ fdMap[l] \in Fd
  BY <1>1, NumberingIs DEF Typed
<1>3. nextIx' \in Nat
  BY <1>1, <1>2
<1> DEFINE new == [node |-> fdMap[l].node, name |-> fdMap[l].name,
                   ix |-> IF fdMap[l].ix = 0 THEN nextIx' ELSE fdMap[l].ix, total |-> fdMap[l].total + 1]
<1>4. DOMAIN fdMap' = DOMAIN fdMap /\ \A m \in DOMAIN fdMap : m # l => fdMap'[m] = fdMap[m]
  BY <1>1
<1>5. fdMap'[l] = new
  <2>1. fdMap'[l] = [fdMap[l] EXCEPT !.ix = IF fdMap[l].ix = 0 THEN nextIx' ELSE fdMap[l].ix,
                                     !.total = fdMap[l].total + 1]
    BY <1>1, <1>2 DEF Fd
  <2>2. QED
    BY <1>2, <2>1 DEF Fd
<1>6. new \in Fd
  BY <1>2, <1>3 DEF Fd
<1>7. fdMap' \in [DOMAIN fdMap' -> Fd]
  <2>1. \A m \in DOMAIN fdMap : fdMap'[m] \in Fd
    BY <1>2, <1>4, <1>5, <1>6
  <2>2. fdMap' = [m \in DOMAIN fdMap |-> fdMap'[m]]
    BY <1>1
  <2>3. QED
    BY <1>4, <2>1, <2>2
<1>8. /\ fdMap'[l].node = fdMap[l].node /\ fdMap'[l].name = fdMap[l].name
      /\ fdMap'[l].total = fdMap[l].total + 1
      /\ fdMap'[l].ix = IF fdMap[l].ix = 0 THEN nextIx + 1 ELSE fdMap[l].ix
  BY <1>1, <1>5
<1> HIDE DEF new
<1>9. QED
  BY <1>1, <1>2, <1>4, <1>7, <1>8

LEMMA ResolveNodes ==
  ASSUME NotesInv, Resolve, NEW l, l = Fold(node[Top].name), NEW D, Counted(D)
  PROVE  /\ Top \in Nodes \ D /\ ~IsDefinition(Top) /\ ~IsInline(Top) /\ Top \in References
         /\ node[Top].num = 0
         /\ node' \in Seq(NodeRec) /\ Len(node') = Len(node) /\ Nodes' = Nodes
         /\ \A n \in Nodes : n # Top => node'[n] = node[n]
         /\ node'[Top].kind = "ref" /\ node'[Top].name = fdMap[l].name
         /\ node'[Top].ix = fdMap'[l].ix /\ node'[Top].num = fdMap[l].total + 1
         /\ References' = References /\ Definitions' = Definitions
         /\ \A n \in Nodes : (IsInline(n)' <=> IsInline(n)) /\ (IsDefinition(n)' <=> IsDefinition(n))
         /\ Fold(fdMap[l].name) = l
<1>1. /\ phase = "numbering" /\ walk # <<>> /\ node[Top].kind = "ref"
      /\ l \in DOMAIN fdMap /\ fdMap'[l] \in Fd
      /\ fdMap'[l].name = fdMap[l].name /\ fdMap'[l].total = fdMap[l].total + 1
      /\ node' = [node EXCEPT ![Top] = Numbered(node[Top], fdMap'[l])]
  BY ResolveMap
<1>2. /\ Typed /\ NumberInv /\ Nodes = 1..Len(node) /\ Len(node) \in Nat
  BY <1>1, NumberingIs
<1>3. /\ Top \in Nodes \ D /\ ~IsDefinition(Top) /\ ~IsInline(Top) /\ Top \in References
      /\ node[Top].num = 0 /\ node[Top] \in NodeRec
  BY <1>1, RefTop
<1> DEFINE new == Numbered(node[Top], fdMap'[l])
<1>4. /\ new \in NodeRec /\ new.kind = "ref" /\ new.name = fdMap'[l].name
      /\ new.ix = fdMap'[l].ix /\ new.num = fdMap'[l].total
  BY <1>1, <1>3 DEF Numbered, NodeRec, Fd
<1>5. node' = [node EXCEPT ![Top] = new] /\ node \in Seq(NodeRec) /\ Top \in 1..Len(node)
  BY <1>1, <1>2, <1>3 DEF Typed
<1> HIDE DEF new
<1>6. /\ node' \in Seq(NodeRec) /\ Len(node') = Len(node) /\ node'[Top] = new
      /\ \A n \in 1..Len(node) : n # Top => node'[n] = node[n]
  BY <1>4, <1>5
<1>7. DOMAIN node' = 1..Len(node)
  BY <1>6
<1>8. /\ \A n \in Nodes : n # Top => node'[n] = node[n]
      /\ Nodes' = Nodes /\ node'[Top].kind = "ref"
  BY <1>2, <1>4, <1>6, <1>7 DEF Nodes
<1>9. \A n \in Nodes : node'[n].kind = node[n].kind
  BY <1>1, <1>8
<1>10. /\ References' = References /\ Definitions' = Definitions
       /\ \A n \in Nodes : (IsInline(n)' <=> IsInline(n)) /\ (IsDefinition(n)' <=> IsDefinition(n))
  BY <1>8, <1>9 DEF References, Definitions, IsInline, IsDefinition
<1>11. Fold(fdMap[l].name) = l
  BY <1>1, <1>2 DEF NumberInv, Labelled
<1>12. QED
  BY <1>1, <1>3, <1>4, <1>6, <1>8, <1>10, <1>11

\* The counts of the label grow, those of the others stay
LEMMA ResolveCounts ==
  ASSUME NotesInv, Resolve, NEW m \in DOMAIN fdMap'
  PROVE  CountsTo(fdMap[m].name, fdMap[m].total)'
<1>1. PICK l : l = Fold(node[Top].name)
  OBVIOUS
<1>2. PICK D \in SUBSET Nodes : Counted(D)
  BY NumberingIs, ResolveMap DEF NumberInv
<1>3. /\ l \in DOMAIN fdMap /\ DOMAIN fdMap' = DOMAIN fdMap /\ fdMap[l] \in Fd
      /\ fdMap'[l].name = fdMap[l].name /\ fdMap'[l].total = fdMap[l].total + 1
      /\ m # l => fdMap'[m] = fdMap[m]
      /\ phase = "numbering" /\ walk # <<>>
  BY <1>1, ResolveMap
<1>4. /\ Top \in Nodes /\ Top \in References /\ node[Top].num = 0
      /\ \A n \in Nodes : n # Top => node'[n] = node[n]
      /\ node'[Top].name = fdMap[l].name /\ node'[Top].num = fdMap[l].total + 1
      /\ References' = References /\ Fold(fdMap[l].name) = l
  BY <1>1, <1>2, ResolveNodes
<1>5. Labelled(m) /\ CountsTo(fdMap[m].name, fdMap[m].total) /\ Fold(fdMap[m].name) = m
  <2>1. NumberInv /\ m \in DOMAIN fdMap
    BY <1>3, NumberingIs
  <2>2. QED
    BY <2>1 DEF NumberInv, Labelled
<1>6. PICK t, a, T, b, T1 : t = Top /\ a = fdMap[m].name /\ T = fdMap[m].total /\ b = fdMap'[m].name /\ T1 = fdMap'[m].total
  OBVIOUS
<1>7. \A r \in References : r \in Nodes /\ (r # t => node'[r] = node[r])
  BY <1>4, <1>6 DEF References
<1>8. CASE m # l
  <2>1. b = a /\ T1 = T /\ node[t].name # a /\ node'[t].name # a
    BY <1>1, <1>3, <1>4, <1>5, <1>6, <1>8
  <2>2. \A r \in References : (node'[r].name = a <=> node[r].name = a) /\ (node[r].name = a => node'[r] = node[r])
    BY <1>7, <2>1
  <2>3. CountsTo(a, T)
    BY <1>5, <1>6
  <2>4. CountsTo(a, T)'
    BY <1>4, <2>2, <2>3 DEF CountsTo
  <2>5. QED
    BY <1>6, <2>1, <2>4 DEF CountsTo
<1>9. CASE m = l
  <2>1. b = a /\ T1 = T + 1 /\ T \in Nat /\ node[t].num = 0 /\ node'[t].name = a /\ node'[t].num = T + 1 /\ t \in References
    BY <1>3, <1>4, <1>6, <1>9 DEF Fd
  <2>2. CountsTo(a, T)
    BY <1>5, <1>6
  <2>3. \A r \in References : node'[r].num \in Nat
    <3>1. node' \in Seq(NodeRec) /\ Len(node') = Len(node)
      BY <1>1, <1>2, ResolveNodes
    <3>2. \A r \in References : r \in 1..Len(node)
      BY <1>3, NumberingIs DEF References
    <3>3. \A r \in References : node'[r] \in NodeRec
      BY <3>1, <3>2
    <3>4. QED
      BY <3>3 DEF NodeRec
  <2>4. ASSUME NEW r \in References, node'[r].name = a PROVE node'[r].num <= T + 1 /\ (r # t => node'[r].num <= T)
    <3>1. CASE r = t
      BY <2>1, <3>1
    <3>2. CASE r # t
      <4>1. node'[r].num <= T
        BY <1>7, <2>2, <2>4, <3>2 DEF CountsTo
      <4>2. QED
        BY <2>1, <2>3, <4>1
    <3>3. QED
      BY <3>1, <3>2
  <2>5. ASSUME NEW k \in 1..(T + 1) PROVE \E r \in References : node'[r].name = a /\ node'[r].num = k
    <3>1. CASE k = T + 1
      BY <2>1, <3>1
    <3>2. CASE k # T + 1
      <4>1. k \in 1..T /\ k > 0
        BY <2>1, <3>2
      <4>2. PICK r \in References : node[r].name = a /\ node[r].num = k
        BY <2>2, <4>1 DEF CountsTo
      <4>3. r # t
        BY <2>1, <4>1, <4>2
      <4>4. QED
        BY <1>7, <4>2, <4>3
    <3>3. QED
      BY <3>1, <3>2
  <2>6. ASSUME NEW r \in References, NEW s \in References, node'[r].name = a, node'[s].name = a,
               node'[r].num = node'[s].num, node'[r].num > 0
        PROVE  r = s
    <3>1. CASE r # t /\ s # t
      BY <1>7, <2>2, <2>6, <3>1 DEF CountsTo
    <3>2. CASE r = t /\ s # t
      BY <2>1, <2>3, <2>4, <2>6, <3>2
    <3>3. CASE s = t /\ r # t
      BY <2>1, <2>3, <2>4, <2>6, <3>3
    <3>4. QED
      BY <3>1, <3>2, <3>3
  <2>7. CountsTo(a, T1)'
    BY <1>4, <2>1, <2>4, <2>5, <2>6 DEF CountsTo
  <2>8. QED
    BY <1>6, <2>1, <2>7 DEF CountsTo
<1>10. QED
  BY <1>8, <1>9

LEMMA ResolveKeeps == ASSUME NotesInv, Resolve PROVE NotesInv'
<1>1. PICK l : l = Fold(node[Top].name)
  OBVIOUS
<1>2. /\ phase = "numbering" /\ walk # <<>> /\ node[Top].kind = "ref" /\ walk' = Rest
      /\ l \in DOMAIN fdMap /\ DOMAIN fdMap' = DOMAIN fdMap /\ fdMap' \in [DOMAIN fdMap' -> Fd]
      /\ fdMap[l] \in Fd
      /\ nextIx' = IF fdMap[l].ix = 0 THEN nextIx + 1 ELSE nextIx
      /\ nextIx \in Nat
      /\ \A m \in DOMAIN fdMap : m # l => fdMap'[m] = fdMap[m]
      /\ fdMap'[l].node = fdMap[l].node /\ fdMap'[l].name = fdMap[l].name
      /\ fdMap'[l].total = fdMap[l].total + 1
      /\ fdMap'[l].ix = IF fdMap[l].ix = 0 THEN nextIx + 1 ELSE fdMap[l].ix
      /\ UNCHANGED <<leave, phase, kids, open, defs, next, saw, written, removed>>
  BY <1>1, ResolveMap
<1>3. /\ Typed /\ Paired /\ TreeInv /\ NumberInv
      /\ Nodes = 1..Len(node) /\ Containers = 0..Len(node) /\ Len(node) \in Nat
  BY <1>2, NumberingIs
<1>4. PICK D \in SUBSET Nodes : Counted(D)
  BY <1>3 DEF NumberInv
<1>5. PICK t, E : t = Top /\ E = D \cup {t}
  OBVIOUS
<1>6. /\ t \in Nodes \ D /\ ~IsDefinition(t) /\ ~IsInline(t) /\ t \in References
      /\ node[t].num = 0
      /\ node' \in Seq(NodeRec) /\ Len(node') = Len(node) /\ Nodes' = Nodes
      /\ \A n \in Nodes : n # t => node'[n] = node[n]
      /\ node'[t].kind = "ref" /\ node'[t].name = fdMap[l].name
      /\ node'[t].ix = fdMap'[l].ix /\ node'[t].num = fdMap[l].total + 1
      /\ References' = References /\ Definitions' = Definitions
      /\ \A n \in Nodes : (IsInline(n)' <=> IsInline(n)) /\ (IsDefinition(n)' <=> IsDefinition(n))
      /\ Fold(fdMap[l].name) = l
  BY <1>1, <1>4, <1>5, ResolveNodes
<1>7. /\ Rest \in Seq(Entry) /\ Met(kids, Len(node), Rest, E)
      /\ \A i \in DOMAIN Rest : ~Rest[i].leaving
      /\ NoInlines => /\ \A n \in E, m \in Nodes \ E : n < m
                      /\ \A i, j \in DOMAIN Rest : i < j => Rest[i].at < Rest[j].at
  BY <1>2, <1>4, <1>5, <1>6, RestFollows
<1>8. \A n \in Nodes : IsInline(n) \/ IsDefinition(n) => node'[n] = node[n]
  BY <1>6
<1>9. \A r \in References : r \in Nodes /\ (r \in D <=> node[r].num > 0) /\ (r # t => node'[r] = node[r])
  BY <1>4, <1>6 DEF References, Counted
<1>10. \A n \in Nodes : node[n].ix \in Nat /\ node[n].num \in Nat
  <2>1. \A n \in Nodes : node[n] \in NodeRec
    BY <1>3 DEF Typed
  <2>2. QED
    BY <2>1 DEF NodeRec
<1>11. \A m \in DOMAIN fdMap : Labelled(m) /\ fdMap[m] \in Fd /\ fdMap[m].ix <= nextIx
  BY <1>3 DEF NumberInv, Labelled, Typed
<1>12. kids[Root] \in Seq(Nodes) /\ Listed(kids[Root]) \subseteq Nodes
  <2>1. kids[Root] \in Seq(Nodes)
    BY <1>3 DEF TreeInv, Forest, Root
  <2>2. QED
    BY <2>1, ListedIn
\* The reference keeps the name of an inline definition
<1>13. Paired'
  <2>1. ASSUME NEW d \in Nodes, IsInline(d)
        PROVE  /\ d - 1 \in Nodes /\ node'[d - 1].kind = "ref" /\ node'[d - 1].name = node'[d].name
               /\ node'[d].name.base = "__inline_" /\ node'[d].name.n < next /\ node'[d].name.caps = FALSE
    <3>1. /\ d - 1 \in Nodes /\ node[d - 1].kind = "ref" /\ node[d - 1].name = node[d].name
          /\ node[d].name.base = "__inline_" /\ node[d].name.n < next /\ node[d].name.caps = FALSE
      BY <1>3, <2>1 DEF Paired
    <3>2. node'[d] = node[d]
      BY <1>8, <2>1
    <3>3. CASE d - 1 # t
      BY <1>6, <3>1, <3>2, <3>3
    <3>4. CASE d - 1 = t
      <4>1. fdMap[Fold(node[d].name)].node = d
        BY <1>3, <2>1 DEF NumberInv
      <4>2. Fold(node[d].name) = l
        BY <1>1, <1>5, <3>1, <3>4
      <4>3. node[d].name = fdMap[l].name
        BY <1>2, <1>11, <4>1, <4>2 DEF Labelled
      <4>4. QED
        BY <1>6, <3>1, <3>2, <3>4, <4>3
    <3>5. QED
      BY <3>3, <3>4
  <2>2. \A d, e \in Nodes : IsInline(d) /\ IsInline(e) /\ node'[d].name = node'[e].name => d = e
    BY <1>3, <1>8 DEF Paired
  <2>3. QED
    BY <1>2, <1>6, <2>1, <2>2 DEF Paired
<1>14. ASSUME NEW m \in DOMAIN fdMap PROVE Labelled(m)'
  <2>1. Labelled(m) /\ fdMap[m] \in Fd
    BY <1>11
  <2>2. fdMap'[m].node = fdMap[m].node /\ fdMap'[m].name = fdMap[m].name
    BY <1>2
  <2>3. fdMap[m].node \in Nodes /\ node'[fdMap[m].node] = node[fdMap[m].node]
    BY <1>8, <1>12, <2>1 DEF Labelled
  <2>4. CountsTo(fdMap[m].name, fdMap[m].total)'
    BY <1>2, ResolveCounts
  <2>5. (fdMap'[m].ix = 0 <=> fdMap'[m].total = 0) /\ fdMap'[m].ix <= nextIx'
    <3>1. fdMap[m].ix \in Nat /\ fdMap[m].total \in Nat /\ (fdMap[m].ix = 0 <=> fdMap[m].total = 0) /\ fdMap[m].ix <= nextIx
      BY <2>1 DEF Fd, Labelled
    <3>2. CASE m # l
      BY <1>2, <3>1, <3>2
    <3>3. CASE m = l
      BY <1>2, <3>1, <3>3
    <3>4. QED
      BY <3>2, <3>3
  <2>6. IsDefinition(fdMap[m].node)'
    <3>1. node'[fdMap[m].node].kind = node[fdMap[m].node].kind /\ fdMap'[m].node = fdMap[m].node
      BY <2>2, <2>3
    <3>2. QED
      BY <2>1, <3>1 DEF Labelled, IsDefinition
  <2>7. QED
    BY <1>2, <2>1, <2>2, <2>3, <2>4, <2>5, <2>6 DEF Labelled
\* The numbers of the definitions
<1>15. \A m \in DOMAIN fdMap : m # l /\ fdMap[l].ix = 0 => fdMap'[m].ix # fdMap'[l].ix
  <2>1. ASSUME NEW m \in DOMAIN fdMap, m # l, fdMap[l].ix = 0 PROVE fdMap'[m].ix # fdMap'[l].ix
    <3>1. fdMap[m].ix \in Nat /\ fdMap[m].ix <= nextIx
      BY <1>11 DEF Fd
    <3>2. QED
      BY <1>2, <2>1, <3>1
  <2>2. QED
    BY <2>1
<1>16. OwnIx'
  <2>1. ASSUME NEW m \in DOMAIN fdMap, NEW n \in DOMAIN fdMap, fdMap'[m].ix = fdMap'[n].ix, fdMap'[m].ix > 0
        PROVE  m = n
    <3>1. CASE fdMap[l].ix = 0 /\ (m = l \/ n = l)
      BY <1>15, <2>1, <3>1
    <3>2. CASE ~(fdMap[l].ix = 0 /\ (m = l \/ n = l))
      <4>1. fdMap'[m].ix = fdMap[m].ix /\ fdMap'[n].ix = fdMap[n].ix
        BY <1>2, <3>2
      <4>2. QED
        BY <1>3, <2>1, <4>1 DEF NumberInv, OwnIx
    <3>3. QED
      BY <3>1, <3>2
  <2>2. QED
    BY <1>2, <2>1 DEF OwnIx
<1>17. ASSUME NEW i \in 1..nextIx' PROVE \E m \in DOMAIN fdMap : fdMap'[m].ix = i
  <2>1. CASE i \in 1..nextIx
    <3>1. PICK m \in DOMAIN fdMap : fdMap[m].ix = i
      BY <1>3, <2>1 DEF NumberInv
    <3>2. fdMap'[m].ix = i
      BY <1>2, <2>1, <3>1
    <3>3. QED
      BY <3>2
  <2>2. CASE i \notin 1..nextIx
    <3>1. fdMap[l].ix = 0 /\ i = nextIx + 1
      BY <1>2, <2>2
    <3>2. QED
      BY <1>2, <3>1
  <2>3. QED
    BY <2>1, <2>2
\* What the references show
<1>18. ASSUME NEW r \in References, node'[r].num > 0 PROVE Shows(r)'
  <2>1. CASE r = t
    BY <1>2, <1>6, <2>1 DEF Shows
  <2>2. CASE r # t
    <3>1. node'[r] = node[r] /\ Shows(r)
      BY <1>3, <1>9, <1>18, <2>2 DEF NumberInv
    <3>2. PICK m : m = Fold(node[r].name)
      OBVIOUS
    <3>3. m \in DOMAIN fdMap /\ fdMap[m].name = node[r].name /\ fdMap[m].ix = node[r].ix
      BY <3>1, <3>2 DEF Shows
    <3>4. fdMap'[m].ix = fdMap[m].ix
      <4>1. node[r].num <= fdMap[m].total
        BY <1>11, <3>3 DEF Labelled, CountsTo
      <4>2. node[r].num \in Nat /\ fdMap[m].total \in Nat
        BY <1>10, <1>9, <1>11, <3>3 DEF Fd
      <4>3. fdMap[m].total > 0
        BY <1>18, <3>1, <4>1, <4>2
      <4>4. fdMap[m].ix # 0
        BY <1>11, <3>3, <4>3 DEF Labelled
      <4>5. QED
        BY <1>2, <3>3, <4>4
    <3>5. fdMap'[m].name = fdMap[m].name
      BY <1>2, <3>3
    <3>6. QED
      BY <1>2, <3>1, <3>2, <3>3, <3>4, <3>5 DEF Shows
  <2>3. QED
    BY <2>1, <2>2
<1>19. NoInlines' => MetInOrder(E)'
  <2>1. SUFFICES ASSUME NoInlines' PROVE MetInOrder(E)'
    OBVIOUS
  <2>2. NoInlines /\ MetInOrder(D)
    BY <1>4, <1>6, <2>1 DEF NoInlines, Counted
  <2>3. ASSUME NEW r \in References, NEW s \in References, node'[r].num = 1, node'[s].num = 1, r < s
        PROVE  node'[r].ix < node'[s].ix
    <3>1. r \in Nodes /\ s \in Nodes /\ r \in Nat /\ s \in Nat
      BY <1>3, <1>9
    <3>2. CASE r # t /\ s # t
      BY <1>9, <2>2, <2>3, <3>2 DEF MetInOrder, FirstUses
    <3>3. CASE r = t
      <4>1. s # t /\ node[s].num = 1
        BY <1>9, <2>3, <3>1, <3>3
      <4>2. s \in D
        BY <1>9, <4>1
      <4>3. s < t
        BY <1>6, <2>2, <4>2 DEF MetInOrder
      <4>4. QED
        BY <2>3, <3>1, <3>3, <4>3
    <3>4. CASE s = t /\ r # t
      <4>1. node'[r] = node[r] /\ node[r].num = 1 /\ node[r].num > 0
        BY <1>9, <2>3, <3>4
      <4>2. Shows(r)
        BY <1>3, <4>1 DEF NumberInv
      <4>3. node[r].ix <= nextIx
        BY <1>11, <4>2 DEF Shows
      <4>4. fdMap[l].total = 0
        BY <1>2, <1>6, <2>3, <3>4 DEF Fd
      <4>5. fdMap[l].ix = 0
        BY <1>2, <1>11, <4>4 DEF Labelled
      <4>6. node'[s].ix = nextIx + 1
        BY <1>2, <1>6, <3>4, <4>5
      <4>7. node[r].ix \in Nat
        BY <1>10, <3>1
      <4>8. QED
        BY <1>2, <4>1, <4>3, <4>6, <4>7
    <3>5. QED
      BY <3>2, <3>3, <3>4
  <2>4. FirstUses'
    BY <1>6, <2>3 DEF FirstUses
  <2>5. TextOrder(kids', Len(node'))
    BY <1>2, <1>6, <2>2 DEF MetInOrder
  <2>6. QED
    BY <1>2, <1>6, <1>7, <2>2, <2>4, <2>5 DEF MetInOrder
<1>20. Counted(E)'
  <2>1. ASSUME NEW n \in Nodes PROVE /\ node'[n].kind = "text" => n \in E
                                     /\ node'[n].kind = "ref" => (n \in E <=> node'[n].num > 0)
    <3>1. CASE n = t
      BY <1>2, <1>5, <1>6, <3>1 DEF Fd
    <3>2. CASE n # t
      BY <1>4, <1>5, <1>6, <3>2 DEF Counted
    <3>3. QED
      BY <3>1, <3>2
  <2>2. QED
    BY <1>2, <1>6, <1>7, <1>19, <2>1 DEF Counted
<1>21. NumberInv'
  <2>1. removed' = {} /\ written' = Unwritten
    BY <1>2, <1>3 DEF NumberInv
  <2>2. \A m \in DOMAIN fdMap' : Labelled(m)'
    BY <1>2, <1>14
  <2>3. \A n \in Listed(kids'[Root]) : IsDefinition(n)' => Fold(node'[n].name) \in DOMAIN fdMap'
    BY <1>2, <1>3, <1>6, <1>8, <1>12 DEF NumberInv
  <2>4. ASSUME NEW d \in Nodes, IsInline(d)
        PROVE  d \in Listed(kids'[Root]) /\ fdMap'[Fold(node'[d].name)].node = d
    <3>1. d \in Listed(kids[Root]) /\ fdMap[Fold(node[d].name)].node = d /\ node'[d] = node[d] /\ IsDefinition(d)
      BY <1>3, <1>8, <2>4 DEF NumberInv, IsInline, IsDefinition
    <3>2. PICK m : m = Fold(node[d].name)
      OBVIOUS
    <3>3. m \in DOMAIN fdMap
      BY <1>3, <3>1, <3>2 DEF NumberInv
    <3>4. fdMap'[m].node = fdMap[m].node
      BY <1>2, <3>3
    <3>5. QED
      BY <1>2, <3>1, <3>2, <3>4
  <2>5. \A d \in Definitions' : node'[d].num = 0
    BY <1>3, <1>6, <1>8 DEF NumberInv, Definitions, IsDefinition
  <2>6. \A r \in References' : node'[r].num > 0 => Shows(r)'
    BY <1>6, <1>18
  <2>7. \E d \in SUBSET Nodes' : Counted(d)'
    BY <1>4, <1>5, <1>6, <1>20
  <2>8. \A i \in 1..nextIx' : \E m \in DOMAIN fdMap' : fdMap'[m].ix = i
    BY <1>2, <1>17
  <2>9. QED
    BY <1>6, <1>16, <2>1, <2>2, <2>3, <2>4, <2>5, <2>6, <2>7, <2>8 DEF NumberInv
<1>22. Typed'
  <2>1. nextIx' \in Nat
    BY <1>2
  <2>2. QED
    BY <1>2, <1>3, <1>6, <1>7, <2>1 DEF Typed
<1>23. TreeInv'
  BY <1>2, <1>3, <1>6 DEF TreeInv
<1>24. QED
  BY <1>2, <1>13, <1>21, <1>22, <1>23 DEF NotesInv

\* The walk ends when it has met every node
LEMMA EndOfWalkKeeps == ASSUME NotesInv, EndOfWalk PROVE NotesInv'
<1>1. /\ phase = "numbering" /\ walk = <<>> /\ phase' = "placing"
      /\ UNCHANGED <<leave, node, kids, open, defs, next, saw, fdMap, walk, nextIx, written, removed>>
  BY DEF EndOfWalk
<1>2. /\ Typed /\ Paired /\ TreeInv /\ NumberInv
      /\ Nodes = 1..Len(node) /\ Containers = 0..Len(node) /\ Len(node) \in Nat
      /\ \A n \in Nodes : \E c \in Containers : c < n /\ n \in Listed(kids[c])
  BY <1>1, NumberingIs
<1>3. PICK D \in SUBSET Nodes : Counted(D)
  BY <1>2 DEF NumberInv
<1>4. Nodes \subseteq D
  <2>1. PICK N, out : N = Len(node) /\ out = {}
    OBVIOUS
  <2>2. Met(kids, N, <<>>, D)
    BY <1>1, <1>3, <2>1 DEF Counted
  <2>3. N \in Nat /\ out \in SUBSET (1..N) /\ \A n \in out : kids[n] = <<>>
    BY <1>2, <2>1
  <2>4. \A n \in 1..N : n \notin out => \E c \in 0..N : c < n /\ n \in Listed(kids[c])
    BY <1>2, <2>1
  <2>5. (1..N) \ out \subseteq D
    BY <2>2, <2>3, <2>4, WalkEnds
  <2>6. QED
    BY <1>2, <2>1, <2>5
<1>5. \A r \in References : node[r].num > 0
  BY <1>3, <1>4 DEF Counted, References
<1>6. AllNumbered
  <2>1. \A d \in Definitions : ~(node[d].num > 0)
    BY <1>2 DEF NumberInv
  <2>2. NoInlines => FirstUses
    BY <1>3 DEF Counted, MetInOrder
  <2>3. QED
    BY <1>5, <2>1, <2>2 DEF AllNumbered
<1>7. \A r \in References : Shows(r)
  BY <1>2, <1>5 DEF NumberInv
<1>8. \A d \in Nodes : IsInline(d) => Fold(node[d].name) \in DOMAIN fdMap /\ fdMap[Fold(node[d].name)].node = d
  BY <1>2 DEF NumberInv, IsInline, IsDefinition
<1>9. ~Leftover => Lined(0)
  <2>1. SUFFICES ASSUME ~Leftover PROVE Lined(0)
    OBVIOUS
  <2>2. kids[Root] \in Seq(Nodes) /\ Len(kids[Root]) \in Nat /\ nextIx \in Nat
    <3>1. kids[Root] \in Seq(Nodes)
      BY <1>2 DEF TreeInv, Forest, Root
    <3>2. nextIx \in Nat
      BY <1>2 DEF Typed
    <3>3. QED
      BY <3>1, <3>2
  <2>3. Len(kids[Root]) - 0 = Len(kids[Root])
    BY <2>2
  <2>4. ASSUME NEW i \in 1..Len(kids[Root]), IsDefinition(kids[Root][i])
        PROVE  \E l \in DOMAIN fdMap : fdMap[l].node = kids[Root][i]
    <3>1. PICK d : d = kids[Root][i]
      OBVIOUS
    <3>2. d \in Listed(kids[Root]) /\ d \in Nodes /\ IsDefinition(d)
      BY <2>2, <2>4, <3>1 DEF Listed
    <3>3. PICK l : l = Fold(node[d].name)
      OBVIOUS
    <3>4. l \in DOMAIN fdMap /\ Labelled(l)
      BY <1>2, <3>2, <3>3 DEF NumberInv
    <3>5. PICK e : e = fdMap[l].node
      OBVIOUS
    <3>6. e \in Nodes /\ IsDefinition(e) /\ Fold(node[e].name) = l
      BY <2>2, <3>4, <3>5, ListedIn DEF Labelled
    <3>7. d \in Definitions /\ e \in Definitions
      BY <3>2, <3>6 DEF Definitions, IsDefinition
    <3>8. d = e
      BY <2>1, <3>3, <3>6, <3>7 DEF Leftover
    <3>9. QED
      BY <3>1, <3>4, <3>5, <3>8
  <2>5. \A l \in DOMAIN fdMap : fdMap[l].ix > 0 => 0 < fdMap[l].ix
    BY <1>2 DEF Typed, Fd
  <2>6. \A i \in (0 + 1)..nextIx : \E l \in DOMAIN fdMap : fdMap[l].ix = i
    BY <1>2 DEF NumberInv
  <2>7. \A r \in References : Fold(node[r].name) \in DOMAIN fdMap
    BY <1>7 DEF Shows
  <2>8. 0 \in 0..nextIx /\ \A i \in 1..0 : FALSE
    BY <2>2
  <2>9. QED
    BY <2>2, <2>3, <2>4, <2>5, <2>6, <2>7, <2>8 DEF Lined
<1>10. PlaceInv
  BY <1>2, <1>6, <1>7, <1>8, <1>9 DEF PlaceInv, NumberInv
<1>11. (Leftover' <=> Leftover) /\ (Nested' <=> Nested)
  BY <1>1 DEF Leftover, Nested, Definitions, Nodes
<1>12. \A p : Lined(p) => Lined(p)'
  BY <1>1 DEF Lined, IsDefinition, References, Nodes
<1>13. AllNumbered' /\ OwnIx' /\ \A l \in DOMAIN fdMap : Labelled(l)'
  BY <1>1, <1>10 DEF PlaceInv, AllNumbered, OwnIx, Labelled, CountsTo, FirstUses, NoInlines, IsInline, IsDefinition,
                     References, Definitions, Nodes
<1>14. PlaceInv'
  BY <1>1, <1>10, <1>11, <1>12, <1>13 DEF PlaceInv, Shows, Leads, IsDefinition, IsInline, References, Nodes
<1>15. Typed' /\ Paired' /\ TreeInv'
  BY <1>1, <1>2 DEF Typed, Paired, TreeInv, IsDefinition, IsInline, Nodes
<1>16. QED
  BY <1>1, <1>14, <1>15 DEF NotesInv

(***************************************************************************)
(* Placing                                                                 *)
(***************************************************************************)
Distinct(s) == \A i, j \in DOMAIN s : s[i] = s[j] => i = j

\* u is s without d, or with d at the end
TakenOut(u, s, d) ==
  /\ Distinct(u)
  /\ \A i \in 1..(Len(s) - 1) : u[i] \in Listed(s) \ {d}
  /\ \A p \in 0..Len(s) : (\A i \in 1..p : s[Len(s) - p + i] # d) =>
       /\ p < Len(s)
       /\ \A i \in 1..p : u[Len(s) - 1 - p + i] = s[Len(s) - p + i]
       /\ \A i \in 1..(Len(s) - 1 - p) : \E j \in 1..(Len(s) - p) : u[i] = s[j] /\ s[j] # d

LEMMA WithoutIs ==
  ASSUME NEW S, NEW s \in Seq(S), Distinct(s), NEW d \in Listed(s), NEW w, w = Without(s, d)
  PROVE  /\ w \in Seq(S) /\ Len(w) = Len(s) - 1 /\ Len(s) \in Nat /\ Listed(w) = Listed(s) \ {d}
         /\ TakenOut(w, s, d)
<1>1. PICK q \in 1..Len(s) :
        /\ s[q] = d
        /\ w \in Seq(S) /\ Len(w) = Len(s) - 1
        /\ \A i \in 1..(Len(s) - 1) : w[i] = IF i < q THEN s[i] ELSE s[i + 1]
  BY WithoutPlaces DEF Distinct
<1>2. Len(s) \in Nat /\ DOMAIN s = 1..Len(s) /\ q \in Nat
  OBVIOUS
<1>3. DOMAIN w = 1..(Len(s) - 1)
  BY <1>1, <1>2
\* Where the elements come from
<1> DEFINE from(i) == IF i < q THEN i ELSE i + 1
<1>4. ASSUME NEW i \in 1..(Len(s) - 1) PROVE from(i) \in 1..Len(s) /\ from(i) # q /\ w[i] = s[from(i)] /\ s[from(i)] # d
  <2>1. from(i) \in 1..Len(s) /\ from(i) # q
    BY <1>2
  <2>2. w[i] = s[from(i)]
    BY <1>1
  <2>3. s[from(i)] # d
    <3>1. PICK j : j = from(i)
      OBVIOUS
    <3>2. QED
      BY <1>1, <1>2, <2>1, <3>1 DEF Distinct
  <2>4. QED
    BY <2>1, <2>2, <2>3
<1>5. Distinct(w)
  <2>1. ASSUME NEW i \in DOMAIN w, NEW j \in DOMAIN w, w[i] = w[j] PROVE i = j
    <3>1. PICK a, b : a = from(i) /\ b = from(j)
      OBVIOUS
    <3>2. a \in DOMAIN s /\ b \in DOMAIN s /\ s[a] = s[b]
      BY <1>2, <1>3, <1>4, <2>1, <3>1
    <3>3. a = b
      BY <3>2 DEF Distinct
    <3>4. QED
      BY <1>2, <1>3, <3>1, <3>3
  <2>2. QED
    BY <2>1 DEF Distinct
<1>6. \A i \in 1..(Len(s) - 1) : w[i] \in Listed(s) \ {d}
  <2>1. ASSUME NEW i \in 1..(Len(s) - 1) PROVE w[i] \in Listed(s) \ {d}
    <3>1. PICK a : a = from(i)
      OBVIOUS
    <3>2. a \in DOMAIN s /\ w[i] = s[a] /\ s[a] # d
      BY <1>2, <1>4, <3>1
    <3>3. QED
      BY <3>2 DEF Listed
  <2>2. QED
    BY <2>1
<1>7. Listed(w) = Listed(s) \ {d}
  <2>1. ASSUME NEW j \in DOMAIN s, s[j] # d PROVE s[j] \in Listed(w)
    <3>1. j # q /\ j \in Nat
      BY <1>1, <1>2, <2>1
    <3>2. CASE j < q
      <4>1. j \in 1..(Len(s) - 1) /\ w[j] = s[j]
        BY <1>1, <1>2, <3>2
      <4>2. QED
        BY <1>3, <4>1 DEF Listed
    <3>3. CASE j > q
      <4>1. j - 1 \in 1..(Len(s) - 1) /\ ~(j - 1 < q) /\ (j - 1) + 1 = j
        BY <1>2, <3>3
      <4>2. w[j - 1] = s[j]
        BY <1>1, <4>1
      <4>3. QED
        BY <1>3, <4>1, <4>2 DEF Listed
    <3>4. QED
      BY <1>2, <3>1, <3>2, <3>3
  <2>2. QED
    BY <1>3, <1>6, <2>1 DEF Listed
<1>8. ASSUME NEW p \in 0..Len(s), \A i \in 1..p : s[Len(s) - p + i] # d
      PROVE  /\ p < Len(s)
             /\ \A i \in 1..p : w[Len(s) - 1 - p + i] = s[Len(s) - p + i]
             /\ \A i \in 1..(Len(s) - 1 - p) : \E j \in 1..(Len(s) - p) : w[i] = s[j] /\ s[j] # d
  <2>1. q <= Len(s) - p
    <3>1. SUFFICES ASSUME q > Len(s) - p PROVE FALSE
      BY <1>2
    <3>2. q - (Len(s) - p) \in 1..p /\ Len(s) - p + (q - (Len(s) - p)) = q
      BY <1>2, <3>1
    <3>3. QED
      BY <1>1, <1>8, <3>2
  <2>2. p < Len(s)
    BY <1>2, <2>1
  <2>3. ASSUME NEW i \in 1..p PROVE w[Len(s) - 1 - p + i] = s[Len(s) - p + i]
    <3>1. /\ Len(s) - 1 - p + i \in 1..(Len(s) - 1) /\ ~(Len(s) - 1 - p + i < q)
          /\ (Len(s) - 1 - p + i) + 1 = Len(s) - p + i
      BY <1>2, <2>1, <2>2
    <3>2. QED
      BY <1>1, <3>1
  <2>4. ASSUME NEW i \in 1..(Len(s) - 1 - p) PROVE \E j \in 1..(Len(s) - p) : w[i] = s[j] /\ s[j] # d
    <3>1. PICK a : a = from(i)
      OBVIOUS
    <3>2. i \in 1..(Len(s) - 1) /\ a \in 1..(Len(s) - p)
      BY <1>2, <2>2, <3>1
    <3>3. w[i] = s[a] /\ s[a] # d
      BY <1>4, <3>1, <3>2
    <3>4. QED
      BY <3>2, <3>3
  <2>5. QED
    BY <2>2, <2>3, <2>4
<1>9. TakenOut(w, s, d)
  BY <1>5, <1>6, <1>8 DEF TakenOut
<1>10. QED
  BY <1>1, <1>2, <1>7, <1>9

LEMMA WithoutThenLast ==
  ASSUME NEW S, NEW s \in Seq(S), Distinct(s), NEW d \in Listed(s),
         NEW w, w = Without(s, d), NEW u \in Seq(S), Longer(u, w, d)
  PROVE  /\ u \in Seq(S) /\ Len(u) = Len(s) /\ Len(s) \in Nat \ {0} /\ Listed(u) = Listed(s) /\ u[Len(s)] = d
         /\ TakenOut(u, s, d)
<1>1. w \in Seq(S) /\ Len(w) = Len(s) - 1 /\ Len(s) \in Nat /\ Listed(w) = Listed(s) \ {d} /\ TakenOut(w, s, d)
  BY WithoutIs
<1>2. d \in S
  BY ListedIn
<1>3. /\ u \in Seq(S) /\ Len(u) = Len(w) + 1 /\ u[Len(w) + 1] = d
      /\ \A i \in 1..Len(w) : u[i] = w[i]
  BY DEF Longer
<1>4. Listed(u) = Listed(w) \cup {d}
  BY DEF Longer
<1>5. Len(s) \in Nat \ {0} /\ Len(u) = Len(s) /\ u[Len(s)] = d /\ \A i \in 1..(Len(s) - 1) : u[i] = w[i]
  <2>1. Len(w) + 1 = Len(s) /\ Len(w) \in Nat
    BY <1>1
  <2>2. QED
    BY <1>1, <1>3, <2>1
<1>6. Listed(u) = Listed(s)
  BY <1>1, <1>4
<1>7. \A i \in 1..(Len(s) - 1) : u[i] \in Listed(s) \ {d}
  BY <1>1, <1>5 DEF TakenOut
<1>8. Distinct(u)
  <2>1. DOMAIN u = 1..Len(s) /\ DOMAIN w = 1..(Len(s) - 1)
    BY <1>1, <1>3, <1>5
  <2>2. ASSUME NEW i \in 1..Len(s), NEW j \in 1..Len(s), u[i] = u[j] PROVE i = j
    <3>1. CASE i # Len(s) /\ j # Len(s)
      <4>1. i \in 1..(Len(s) - 1) /\ j \in 1..(Len(s) - 1)
        BY <1>5, <3>1
      <4>2. w[i] = w[j]
        BY <1>5, <2>2, <4>1
      <4>3. QED
        BY <1>1, <2>1, <4>1, <4>2 DEF TakenOut, Distinct
    <3>2. CASE i = Len(s) /\ j # Len(s)
      <4>1. j \in 1..(Len(s) - 1)
        BY <1>5, <3>2
      <4>2. QED
        BY <1>5, <1>7, <2>2, <3>2, <4>1
    <3>3. CASE i # Len(s) /\ j = Len(s)
      <4>1. i \in 1..(Len(s) - 1)
        BY <1>5, <3>3
      <4>2. QED
        BY <1>5, <1>7, <2>2, <3>3, <4>1
    <3>4. QED
      BY <3>1, <3>2, <3>3
  <2>3. QED
    BY <2>1, <2>2 DEF Distinct
<1>9. ASSUME NEW p \in 0..Len(s), \A i \in 1..p : s[Len(s) - p + i] # d
      PROVE  /\ p < Len(s)
             /\ \A i \in 1..p : u[Len(s) - 1 - p + i] = s[Len(s) - p + i]
             /\ \A i \in 1..(Len(s) - 1 - p) : \E j \in 1..(Len(s) - p) : u[i] = s[j] /\ s[j] # d
  <2>1. /\ p < Len(s)
        /\ \A i \in 1..p : w[Len(s) - 1 - p + i] = s[Len(s) - p + i]
        /\ \A i \in 1..(Len(s) - 1 - p) : \E j \in 1..(Len(s) - p) : w[i] = s[j] /\ s[j] # d
    BY <1>1, <1>9 DEF TakenOut
  <2>2. ASSUME NEW i \in 1..p PROVE u[Len(s) - 1 - p + i] = w[Len(s) - 1 - p + i]
    <3>1. Len(s) - 1 - p + i \in 1..(Len(s) - 1)
      BY <1>5, <2>1
    <3>2. QED
      BY <1>5, <3>1
  <2>3. ASSUME NEW i \in 1..(Len(s) - 1 - p) PROVE u[i] = w[i]
    <3>1. i \in 1..(Len(s) - 1)
      BY <1>5, <2>1
    <3>2. QED
      BY <1>5, <3>1
  <2>4. QED
    BY <2>1, <2>2, <2>3
<1>10. TakenOut(u, s, d)
  BY <1>7, <1>8, <1>9 DEF TakenOut
<1>11. QED
  BY <1>3, <1>5, <1>6, <1>10

\* The tree when the children of the root are others of them
LEMMA RootReplaced ==
  ASSUME NEW N \in Nat, NEW k, Forest(k, N), NEW s \in Seq(1..N), Distinct(s), Listed(s) \subseteq Listed(k[Root]),
         NEW g \in [0..N -> Seq(1..N)], g[Root] = s, \A c \in 1..N : g[c] = k[c]
  PROVE  Forest(g, N)
<1>1. Root = 0 /\ \A c \in 0..N : c # Root => c \in 1..N
  BY DEF Root
<1>2. g \in [0..N -> Seq(1..N)] /\ g[Root] = s /\ \A c \in 0..N : c # Root => g[c] = k[c]
  BY <1>1
<1>3. ASSUME NEW c \in 0..N, NEW i \in DOMAIN g[c]
      PROVE  \E j \in DOMAIN k[c] : g[c][i] = k[c][j] /\ (c # Root => j = i)
  <2>1. CASE c = Root
    <3>1. g[c][i] \in Listed(k[Root])
      BY <1>2, <2>1 DEF Listed
    <3>2. QED
      BY <2>1, <3>1 DEF Listed
  <2>2. CASE c # Root
    BY <1>2, <2>2
  <2>3. QED
    BY <2>1, <2>2
<1>4. ASSUME NEW c \in 0..N, NEW b \in 0..N, NEW i \in DOMAIN g[c], NEW j \in DOMAIN g[b], g[c][i] = g[b][j]
      PROVE  c = b /\ i = j
  <2>1. PICK i2 \in DOMAIN k[c] : g[c][i] = k[c][i2] /\ (c # Root => i2 = i)
    BY <1>3
  <2>2. PICK j2 \in DOMAIN k[b] : g[b][j] = k[b][j2] /\ (b # Root => j2 = j)
    BY <1>3
  <2>3. c = b /\ i2 = j2
    <3>1. k[c][i2] = k[b][j2]
      BY <1>4, <2>1, <2>2, Zenon
    <3>2. ChildAt(k, c, i2, k[b][j2]) /\ ChildAt(k, b, j2, k[b][j2])
      BY <2>1, <2>2, <3>1 DEF ChildAt
    <3>3. QED
      BY <3>2, OneParent
  <2>4. CASE c = Root
    BY <1>2, <1>4, <2>3, <2>4 DEF Distinct
  <2>5. CASE c # Root
    BY <2>1, <2>2, <2>3, <2>5
  <2>6. QED
    BY <2>3, <2>4, <2>5
<1>5. ASSUME NEW c \in 0..N, NEW n \in Listed(g[c]) PROVE c < n
  <2>1. PICK i \in DOMAIN g[c] : g[c][i] = n
    BY DEF Listed
  <2>2. PICK j \in DOMAIN k[c] : n = k[c][j]
    BY <1>3, <2>1
  <2>3. n \in Listed(k[c])
    BY <2>2 DEF Listed
  <2>4. QED
    BY <2>3 DEF Forest
<1>6. QED
  BY <1>1, <1>2, <1>4, <1>5 DEF Forest

LEMMA PlacingIs ==
  ASSUME NotesInv, phase = "placing"
  PROVE  /\ Typed /\ Paired /\ TreeInv /\ PlaceInv
         /\ Nodes = 1..Len(node) /\ Containers = 0..Len(node) /\ Len(node) \in Nat
         /\ Forest(kids, Len(node)) /\ Distinct(kids[Root])
         /\ kids[Root] \in Seq(Nodes) /\ Listed(kids[Root]) \subseteq Nodes
         /\ nextIx \in Nat /\ \A l \in DOMAIN fdMap : fdMap[l] \in Fd
         /\ \A n \in Nodes : node[n] \in NodeRec /\ node[n].num \in Nat /\ node[n].ix \in Nat
<1>1. Typed /\ Paired /\ TreeInv /\ PlaceInv
  BY DEF NotesInv
<1>2. Nodes = 1..Len(node) /\ Containers = 0..Len(node) /\ Len(node) \in Nat
  BY <1>1, ContainersAre
<1>3. Forest(kids, Len(node)) /\ Root \in 0..Len(node)
  BY <1>1, <1>2 DEF TreeInv, Root
<1>4. Distinct(kids[Root]) /\ kids[Root] \in Seq(Nodes)
  BY <1>2, <1>3 DEF Forest, Distinct
<1>5. Listed(kids[Root]) \subseteq Nodes
  BY <1>4, ListedIn
<1>6. nextIx \in Nat /\ \A l \in DOMAIN fdMap : fdMap[l] \in Fd
  BY <1>1 DEF Typed
<1>7. \A n \in Nodes : node[n] \in NodeRec
  BY <1>1, <1>2 DEF Typed
<1>8. QED
  BY <1>1, <1>2, <1>3, <1>4, <1>5, <1>6, <1>7 DEF NodeRec

\* A round places d, the definition of l
Round(l, d) ==
  /\ First(l) /\ l \in DOMAIN fdMap
  /\ d = fdMap[l].node /\ d \in Listed(kids[Root]) /\ d \in Nodes /\ IsDefinition(d)
  /\ Fold(fdMap[l].name) = l /\ node[d].name = fdMap[l].name
  /\ DOMAIN fdMap' = DOMAIN fdMap \ {l}
  /\ \A m \in DOMAIN fdMap' : fdMap'[m] = fdMap[m] /\ fdMap[m].node # d
  /\ node' \in Seq(NodeRec) /\ Len(node') = Len(node) /\ Nodes' = Nodes
  /\ \A n \in Nodes : /\ node'[n].kind = node[n].kind /\ node'[n].name = node[n].name /\ node'[n].ix = node[n].ix
                      /\ n # d => node'[n] = node[n]
  /\ node'[d].num = IF fdMap[l].ix = 0 THEN node[d].num ELSE fdMap[l].total
  /\ leave => kids' = kids /\ removed' = removed
  /\ ~leave /\ fdMap[l].ix = 0 =>
       kids' = [kids EXCEPT ![Root] = Without(kids[Root], d)] /\ removed' = removed \cup {d}
  /\ ~leave /\ fdMap[l].ix # 0 =>
       kids' = [kids EXCEPT ![Root] = Append(Without(kids[Root], d), d)] /\ removed' = removed
  /\ UNCHANGED <<leave, phase, open, defs, next, saw, walk, nextIx, written>>

LEMMA PlaceIs ==
  ASSUME NotesInv, Place
  PROVE  /\ phase = "placing" /\ fdMap' \in [DOMAIN fdMap' -> Fd]
         /\ \E l, d : Round(l, d)
<1>1. /\ phase = "placing"
      /\ UNCHANGED <<leave, phase, open, defs, next, saw, walk, nextIx, written>>
  BY DEF Place
<1>2. PICK l \in DOMAIN fdMap :
        /\ First(l)
        /\ fdMap' = [m \in DOMAIN fdMap \ {l} |-> fdMap[m]]
        /\ node' = IF fdMap[l].ix = 0 THEN node
                   ELSE [node EXCEPT ![fdMap[l].node] =
                           [node[fdMap[l].node] EXCEPT !.name = fdMap[l].name, !.num = fdMap[l].total]]
        /\ kids' = IF leave THEN kids ELSE [kids EXCEPT ![Root] = Placed(kids[Root], fdMap[l])]
        /\ removed' = IF fdMap[l].ix = 0 /\ ~leave THEN removed \cup {fdMap[l].node} ELSE removed
  BY DEF Place
<1>3. /\ Typed /\ PlaceInv /\ Nodes = 1..Len(node) /\ Len(node) \in Nat
      /\ Listed(kids[Root]) \subseteq Nodes
      /\ \A m \in DOMAIN fdMap : fdMap[m] \in Fd
      /\ \A n \in Nodes : node[n] \in NodeRec
  BY <1>1, PlacingIs
<1>4. PICK d : d = fdMap[l].node
  OBVIOUS
<1>5. \A m \in DOMAIN fdMap : Labelled(m)
  BY <1>3 DEF PlaceInv
<1>6. /\ d \in Listed(kids[Root]) /\ d \in Nodes /\ IsDefinition(d) /\ Fold(fdMap[l].name) = l
      /\ node[d].name = fdMap[l].name /\ fdMap[l] \in Fd
  BY <1>3, <1>4, <1>5 DEF Labelled
<1>7. /\ DOMAIN fdMap' = DOMAIN fdMap \ {l} /\ fdMap' \in [DOMAIN fdMap' -> Fd]
      /\ \A m \in DOMAIN fdMap' : fdMap'[m] = fdMap[m]
  BY <1>2, <1>3
<1>8. \A m \in DOMAIN fdMap' : fdMap[m].node # d
  <2>1. ASSUME NEW m \in DOMAIN fdMap, fdMap[m].node = d PROVE m = l
    <3>1. node[fdMap[m].node].name = fdMap[m].name /\ Fold(fdMap[m].name) = m
      BY <1>5 DEF Labelled
    <3>2. QED
      BY <1>6, <2>1, <3>1
  <2>2. QED
    BY <1>7, <2>1
<1> DEFINE new == [node[d] EXCEPT !.name = fdMap[l].name, !.num = fdMap[l].total]
<1>9. /\ new \in NodeRec /\ new.kind = node[d].kind /\ new.name = node[d].name /\ new.ix = node[d].ix
      /\ new.num = fdMap[l].total
  BY <1>3, <1>6 DEF NodeRec, Fd
<1>10. node' = IF fdMap[l].ix = 0 THEN node ELSE [node EXCEPT ![d] = new]
  BY <1>2, <1>4
<1> HIDE DEF new
<1>11. /\ node' \in Seq(NodeRec) /\ Len(node') = Len(node)
       /\ \A n \in Nodes : n # d => node'[n] = node[n]
       /\ node'[d] = IF fdMap[l].ix = 0 THEN node[d] ELSE new
  <2>1. node \in Seq(NodeRec) /\ d \in 1..Len(node)
    BY <1>3, <1>6 DEF Typed
  <2>2. CASE fdMap[l].ix = 0
    BY <1>10, <2>1, <2>2
  <2>3. CASE fdMap[l].ix # 0
    <3>1. node' = [node EXCEPT ![d] = new]
      BY <1>10, <2>3
    <3>2. /\ node' \in Seq(NodeRec) /\ Len(node') = Len(node) /\ node'[d] = new
          /\ \A n \in 1..Len(node) : n # d => node'[n] = node[n]
      BY <1>9, <2>1, <3>1
    <3>3. QED
      BY <1>3, <2>3, <3>2
  <2>4. QED
    BY <2>2, <2>3
<1>12. Nodes' = Nodes
  <2>1. DOMAIN node' = 1..Len(node')
    BY <1>11
  <2>2. QED
    BY <1>3, <1>11, <2>1 DEF Nodes
<1>13. /\ node'[d].kind = node[d].kind /\ node'[d].name = node[d].name /\ node'[d].ix = node[d].ix
       /\ node'[d].num = IF fdMap[l].ix = 0 THEN node[d].num ELSE fdMap[l].total
  BY <1>9, <1>11
<1>14. \A n \in Nodes : node'[n].kind = node[n].kind /\ node'[n].name = node[n].name /\ node'[n].ix = node[n].ix
  BY <1>11, <1>13
<1>15. /\ leave => kids' = kids /\ removed' = removed
       /\ ~leave /\ fdMap[l].ix = 0 =>
            kids' = [kids EXCEPT ![Root] = Without(kids[Root], d)] /\ removed' = removed \cup {d}
       /\ ~leave /\ fdMap[l].ix # 0 =>
            kids' = [kids EXCEPT ![Root] = Append(Without(kids[Root], d), d)] /\ removed' = removed
  BY <1>2, <1>4 DEF Placed
<1>16. Round(l, d)
  BY <1>1, <1>2, <1>4, <1>6, <1>7, <1>8, <1>11, <1>12, <1>13, <1>14, <1>15 DEF Round
<1>17. QED
  BY <1>1, <1>7, <1>16

LEMMA RoundKinds ==
  ASSUME NEW l, NEW d, Round(l, d)
  PROVE  /\ References' = References /\ Definitions' = Definitions
         /\ \A n \in Nodes : (IsInline(n)' <=> IsInline(n)) /\ (IsDefinition(n)' <=> IsDefinition(n))
         /\ \A r \in References : r \in Nodes /\ node'[r] = node[r]
<1>1. Nodes' = Nodes /\ \A n \in Nodes : node'[n].kind = node[n].kind
  BY DEF Round
<1>2. d \in Nodes /\ node[d].kind # "ref" /\ \A n \in Nodes : n # d => node'[n] = node[n]
  BY DEF Round, IsDefinition
<1>3. QED
  BY <1>1, <1>2 DEF References, Definitions, IsInline, IsDefinition

\* The tree after a round
LEMMA RoundTree ==
  ASSUME NotesInv, phase = "placing", NEW l, NEW d, Round(l, d)
  PROVE  /\ Forest(kids', Len(node)) /\ \A c \in Nodes : kids'[c] = kids[c]
         /\ Listed(kids'[Root]) = Listed(kids[Root]) \ (IF ~leave /\ fdMap[l].ix = 0 THEN {d} ELSE {})
         /\ ~leave => TakenOut(kids'[Root], kids[Root], d) /\ Len(kids[Root]) \in Nat
         /\ ~leave /\ fdMap[l].ix = 0 => Len(kids'[Root]) = Len(kids[Root]) - 1
         /\ ~leave /\ fdMap[l].ix # 0 =>
              Len(kids'[Root]) = Len(kids[Root]) /\ kids'[Root][Len(kids[Root])] = d
<1>1. /\ Nodes = 1..Len(node) /\ Len(node) \in Nat /\ Forest(kids, Len(node))
      /\ Distinct(kids[Root]) /\ kids[Root] \in Seq(Nodes)
  BY PlacingIs
<1>2. d \in Listed(kids[Root])
  BY DEF Round
<1> DEFINE s == kids[Root]
<1>3. CASE leave
  BY <1>1, <1>3 DEF Round
<1>4. CASE ~leave /\ fdMap[l].ix = 0
  <2>1. PICK u : u = Without(s, d)
    OBVIOUS
  <2>2. /\ u \in Seq(Nodes) /\ Len(u) = Len(s) - 1 /\ Len(s) \in Nat /\ Listed(u) = Listed(s) \ {d}
        /\ TakenOut(u, s, d)
    BY <1>1, <1>2, <2>1, WithoutIs
  <2>3. kids' = [kids EXCEPT ![Root] = u]
    BY <1>4, <2>1 DEF Round
  <2>4. Distinct(u) /\ Listed(u) \subseteq Listed(kids[Root])
    BY <2>2 DEF TakenOut
  <2>5. Forest(kids', Len(node)) /\ kids'[Root] = u /\ \A c \in Nodes : kids'[c] = kids[c]
    <3>1. PICK N \in Nat : N = Len(node)
      BY <1>1
    <3>2. u \in Seq(1..N) /\ Forest(kids, N)
      BY <1>1, <2>2, <3>1
    <3>3. Root \in 0..N /\ Root \notin 1..N /\ kids \in [0..N -> Seq(1..N)]
      BY <1>1, <3>1 DEF Root, Forest
    <3>4. kids' \in [0..N -> Seq(1..N)] /\ kids'[Root] = u /\ \A c \in 1..N : kids'[c] = kids[c]
      BY <2>3, <3>2, <3>3
    <3>5. Distinct(u) /\ Listed(u) \subseteq Listed(kids[Root]) /\ Forest(kids, N)
      BY <1>1, <2>4, <3>1
    <3>6. Forest(kids', N)
      BY <3>2, <3>4, <3>5, RootReplaced
    <3>7. QED
      BY <1>1, <3>1, <3>4, <3>6
  <2>6. QED
    BY <1>4, <2>2, <2>5
<1>5. CASE ~leave /\ fdMap[l].ix # 0
  <2>1. PICK w, u : w = Without(s, d) /\ u = Append(w, d)
    OBVIOUS
  <2>2. /\ u \in Seq(Nodes) /\ Len(u) = Len(s) /\ Len(s) \in Nat /\ Listed(u) = Listed(s) /\ u[Len(s)] = d
        /\ TakenOut(u, s, d)
    <3>1. w \in Seq(Nodes) /\ d \in Nodes
      BY <1>1, <1>2, <2>1, ListedIn, WithoutIs
    <3>2. /\ u \in Seq(Nodes) /\ Len(u) = Len(w) + 1 /\ u[Len(w) + 1] = d
          /\ \A i \in 1..Len(w) : u[i] = w[i]
      BY <2>1, <3>1
    <3>3. Listed(u) = Listed(w) \cup {d}
      BY <2>1, <3>1, ListedAppend
    <3>4. Longer(u, w, d)
      BY <3>2, <3>3 DEF Longer
    <3>5. s \in Seq(Nodes) /\ Distinct(s) /\ d \in Listed(s)
      BY <1>1, <1>2
    <3>6. w = Without(s, d)
      BY <2>1
    <3> HIDE DEF s
    <3>7. /\ u \in Seq(Nodes) /\ Len(u) = Len(s) /\ Len(s) \in Nat \ {0} /\ Listed(u) = Listed(s) /\ u[Len(s)] = d
          /\ TakenOut(u, s, d)
      BY <3>2, <3>4, <3>6, <3>5, WithoutThenLast
    <3>8. QED
      BY <3>7
  <2>3. kids' = [kids EXCEPT ![Root] = u]
    BY <1>5, <2>1 DEF Round
  <2>4. Distinct(u) /\ Listed(u) \subseteq Listed(kids[Root])
    BY <2>2 DEF TakenOut
  <2>5. Forest(kids', Len(node)) /\ kids'[Root] = u /\ \A c \in Nodes : kids'[c] = kids[c]
    <3>1. PICK N \in Nat : N = Len(node)
      BY <1>1
    <3>2. u \in Seq(1..N) /\ Forest(kids, N)
      BY <1>1, <2>2, <3>1
    <3>3. Root \in 0..N /\ Root \notin 1..N /\ kids \in [0..N -> Seq(1..N)]
      BY <1>1, <3>1 DEF Root, Forest
    <3>4. kids' \in [0..N -> Seq(1..N)] /\ kids'[Root] = u /\ \A c \in 1..N : kids'[c] = kids[c]
      BY <2>3, <3>2, <3>3
    <3>5. Distinct(u) /\ Listed(u) \subseteq Listed(kids[Root]) /\ Forest(kids, N)
      BY <1>1, <2>4, <3>1
    <3>6. Forest(kids', N)
      BY <3>2, <3>4, <3>5, RootReplaced
    <3>7. QED
      BY <1>1, <3>1, <3>4, <3>6
  <2>6. QED
    BY <1>5, <2>2, <2>5
<1>6. QED
  BY <1>3, <1>4, <1>5

\* A reference with the label of an entry shows it, and the entry has a number
LEMMA ReferredTo ==
  ASSUME NotesInv, phase = "placing", NEW l \in DOMAIN fdMap, NEW r \in References, Fold(node[r].name) = l
  PROVE  /\ node[r].name = fdMap[l].name /\ node[r].ix = fdMap[l].ix
         /\ fdMap[l].ix \in Nat /\ fdMap[l].ix > 0
<1>1. PlaceInv /\ fdMap[l] \in Fd /\ r \in Nodes /\ node[r].num \in Nat
  BY PlacingIs DEF References
<1>2. Shows(r) /\ Labelled(l) /\ node[r].num > 0
  BY <1>1 DEF PlaceInv, AllNumbered
<1>3. node[r].name = fdMap[l].name /\ node[r].ix = fdMap[l].ix
  BY <1>2 DEF Shows
<1>4. node[r].num <= fdMap[l].total
  BY <1>2, <1>3 DEF Labelled, CountsTo
<1>5. fdMap[l].ix \in Nat /\ fdMap[l].total \in Nat
  BY <1>1 DEF Fd
<1>6. fdMap[l].total # 0
  BY <1>1, <1>2, <1>4, <1>5
<1>7. fdMap[l].ix # 0
  BY <1>2, <1>6 DEF Labelled
<1>8. QED
  BY <1>3, <1>5, <1>7

LEMMA RoundCounts ==
  ASSUME NEW l, NEW d, Round(l, d), NEW name, NEW total, CountsTo(name, total)
  PROVE  CountsTo(name, total)'
<1>1. References' = References /\ \A r \in References : node'[r] = node[r]
  BY RoundKinds
<1>2. QED
  BY <1>1 DEF CountsTo

LEMMA RoundLabels ==
  ASSUME NotesInv, phase = "placing", NEW l, NEW d, Round(l, d), NEW m \in DOMAIN fdMap'
  PROVE  Labelled(m)'
<1>1. PlaceInv /\ Listed(kids[Root]) \subseteq Nodes
  BY PlacingIs
<1>2. /\ m \in DOMAIN fdMap /\ fdMap'[m] = fdMap[m] /\ fdMap[m].node # d /\ nextIx' = nextIx
      /\ \A n \in Nodes : node'[n].kind = node[n].kind /\ node'[n].name = node[n].name
  BY DEF Round
<1>3. Labelled(m)
  BY <1>1, <1>2 DEF PlaceInv
<1>4. PICK e, name, total : e = fdMap[m].node /\ name = fdMap[m].name /\ total = fdMap[m].total
  OBVIOUS
<1>5. e \in Listed(kids'[Root])
  BY <1>2, <1>3, <1>4, RoundTree DEF Labelled
<1>6. IsDefinition(e)' /\ node'[e].name = name
  BY <1>1, <1>2, <1>3, <1>4 DEF Labelled, IsDefinition
<1>7. CountsTo(name, total)'
  BY <1>3, <1>4, RoundCounts DEF Labelled
<1>8. CountsTo(fdMap[m].name, fdMap[m].total)'
  BY <1>2, <1>4, <1>7 DEF CountsTo
<1>9. IsDefinition(fdMap[m].node)'
  BY <1>2, <1>4, <1>6 DEF IsDefinition
<1>10. QED
  BY <1>2, <1>3, <1>4, <1>5, <1>6, <1>8, <1>9 DEF Labelled

\* The definitions at the end of the root stay in line, and d joins them if it has a number
LEMMA RoundLined ==
  ASSUME NotesInv, phase = "placing", NEW l, NEW d, Round(l, d), ~leave, NEW p \in Nat, Lined(p)
  PROVE  \E q \in Nat : Lined(q)'
<1> DEFINE Defines(n) == node'[n].kind \in {"def", "inline"}
<1>1. PICK L, b : L = Len(kids[Root]) /\ b = L - p
  OBVIOUS
<1>2. /\ PlaceInv /\ kids[Root] \in Seq(Nodes) /\ L \in Nat /\ nextIx \in Nat
      /\ \A m \in DOMAIN fdMap : fdMap[m] \in Fd
  BY <1>1, PlacingIs
<1>3. /\ First(l) /\ l \in DOMAIN fdMap /\ d = fdMap[l].node /\ d \in Nodes /\ IsDefinition(d)
      /\ node[d].name = fdMap[l].name
      /\ DOMAIN fdMap' = DOMAIN fdMap \ {l}
      /\ \A m \in DOMAIN fdMap' : fdMap'[m] = fdMap[m] /\ fdMap[m].node # d
      /\ \A n \in Nodes : node'[n].kind = node[n].kind /\ node'[n].name = node[n].name
      /\ nextIx' = nextIx
  BY DEF Round
<1>4. /\ p \in 0..nextIx /\ b \in Nat
      /\ \A i \in 1..p : /\ IsDefinition(kids[Root][b + i])
                         /\ \A m \in DOMAIN fdMap : fdMap[m].node # kids[Root][b + i]
                         /\ \A r \in References : node[r].ix = i => node[kids[Root][b + i]].name = node[r].name
      /\ \A i \in 1..b : IsDefinition(kids[Root][i]) => \E m \in DOMAIN fdMap : fdMap[m].node = kids[Root][i]
      /\ \A m \in DOMAIN fdMap : fdMap[m].ix > 0 => p < fdMap[m].ix
      /\ \A i \in (p + 1)..nextIx : \E m \in DOMAIN fdMap : fdMap[m].ix = i
      /\ \A r \in References : Fold(node[r].name) \in DOMAIN fdMap \/ node[r].ix \in 1..p
  BY <1>1 DEF Lined
<1>5. p \in 0..L /\ \A i \in 1..p : kids[Root][L - p + i] # d
  <2>1. \A i \in 1..p : kids[Root][b + i] # d
    BY <1>3, <1>4
  <2>2. QED
    BY <1>1, <1>2, <1>4, <2>1
<1>6. /\ p < L
      /\ \A i \in 1..p : kids'[Root][L - 1 - p + i] = kids[Root][L - p + i]
      /\ \A i \in 1..(L - 1 - p) : \E j \in 1..(L - p) : kids'[Root][i] = kids[Root][j] /\ kids[Root][j] # d
  <2>1. TakenOut(kids'[Root], kids[Root], d)
    BY RoundTree
  <2>2. QED
    BY <1>1, <1>5, <2>1 DEF TakenOut
<1>7. /\ References' = References
      /\ \A n \in Nodes : Defines(n) <=> IsDefinition(n)
      /\ \A r \in References : r \in Nodes /\ node'[r] = node[r]
  BY <1>3, RoundKinds DEF IsDefinition
<1>8. \A i \in 1..L : kids[Root][i] \in Nodes
  BY <1>1, <1>2
\* What was in line
<1>9. ASSUME NEW i \in 1..p
      PROVE  /\ Defines(kids'[Root][b - 1 + i])
             /\ \A m \in DOMAIN fdMap' : fdMap'[m].node # kids'[Root][b - 1 + i]
             /\ \A r \in References' : node'[r].ix = i => node'[kids'[Root][b - 1 + i]].name = node'[r].name
  <2>1. PICK e : e = kids[Root][b + i]
    OBVIOUS
  <2>2. b - 1 + i = L - 1 - p + i /\ b + i = L - p + i /\ b + i \in 1..L
    BY <1>1, <1>2, <1>4, <1>6
  <2>3. kids'[Root][b - 1 + i] = e /\ e \in Nodes
    BY <1>6, <1>8, <2>1, <2>2
  <2>4. IsDefinition(e) /\ Defines(e)
    BY <1>4, <1>7, <2>1, <2>3
  <2>5. \A m \in DOMAIN fdMap' : fdMap'[m].node # e
    BY <1>3, <1>4, <2>1
  <2>6. \A r \in References' : node'[r].ix = i => node'[e].name = node'[r].name
    BY <1>3, <1>4, <1>7, <2>1, <2>3
  <2>7. Defines(kids'[Root][b - 1 + i])
    BY <2>3, <2>4
  <2>8. QED
    BY <2>3, <2>5, <2>6, <2>7
\* What was not
<1>10. ASSUME NEW i \in 1..(b - 1), Defines(kids'[Root][i])
      PROVE  \E m \in DOMAIN fdMap' : fdMap'[m].node = kids'[Root][i]
  <2>1. i \in 1..(L - 1 - p)
    BY <1>1, <1>2, <1>4
  <2>2. PICK j \in 1..b : kids'[Root][i] = kids[Root][j] /\ kids[Root][j] # d
    BY <1>1, <1>6, <2>1
  <2>3. PICK e : e = kids[Root][j]
    OBVIOUS
  <2>4. e \in Nodes /\ Defines(e)
    <3>1. j \in 1..L
      BY <1>1, <1>2, <1>4, <2>2
    <3>2. QED
      BY <1>8, <1>10, <2>2, <2>3, <3>1
  <2>5. IsDefinition(kids[Root][j])
    BY <1>7, <2>3, <2>4
  <2>6. PICK m \in DOMAIN fdMap : fdMap[m].node = e
    BY <1>4, <2>3, <2>5
  <2>7. m # l
    BY <1>3, <2>2, <2>3, <2>6
  <2>8. QED
    BY <1>3, <2>2, <2>3, <2>6, <2>7
<1>11. CASE fdMap[l].ix = 0
  <2>1. Len(kids'[Root]) = L - 1
    BY <1>1, <1>11, RoundTree
  <2>2. Len(kids'[Root]) - p = b - 1 /\ b - 1 \in Nat
    BY <1>1, <1>2, <1>4, <1>6, <2>1
  <2>3. \A m \in DOMAIN fdMap' : fdMap'[m].ix > 0 => p < fdMap'[m].ix
    BY <1>3, <1>4
  <2>4. ASSUME NEW i \in (p + 1)..nextIx PROVE \E m \in DOMAIN fdMap' : fdMap'[m].ix = i
    <3>1. PICK m \in DOMAIN fdMap : fdMap[m].ix = i
      BY <1>4
    <3>2. m # l
      BY <1>11, <3>1
    <3>3. QED
      BY <1>3, <3>1, <3>2
  <2>5. \A r \in References : Fold(node[r].name) # l
    BY <1>3, <1>11, ReferredTo
  <2>6. \A r \in References' : Fold(node'[r].name) \in DOMAIN fdMap' \/ node'[r].ix \in 1..p
    BY <1>3, <1>4, <1>7, <2>5
  <2>7. /\ Len(kids'[Root]) - p \in Nat
        /\ \A i \in 1..p :
             /\ Defines(kids'[Root][Len(kids'[Root]) - p + i])
             /\ \A m \in DOMAIN fdMap' : fdMap'[m].node # kids'[Root][Len(kids'[Root]) - p + i]
             /\ \A r \in References' :
                  node'[r].ix = i => node'[kids'[Root][Len(kids'[Root]) - p + i]].name = node'[r].name
        /\ \A i \in 1..(Len(kids'[Root]) - p) : Defines(kids'[Root][i]) => \E m \in DOMAIN fdMap' : fdMap'[m].node = kids'[Root][i]
    <3>1. ASSUME NEW i \in 1..p PROVE Len(kids'[Root]) - p + i = b - 1 + i
      BY <2>2
    <3>2. Len(kids'[Root]) - p \in Nat /\ 1..(Len(kids'[Root]) - p) = 1..(b - 1)
      BY <2>2
    <3>3. ASSUME NEW i \in 1..p
          PROVE  /\ Defines(kids'[Root][Len(kids'[Root]) - p + i])
                 /\ \A m \in DOMAIN fdMap' : fdMap'[m].node # kids'[Root][Len(kids'[Root]) - p + i]
                 /\ \A r \in References' :
                      node'[r].ix = i => node'[kids'[Root][Len(kids'[Root]) - p + i]].name = node'[r].name
      BY <1>9, <3>1, Zenon
    <3>4. QED
      BY <1>10, <3>2, <3>3, Zenon
  <2>8. Lined(p)'
    BY <1>3, <1>4, <2>3, <2>4, <2>6, <2>7 DEF Lined, IsDefinition
  <2>9. QED
    BY <2>8
<1>12. CASE fdMap[l].ix # 0
  <2>1. Len(kids'[Root]) = L /\ kids'[Root][L] = d
    BY <1>1, <1>12, RoundTree
  <2>2. PICK q : q = p + 1
    OBVIOUS
  <2>3. Len(kids'[Root]) - q = b - 1 /\ b - 1 \in Nat /\ (b - 1) + q = L
    <3>1. L \in Nat /\ p < L /\ b = L - p
      BY <1>1, <1>2, <1>6
    <3>2. L - (p + 1) = b - 1 /\ b - 1 \in Nat /\ (b - 1) + (p + 1) = L
      BY <3>1
    <3>3. QED
      BY <2>1, <2>2, <3>2
\* The number of d is the next one
  <2>4. fdMap[l].ix = q /\ q <= nextIx /\ q \in Nat
    <3>1. fdMap[l].ix \in Nat /\ fdMap[l].ix <= nextIx
      BY <1>2, <1>3 DEF Fd, PlaceInv, Labelled
    <3>2. p < fdMap[l].ix
      BY <1>3, <1>4, <1>12, <3>1
    <3>3. q \in (p + 1)..nextIx
      BY <1>2, <2>2, <3>1, <3>2
    <3>4. PICK m \in DOMAIN fdMap : fdMap[m].ix = q
      BY <1>4, <3>3
    <3>5. fdMap[l].ix <= q
      BY <1>3, <3>4 DEF First
    <3>6. QED
      BY <1>2, <2>2, <3>1, <3>2, <3>5
  <2>5. \A m \in DOMAIN fdMap : fdMap[m].ix = q => m = l
    BY <1>2, <1>3, <2>2, <2>4 DEF PlaceInv, OwnIx
  <2>6. ASSUME NEW r \in References, Fold(node[r].name) = l PROVE node[r].ix = q /\ node[d].name = node[r].name
    BY <1>3, <2>4, <2>6, ReferredTo
  <2>7. ASSUME NEW r \in References, node[r].ix = q PROVE node[d].name = node[r].name
    <3>1. Fold(node[r].name) \in DOMAIN fdMap
      BY <1>4, <2>2, <2>7
    <3>2. fdMap[Fold(node[r].name)].ix = q
      <4>1. PICK m : m = Fold(node[r].name)
        OBVIOUS
      <4>2. node[r].ix = fdMap[m].ix
        BY <3>1, <4>1, ReferredTo
      <4>3. QED
        BY <2>7, <4>1, <4>2
    <3>3. QED
      BY <2>5, <2>6, <3>1, <3>2
  <2>8. ASSUME NEW i \in 1..q
        PROVE  /\ Defines(kids'[Root][b - 1 + i])
               /\ \A m \in DOMAIN fdMap' : fdMap'[m].node # kids'[Root][b - 1 + i]
               /\ \A r \in References' : node'[r].ix = i => node'[kids'[Root][b - 1 + i]].name = node'[r].name
    <3>1. CASE i \in 1..p
      BY <1>9, <3>1
    <3>2. CASE i \notin 1..p
      <4>1. i = q
        BY <2>2, <2>4, <3>2
      <4>2. kids'[Root][b - 1 + i] = d
        BY <2>1, <2>3, <4>1
      <4>3. Defines(d)
        BY <1>3, <1>7
      <4>4. Defines(kids'[Root][b - 1 + i])
        BY <4>2, <4>3
      <4>5. \A r \in References' : node'[r].ix = i => node'[d].name = node'[r].name
        BY <1>3, <1>7, <2>7, <4>1
      <4>6. QED
        BY <1>3, <4>2, <4>4, <4>5
    <3>3. QED
      BY <3>1, <3>2
  <2>9. ASSUME NEW m \in DOMAIN fdMap', fdMap'[m].ix > 0 PROVE q < fdMap'[m].ix
    <3>1. fdMap[m].ix # q /\ p < fdMap[m].ix /\ fdMap[m].ix \in Nat /\ fdMap'[m] = fdMap[m]
      BY <1>2, <1>3, <1>4, <2>5, <2>9 DEF Fd
    <3>2. QED
      BY <2>2, <3>1
  <2>10. ASSUME NEW i \in (q + 1)..nextIx PROVE \E m \in DOMAIN fdMap' : fdMap'[m].ix = i
    <3>1. i \in (p + 1)..nextIx /\ i # q
      BY <2>2, <2>4
    <3>2. PICK m \in DOMAIN fdMap : fdMap[m].ix = i
      BY <1>4, <3>1
    <3>3. m # l
      BY <2>4, <3>1, <3>2
    <3>4. QED
      BY <1>3, <3>2, <3>3
  <2>11. \A r \in References' : Fold(node'[r].name) \in DOMAIN fdMap' \/ node'[r].ix \in 1..q
    <3>1. ASSUME NEW r \in References PROVE Fold(node[r].name) \in DOMAIN fdMap \ {l} \/ node[r].ix \in 1..q
      <4>1. CASE Fold(node[r].name) = l
        BY <2>2, <2>4, <2>6, <4>1
      <4>2. CASE Fold(node[r].name) # l
        BY <1>4, <2>2, <4>2
      <4>3. QED
        BY <4>1, <4>2
    <3>2. QED
      BY <1>3, <1>7, <3>1
  <2>12. q \in 0..nextIx
    BY <1>2, <2>4
  <2>13. /\ Len(kids'[Root]) - q \in Nat
         /\ \A i \in 1..q :
              /\ Defines(kids'[Root][Len(kids'[Root]) - q + i])
              /\ \A m \in DOMAIN fdMap' : fdMap'[m].node # kids'[Root][Len(kids'[Root]) - q + i]
              /\ \A r \in References' :
                   node'[r].ix = i => node'[kids'[Root][Len(kids'[Root]) - q + i]].name = node'[r].name
         /\ \A i \in 1..(Len(kids'[Root]) - q) : Defines(kids'[Root][i]) => \E m \in DOMAIN fdMap' : fdMap'[m].node = kids'[Root][i]
    <3>1. ASSUME NEW i \in 1..q PROVE Len(kids'[Root]) - q + i = b - 1 + i
      BY <2>3
    <3>2. Len(kids'[Root]) - q \in Nat /\ 1..(Len(kids'[Root]) - q) = 1..(b - 1)
      BY <2>3
    <3>3. ASSUME NEW i \in 1..q
          PROVE  /\ Defines(kids'[Root][Len(kids'[Root]) - q + i])
                 /\ \A m \in DOMAIN fdMap' : fdMap'[m].node # kids'[Root][Len(kids'[Root]) - q + i]
                 /\ \A r \in References' :
                      node'[r].ix = i => node'[kids'[Root][Len(kids'[Root]) - q + i]].name = node'[r].name
      BY <2>8, <3>1, Zenon
    <3>4. QED
      BY <1>10, <3>2, <3>3, Zenon
  <2>14. Lined(q)'
    BY <1>3, <2>9, <2>10, <2>11, <2>12, <2>13 DEF Lined, IsDefinition
  <2>15. QED
    BY <2>4, <2>14
<1>13. QED
  BY <1>11, <1>12

LEMMA PlaceKeeps == ASSUME NotesInv, Place PROVE NotesInv'
<1>1. phase = "placing" /\ fdMap' \in [DOMAIN fdMap' -> Fd]
  BY PlaceIs
<1>2. PICK l, d : Round(l, d)
  BY PlaceIs
<1>3. /\ Typed /\ Paired /\ TreeInv /\ PlaceInv
      /\ Nodes = 1..Len(node) /\ Containers = 0..Len(node) /\ Len(node) \in Nat
      /\ \A m \in DOMAIN fdMap : fdMap[m] \in Fd
  BY <1>1, PlacingIs
<1>4. /\ l \in DOMAIN fdMap /\ d = fdMap[l].node /\ d \in Nodes /\ IsDefinition(d)
      /\ Fold(fdMap[l].name) = l /\ node[d].name = fdMap[l].name
      /\ DOMAIN fdMap' = DOMAIN fdMap \ {l}
      /\ \A m \in DOMAIN fdMap' : fdMap'[m] = fdMap[m] /\ fdMap[m].node # d
      /\ node' \in Seq(NodeRec) /\ Len(node') = Len(node) /\ Nodes' = Nodes
      /\ \A n \in Nodes : /\ node'[n].kind = node[n].kind /\ node'[n].name = node[n].name /\ node'[n].ix = node[n].ix
                          /\ n # d => node'[n] = node[n]
      /\ node'[d].num = IF fdMap[l].ix = 0 THEN node[d].num ELSE fdMap[l].total
      /\ leave => kids' = kids
      /\ removed' = removed \cup (IF ~leave /\ fdMap[l].ix = 0 THEN {d} ELSE {})
      /\ UNCHANGED <<leave, phase, open, defs, next, saw, walk, nextIx, written>>
  BY <1>2 DEF Round
<1>5. /\ References' = References /\ Definitions' = Definitions
      /\ \A n \in Nodes : (IsInline(n)' <=> IsInline(n)) /\ (IsDefinition(n)' <=> IsDefinition(n))
      /\ \A r \in References : r \in Nodes /\ node'[r] = node[r]
  BY <1>2, RoundKinds
<1>6. /\ Forest(kids', Len(node)) /\ \A c \in Nodes : kids'[c] = kids[c]
      /\ Listed(kids'[Root]) = Listed(kids[Root]) \ (IF ~leave /\ fdMap[l].ix = 0 THEN {d} ELSE {})
  BY <1>1, <1>2, RoundTree
<1>7. Labelled(l)
  BY <1>3, <1>4 DEF PlaceInv
<1>8. \A n \in Nodes : n \in Nat /\ node[n].num \in Nat
  BY <1>1, <1>3, PlacingIs
\* The tree
<1>9. TreeInv'
  <2>1. ASSUME NEW n \in Nodes \ removed' PROVE Held(kids', Len(node), n)
    <3>1. PICK c \in 0..Len(node) : n \in Listed(kids[c])
      BY <1>3, <1>4 DEF TreeInv, Held
    <3>2. n \in Listed(kids'[c])
      <4>1. CASE c = Root
        BY <1>4, <1>6, <3>1, <4>1
      <4>2. CASE c # Root
        <5>1. c \in Nodes
          BY <1>3, <4>2 DEF Containers
        <5>2. QED
          BY <1>6, <3>1, <5>1
      <4>3. QED
        BY <4>1, <4>2
    <3>3. QED
      BY <3>2 DEF Held
  <2>2. \A n \in removed' : n \in Nodes /\ IsDefinition(n)
    BY <1>3, <1>4 DEF TreeInv
  <2>3. \A n \in Nodes : ~IsDefinition(n) => kids'[n] = <<>>
    BY <1>3, <1>6 DEF TreeInv
  <2>4. QED
    BY <1>4, <1>5, <1>6, <2>1, <2>2, <2>3 DEF TreeInv
<1>10. Paired'
  <2>1. \A n \in Nodes : IsInline(n)' <=> IsInline(n)
    BY <1>5
  <2>2. QED
    BY <1>3, <1>4, <2>1 DEF Paired
\* The numbers
<1>11. AllNumbered'
  <2>1. \A r \in References' : node'[r].num > 0
    BY <1>3, <1>5 DEF PlaceInv, AllNumbered
  <2>2. ASSUME NEW e \in Definitions, node'[e].num > 0 PROVE CountsTo(node[e].name, node[e].num)'
    <3>1. e \in Nodes
      BY DEF Definitions
    <3>2. PICK name, total : name = node'[e].name /\ total = node'[e].num
      OBVIOUS
    <3>3. CountsTo(name, total)
      <4>1. CASE e = d /\ fdMap[l].ix # 0
        BY <1>4, <1>7, <3>1, <3>2, <4>1 DEF Labelled
      <4>2. CASE ~(e = d /\ fdMap[l].ix # 0)
        <5>1. name = node[e].name /\ total = node[e].num
          BY <1>4, <3>1, <3>2, <4>2
        <5>2. QED
          BY <1>3, <2>2, <3>2, <5>1 DEF PlaceInv, AllNumbered
      <4>3. QED
        BY <4>1, <4>2
    <3>4. CountsTo(name, total)'
      BY <1>2, <3>3, RoundCounts
    <3>5. QED
      BY <3>2, <3>4 DEF CountsTo
  <2>3. NoInlines' => FirstUses'
    <3>1. NoInlines' => NoInlines
      BY <1>4, <1>5 DEF NoInlines
    <3>2. FirstUses => FirstUses'
      BY <1>5 DEF FirstUses
    <3>3. QED
      BY <1>3, <3>1, <3>2 DEF PlaceInv, AllNumbered
  <2>4. QED
    BY <1>5, <2>1, <2>2, <2>3 DEF AllNumbered
\* The references
<1>12. ASSUME NEW r \in References'
       PROVE  Shows(r)' \/ (Fold(node'[r].name) \notin DOMAIN fdMap' /\ Leads(r)')
  <2>1. r \in References /\ r \in Nodes /\ node'[r] = node[r]
    BY <1>5
  <2>2. PICK m : m = Fold(node[r].name)
    OBVIOUS
  <2>3. CASE m = l
    <3>1. node[r].name = fdMap[l].name /\ fdMap[l].ix > 0 /\ fdMap[l].ix \in Nat
      <4>1. l \in DOMAIN fdMap /\ r \in References /\ Fold(node[r].name) = l
        BY <1>4, <2>1, <2>2, <2>3
      <4>2. QED
        BY <1>1, <4>1, ReferredTo
    <3>2. d \in Listed(kids'[Root])
      BY <1>4, <1>6, <1>7, <3>1 DEF Labelled
    <3>3. Leads(r)'
      <4>1. IsDefinition(d)' /\ node'[d].name = node'[r].name
        BY <1>4, <1>5, <2>1, <3>1
      <4>2. QED
        BY <3>2, <4>1 DEF Leads
    <3>4. QED
      BY <1>4, <2>1, <2>2, <2>3, <3>3
  <2>4. CASE m # l /\ Shows(r)
    <3>1. m \in DOMAIN fdMap' /\ fdMap'[m] = fdMap[m]
      BY <1>4, <2>2, <2>4 DEF Shows
    <3>2. Shows(r)'
      BY <2>1, <2>2, <2>4, <3>1 DEF Shows
    <3>3. QED
      BY <3>2
  <2>5. CASE m # l /\ m \notin DOMAIN fdMap /\ Leads(r)
    <3>1. PICK e \in Listed(kids[Root]) : IsDefinition(e) /\ node[e].name = node[r].name
      BY <2>5 DEF Leads
    <3>2. e # d
      BY <1>4, <2>2, <2>5, <3>1
    <3>3. e \in Nodes
      BY <1>1, <3>1, PlacingIs
    <3>4. e \in Listed(kids'[Root]) /\ IsDefinition(e)' /\ node'[e].name = node'[r].name
      BY <1>4, <1>5, <1>6, <2>1, <3>1, <3>2, <3>3
    <3>5. Leads(r)'
      BY <3>4 DEF Leads
    <3>6. QED
      BY <1>4, <2>1, <2>2, <2>5, <3>5
  <2>6. Shows(r) \/ (m \notin DOMAIN fdMap /\ Leads(r))
    BY <1>3, <2>1, <2>2 DEF PlaceInv
  <2>7. QED
    BY <2>3, <2>4, <2>5, <2>6
\* The inline definitions
<1>13. ASSUME NEW n \in Nodes, IsInline(n)
       PROVE  node'[n].num > 0 \/ (Fold(node'[n].name) \in DOMAIN fdMap' /\ fdMap'[Fold(node'[n].name)].node = n)
  <2>1. PICK m : m = Fold(node[n].name)
    OBVIOUS
  <2>2. CASE n = d
    <3>1. n - 1 \in References /\ Fold(node[n - 1].name) = l
      BY <1>3, <1>4, <1>13, <2>2 DEF Paired, References
    <3>2. fdMap[l].ix > 0 /\ fdMap[l].ix \in Nat
      BY <1>1, <1>4, <3>1, ReferredTo
    <3>3. fdMap[l].total # 0 /\ fdMap[l].total \in Nat
      BY <1>3, <1>4, <1>7, <3>2 DEF Labelled, Fd
    <3>4. QED
      BY <1>4, <2>2, <3>2, <3>3
  <2>3. CASE n # d
    <3>1. node[n].num > 0 \/ (m \in DOMAIN fdMap /\ fdMap[m].node = n)
      BY <1>3, <1>13, <2>1 DEF PlaceInv
    <3>2. node'[n] = node[n]
      BY <1>4, <2>3
    <3>3. m \in DOMAIN fdMap /\ fdMap[m].node = n => m # l
      BY <1>4, <2>3
    <3>4. QED
      BY <1>4, <2>1, <3>1, <3>2, <3>3
  <2>4. QED
    BY <2>2, <2>3
<1>14. OwnIx'
  BY <1>3, <1>4 DEF PlaceInv, OwnIx
<1>15. ~leave /\ ~Leftover' /\ ~Nested' => \E q \in Nat : Lined(q)'
  <2>1. SUFFICES ASSUME ~leave, ~Leftover', ~Nested' PROVE \E q \in Nat : Lined(q)'
    OBVIOUS
  <2>2. ~Leftover /\ ~Nested
    <3>1. \A n \in Definitions : n \in Nodes /\ kids'[n] = kids[n] /\ node'[n].name = node[n].name
      BY <1>4, <1>6 DEF Definitions
    <3>2. QED
      BY <1>5, <2>1, <3>1 DEF Leftover, Nested
  <2>3. PICK p \in Nat : Lined(p)
    BY <1>3, <2>1, <2>2 DEF PlaceInv
  <2>4. QED
    BY <1>1, <1>2, <2>1, <2>3, RoundLined
<1>16. PlaceInv'
  <2>1. \A m \in DOMAIN fdMap' : Labelled(m)'
    BY <1>1, <1>2, RoundLabels
  <2>2. \A n \in Nodes' : IsInline(n)' =>
           node'[n].num > 0 \/ (Fold(node'[n].name) \in DOMAIN fdMap' /\ fdMap'[Fold(node'[n].name)].node = n)
    BY <1>4, <1>5, <1>13
  <2>3. written' = Unwritten /\ (leave' => removed' = {})
    BY <1>3, <1>4 DEF PlaceInv
  <2>4. QED
    BY <1>4, <1>11, <1>12, <1>14, <1>15, <2>1, <2>2, <2>3 DEF PlaceInv
<1>17. Typed'
  <2>1. removed' \in SUBSET Nat
    BY <1>3, <1>4, <1>8 DEF Typed
  <2>2. QED
    BY <1>1, <1>3, <1>4, <2>1 DEF Typed
<1>18. QED
  BY <1>1, <1>4, <1>9, <1>10, <1>16, <1>17 DEF NotesInv

\* The definitions are placed, the list of them is in line
LEMMA EndOfPlacingKeeps == ASSUME NotesInv, EndOfPlacing PROVE NotesInv'
<1>1. /\ phase = "placing" /\ fdMap = <<>> /\ phase' = "rendering" /\ walk' = Entries(kids[Root])
      /\ UNCHANGED <<leave, node, kids, open, defs, next, saw, fdMap, nextIx, written, removed>>
  BY DEF EndOfPlacing
<1>2. /\ Typed /\ Paired /\ TreeInv /\ PlaceInv
      /\ Nodes = 1..Len(node) /\ Len(node) \in Nat /\ Forest(kids, Len(node))
      /\ kids[Root] \in Seq(Nodes) /\ nextIx \in Nat
  BY <1>1, PlacingIs
<1>3. DOMAIN fdMap = {}
  BY <1>1
<1>4. PICK s, w : s = kids[Root] /\ w = Entries(s)
  OBVIOUS
<1>5. Met(kids, Len(node), w, {}) /\ w \in Seq(Entry) /\ \A i \in DOMAIN w : ~w[i].leaving
  BY <1>2, <1>4, WalkBegins
<1>6. /\ s \in Seq(Nodes) /\ s \in Seq(Nat) /\ Len(s) \in Nat
      /\ Len(w) = Len(s) /\ \A i \in 1..Len(s) : w[i].at = s[i] /\ ~w[i].leaving
  <2>1. Nodes \subseteq Nat
    BY <1>2
  <2>2. s \in Seq(Nodes) /\ s \in Seq(Nat)
    BY <1>2, <1>4, <2>1, SeqWidens
  <2>3. QED
    BY <1>4, <2>2, EntriesAre
<1>7. written' = Unwritten /\ walk' = w /\ kids'[Root] = s
  BY <1>1, <1>2, <1>4 DEF PlaceInv
<1>8. AllNumbered'
  BY <1>1, <1>2 DEF PlaceInv, AllNumbered, CountsTo, FirstUses, NoInlines, IsInline, References, Definitions, Nodes
<1>9. \A r \in References : Leads(r)
  BY <1>2, <1>3 DEF PlaceInv, Shows
<1>10. \A d \in Nodes : IsInline(d) => node[d].num > 0
  BY <1>2, <1>3 DEF PlaceInv
<1>11. Rendered({})'
  <2>1. Met(kids', Len(node'), walk', {})
    BY <1>1, <1>5, <1>7
  <2>2. \A i \in DOMAIN walk' : ~walk'[i].leaving
    BY <1>5, <1>7
  <2>3. written'.refs = {} /\ Listed(written'.items) = {}
    BY <1>7, ListedEmpty DEF Unwritten
  <2>4. QED
    BY <2>1, <2>2, <2>3 DEF Rendered
<1>12. ASSUME ~leave, ~Leftover, ~Nested PROVE Aligned(0)'
  <2>1. PICK p \in Nat : Lined(p)
    BY <1>2, <1>12 DEF PlaceInv
  <2>2. /\ p \in 0..nextIx /\ Len(s) - p \in Nat
        /\ \A i \in 1..p : /\ IsDefinition(s[Len(s) - p + i])
                           /\ \A r \in References : node[r].ix = i => node[s[Len(s) - p + i]].name = node[r].name
        /\ \A i \in 1..(Len(s) - p) : ~IsDefinition(s[i])
        /\ \A i \in (p + 1)..nextIx : FALSE
        /\ \A r \in References : node[r].ix \in 1..p
    BY <1>3, <1>4, <2>1 DEF Lined
  <2>3. p = nextIx
    <3>1. ~(p + 1 <= nextIx)
      BY <1>2, <2>2
    <3>2. QED
      BY <1>2, <2>2, <3>1
  <2>4. /\ Len(s) - nextIx \in Nat
        /\ \A i \in 1..nextIx : /\ IsDefinition(s[Len(s) - nextIx + i])
                                /\ \A r \in References : node[r].ix = i => node[s[Len(s) - nextIx + i]].name = node[r].name
        /\ \A i \in 1..(Len(s) - nextIx) : ~IsDefinition(s[i])
        /\ \A r \in References : node[r].ix \in 1..nextIx
    BY <2>2, <2>3
  <2>5. Aligned(0)
    <3>1. written.items = <<>>
      BY <1>1, <1>7 DEF Unwritten
    <3>2. 0 <= Len(s) - nextIx
      BY <1>2, <1>6, <2>4
    <3>3. QED
      BY <1>4, <2>4, <3>1, <3>2 DEF Aligned
  <2>6. QED
    BY <1>1, <2>5 DEF Aligned, IsDefinition, References, Nodes
<1>13. ~Nested' => Framed(0, 0)'
  <2>1. (Leftover' <=> Leftover) /\ (Nested' <=> Nested)
    BY <1>1 DEF Leftover, Nested, Definitions, Nodes
  <2>2. ~Nested' /\ ~leave' /\ ~Leftover' => Aligned(0)'
    BY <1>1, <1>12, <2>1
  <2>3. /\ written'.items = <<>> /\ written'.backs = <<>> /\ written'.ix = 0
    BY <1>7 DEF Unwritten
  <2>4. /\ 0 \in 0..Len(s) /\ Len(s) - 0 = Len(s) /\ Len(walk') = 0 + (Len(s) - 0)
        /\ \A i \in 1..(Len(s) - 0) : walk'[0 + i].at = s[0 + i] /\ ~walk'[0 + i].leaving
    BY <1>6, <1>7
  <2>5. QED
    BY <1>7, <2>2, <2>3, <2>4 DEF Framed, LinkedTo
<1>14. RenderInv'
  <2>1. \E D \in SUBSET Nodes' : Rendered(D)'
    BY <1>11
  <2>2. \A i \in DOMAIN written'.backs : FALSE
    BY <1>7 DEF Unwritten
  <2>3. (\A r \in References' : Leads(r)') /\ \A d \in Nodes' : IsInline(d)' => node'[d].num > 0
    BY <1>1, <1>9, <1>10 DEF Leads, IsInline, IsDefinition, References, Nodes
  <2>4. QED
    BY <1>8, <1>13, <2>1, <2>2, <2>3 DEF RenderInv
<1>15. Typed' /\ Paired' /\ TreeInv'
  BY <1>1, <1>2, <1>5, <1>7 DEF Typed, Paired, TreeInv, IsDefinition, IsInline, Nodes
<1>16. QED
  BY <1>1, <1>14, <1>15 DEF NotesInv

(***************************************************************************)
(* Rendering                                                               *)
(***************************************************************************)
LEMMA RenderingIs ==
  ASSUME NotesInv, phase = "rendering"
  PROVE  /\ Typed /\ Paired /\ TreeInv /\ RenderInv
         /\ Nodes = 1..Len(node) /\ Len(node) \in Nat /\ Forest(kids, Len(node))
         /\ walk \in Seq(Entry) /\ written \in Book
         /\ kids[Root] \in Seq(Nodes) /\ Listed(kids[Root]) \subseteq Nodes
         /\ \A c \in Nodes : kids[c] \in Seq(Nodes) /\ kids[c] \in Seq(Nat)
         /\ Nodes \subseteq Nat
<1>1. Typed /\ Paired /\ TreeInv /\ RenderInv
  BY DEF NotesInv
<1>2. Nodes = 1..Len(node) /\ Len(node) \in Nat /\ Nodes \subseteq Nat
  BY <1>1, ContainersAre
<1>3. Forest(kids, Len(node)) /\ Root \in 0..Len(node) /\ \A c \in Nodes : c \in 0..Len(node)
  BY <1>1, <1>2 DEF TreeInv, Root
<1>4. kids[Root] \in Seq(Nodes) /\ \A c \in Nodes : kids[c] \in Seq(Nodes)
  BY <1>2, <1>3 DEF Forest
<1>5. Listed(kids[Root]) \subseteq Nodes
  BY <1>4, ListedIn
<1>6. \A c \in Nodes : kids[c] \in Seq(Nat)
  BY <1>2, <1>4, SeqWidens
<1>7. QED
  BY <1>1, <1>2, <1>3, <1>4, <1>5, <1>6 DEF Typed

\* Of an entry that is not a leaving one the node is met
LEMMA TopIsMet ==
  ASSUME NotesInv, phase = "rendering", walk # <<>>, ~walk[1].leaving, NEW D, Rendered(D)
  PROVE  /\ Top \in Nodes \ D /\ Rest \in Seq(Entry) /\ EntersOnce(Rest) /\ 1 \in DOMAIN walk
         /\ Top \in Ahead(walk) /\ Ahead(Rest) = Ahead(walk) \ {Top} /\ Ahead(walk) \subseteq Nodes \ D
         /\ Listed(kids[Top]) \cap Ahead(walk) = {}
<1>1. walk \in Seq(Entry) /\ Nodes = 1..Len(node) /\ Len(node) \in Nat
  BY RenderingIs
<1>2. Met(kids, Len(node), walk, D)
  BY DEF Rendered
<1>3. EntersOnce(walk) /\ Ahead(walk) \subseteq Nodes \ D
  BY <1>1, <1>2 DEF Met
<1>4. PICK v : v = SubSeq(walk, 2, Len(walk))
  OBVIOUS
<1>5. v \in Seq(Entry) /\ 1 \in DOMAIN walk
  BY <1>1, <1>4, RestIs
<1>6. EntersOnce(v) /\ walk[1].at \in Ahead(walk) /\ Ahead(v) = Ahead(walk) \ {walk[1].at}
  BY <1>1, <1>3, <1>4, RestAhead, ZenonT(30)
<1>7. Listed(kids[Top]) \cap Ahead(walk) = {}
  BY <1>1, <1>2, <1>3, <1>6 DEF Met, Top
<1>8. QED
  BY <1>3, <1>4, <1>5, <1>6, <1>7 DEF Rest, Top

LEMMA LinksBackIs ==
  ASSUME NEW w \in Book, NEW d \in Nat, NEW x, x = LinksBack(w, d)
  PROVE  /\ x \in Book /\ x.items = w.items /\ x.refs = w.refs
         /\ \A i \in DOMAIN x.backs : x.backs[i].def = d \/ (i \in DOMAIN w.backs /\ x.backs[i] = w.backs[i])
         /\ LinkedTo(w) /\ Len(w.items) > 0 /\ Len(w.items) <= w.ix + 1 /\ d = w.items[Len(w.items)] =>
              LinkedTo(x) /\ x.ix = Len(x.items)
<1>1. /\ w.items \in Seq(Nat) /\ w.refs \in SUBSET Nat /\ w.backs \in Seq([def : Nat, item : Nat]) /\ w.ix \in Nat
      /\ Len(w.items) \in Nat /\ Len(w.backs) \in Nat
  BY DEF Book
<1>2. CASE w.ix >= Len(w.items)
  <2>1. x = w
    BY <1>2 DEF LinksBack
  <2>2. LinkedTo(w) => w.ix = Len(w.items)
    BY <1>1, <1>2 DEF LinkedTo
  <2>3. QED
    BY <2>1, <2>2
<1>3. CASE ~(w.ix >= Len(w.items))
  <2>1. PICK back, backs : back = [def |-> d, item |-> Len(w.items)] /\ backs = Append(w.backs, back)
    OBVIOUS
  <2>2. x = [w EXCEPT !.ix = Len(w.items), !.backs = backs]
    BY <1>3, <2>1 DEF LinksBack
  <2>3. back \in [def : Nat, item : Nat] /\ back.def = d
    BY <1>1, <2>1
  <2>4. /\ backs \in Seq([def : Nat, item : Nat]) /\ Len(backs) = Len(w.backs) + 1
        /\ backs[Len(w.backs) + 1] = back
        /\ \A i \in 1..Len(w.backs) : backs[i] = w.backs[i]
    BY <1>1, <2>1, <2>3
  <2>5. x \in Book /\ x.items = w.items /\ x.refs = w.refs /\ x.backs = backs /\ x.ix = Len(w.items)
    BY <1>1, <2>2, <2>4 DEF Book
  <2>6. ASSUME NEW i \in DOMAIN x.backs PROVE x.backs[i].def = d \/ (i \in DOMAIN w.backs /\ x.backs[i] = w.backs[i])
    <3>1. i \in 1..(Len(w.backs) + 1)
      BY <2>4, <2>5
    <3>2. CASE i \in 1..Len(w.backs)
      <4>1. x.backs[i] = w.backs[i]
        BY <2>4, <2>5, <3>2
      <4>2. i \in DOMAIN w.backs
        BY <1>1, <3>2
      <4>3. QED
        BY <4>1, <4>2
    <3>3. CASE i = Len(w.backs) + 1
      <4>1. x.backs[i] = back
        BY <2>4, <2>5, <3>3
      <4>2. QED
        BY <2>3, <4>1
    <3>4. QED
      BY <1>1, <3>1, <3>2, <3>3
  <2>7. ASSUME LinkedTo(w), Len(w.items) > 0, Len(w.items) <= w.ix + 1, d = w.items[Len(w.items)]
        PROVE  LinkedTo(x) /\ x.ix = Len(x.items)
    <3>1. w.ix + 1 = Len(w.items) /\ Len(w.backs) = w.ix
      BY <1>1, <1>3, <2>7 DEF LinkedTo
    <3>2. ASSUME NEW i \in 1..Len(w.items) PROVE x.backs[i] = [def |-> x.items[i], item |-> i]
      <4>1. CASE i = Len(w.items)
        BY <2>1, <2>4, <2>5, <2>7, <3>1, <4>1
      <4>2. CASE i # Len(w.items)
        <5>1. i \in 1..Len(w.backs)
          BY <1>1, <3>1, <4>2
        <5>2. QED
          BY <2>4, <2>5, <2>7, <3>1, <5>1 DEF LinkedTo
      <4>3. QED
        BY <4>1, <4>2
    <3>3. Len(x.backs) = x.ix /\ x.ix <= Len(x.items)
      BY <1>1, <2>4, <2>5, <3>1
    <3>4. QED
      BY <2>5, <3>2, <3>3 DEF LinkedTo
  <2>8. QED
    BY <2>5, <2>6, <2>7
<1>4. QED
  BY <1>2, <1>3

\* A frame without entries of a definition begins with a child of the root
LEMMA FrameAtRoot ==
  ASSUME NotesInv, phase = "rendering", walk # <<>>, NEW q, Framed(q, 0)
  PROVE  /\ ~walk[1].leaving /\ q + 1 \in 1..Len(kids[Root]) /\ q \in Nat /\ Top = kids[Root][q + 1]
         /\ Len(Rest) = Len(kids[Root]) - (q + 1) /\ Len(kids[Root]) \in Nat
         /\ \A i \in 1..(Len(kids[Root]) - (q + 1)) : Rest[i].at = kids[Root][(q + 1) + i] /\ ~Rest[i].leaving
         /\ LinkedTo(written) /\ written.ix = Len(written.items)
<1>1. PICK s, v, n : s = kids[Root] /\ v = Rest /\ n = Len(s)
  OBVIOUS
<1>2. n \in Nat /\ walk \in Seq(Entry)
  BY <1>1, RenderingIs
<1>3. /\ q \in 0..n /\ Len(walk) = 0 + (n - q)
      /\ \A i \in 1..(n - q) : walk[0 + i].at = s[q + i] /\ ~walk[0 + i].leaving
      /\ LinkedTo(written) /\ written.ix = Len(written.items)
  BY <1>1 DEF Framed
<1>4. /\ Len(v) = Len(walk) - 1 /\ Len(walk) \in Nat \ {0} /\ DOMAIN v = 1..(Len(walk) - 1)
      /\ \A i \in DOMAIN v : v[i] = walk[i + 1]
  BY <1>1, <1>2, WalkRest
<1>5. q + 1 \in 1..n /\ q \in Nat /\ n - q > 0
  BY <1>2, <1>3, <1>4
<1>6. ~walk[1].leaving /\ walk[1].at = s[q + 1]
  <2>1. 1 \in 1..(n - q) /\ 0 + 1 = 1
    BY <1>2, <1>5
  <2>2. QED
    BY <1>3, <2>1
<1>7. Len(v) = n - (q + 1)
  BY <1>2, <1>3, <1>4, <1>5
<1>8. ASSUME NEW i \in 1..(n - (q + 1)) PROVE v[i].at = s[(q + 1) + i] /\ ~v[i].leaving
  <2>1. i + 1 \in 1..(n - q) /\ 0 + (i + 1) = i + 1 /\ q + (i + 1) = (q + 1) + i /\ i \in 1..(Len(walk) - 1)
    <3>1. PICK l : l = Len(walk)
      OBVIOUS
    <3>2. n \in Nat /\ q \in Nat /\ l = n - q
      BY <1>2, <1>3, <1>5, <3>1
    <3>3. i + 1 \in 1..(n - q) /\ 0 + (i + 1) = i + 1 /\ q + (i + 1) = (q + 1) + i /\ i \in 1..(l - 1)
      BY <3>2
    <3>4. QED
      BY <3>1, <3>3
  <2>2. v[i] = walk[i + 1]
    BY <1>4, <2>1
  <2>3. QED
    BY <1>3, <2>1, <2>2
<1>9. QED
  BY <1>1, <1>2, <1>3, <1>5, <1>6, <1>7, <1>8 DEF Rest, Top

\* The frame of a definition after its first entry, with g entries of the definition ahead
Inside(q, g) ==
  LET s == kids[Root]
      last == written.items[Len(written.items)]
  IN
  /\ g \in Nat /\ Len(Rest) = g + (Len(s) - q) /\ q \in 0..Len(s)
  /\ \A i \in 1..(Len(s) - q) : Rest[g + i].at = s[q + i] /\ ~Rest[g + i].leaving
  /\ LinkedTo(written) /\ Len(written.items) > 0 /\ Len(written.items) <= written.ix + 1
  /\ g = 0 => walk[1].leaving /\ Top = last
  /\ g > 0 => /\ Rest[g].leaving /\ Rest[g].at = last
              /\ ~walk[1].leaving /\ Top \in Listed(kids[last])
              /\ \A i \in 1..(g - 1) : ~Rest[i].leaving /\ Rest[i].at \in Listed(kids[last])

\* A frame with entries of a definition, the last of which leaves it
LEMMA FrameInside ==
  ASSUME NotesInv, phase = "rendering", walk # <<>>, NEW q, NEW h \in Nat, h > 0, Framed(q, h)
  PROVE  Inside(q, h - 1)
<1>1. PICK s, v, n, last : s = kids[Root] /\ v = Rest /\ n = Len(s) /\ last = written.items[Len(written.items)]
  OBVIOUS
<1>2. n \in Nat /\ walk \in Seq(Entry)
  BY <1>1, RenderingIs
<1>3. /\ q \in 0..n /\ Len(walk) = h + (n - q)
      /\ \A i \in 1..(n - q) : walk[h + i].at = s[q + i] /\ ~walk[h + i].leaving
      /\ LinkedTo(written) /\ Len(written.items) > 0 /\ Len(written.items) <= written.ix + 1
      /\ walk[h].leaving /\ walk[h].at = last
      /\ \A i \in 1..(h - 1) : ~walk[i].leaving /\ walk[i].at \in Listed(kids[last])
  BY <1>1 DEF Framed
<1>4. /\ Len(v) = Len(walk) - 1 /\ Len(walk) \in Nat \ {0} /\ DOMAIN v = 1..(Len(walk) - 1)
      /\ \A i \in DOMAIN v : v[i] = walk[i + 1]
  BY <1>1, <1>2, WalkRest
<1>5. PICK g \in Nat : g = h - 1
  OBVIOUS
<1>6. Len(v) = g + (n - q)
  BY <1>2, <1>3, <1>4, <1>5
<1>7. ASSUME NEW i \in 1..(n - q) PROVE v[g + i].at = s[q + i] /\ ~v[g + i].leaving
  <2>1. g + i \in 1..(Len(walk) - 1) /\ (g + i) + 1 = h + i
    BY <1>2, <1>3, <1>5
  <2>2. v[g + i] = walk[h + i]
    BY <1>4, <2>1
  <2>3. QED
    BY <1>3, <2>2
<1>8. v = Rest /\ walk[1].at = Top
  BY <1>1 DEF Rest, Top
<1>9. g = 0 => walk[1].leaving /\ walk[1].at = last
  BY <1>3, <1>5
<1>10. ASSUME g > 0
       PROVE  /\ v[g].leaving /\ v[g].at = last
              /\ ~walk[1].leaving /\ walk[1].at \in Listed(kids[last])
              /\ \A i \in 1..(g - 1) : ~v[i].leaving /\ v[i].at \in Listed(kids[last])
  <2>1. v[g].leaving /\ v[g].at = last
    <3>1. g \in 1..(Len(walk) - 1) /\ g + 1 = h
      BY <1>2, <1>3, <1>5, <1>10
    <3>2. v[g] = walk[h]
      BY <1>4, <3>1
    <3>3. QED
      BY <1>3, <3>2
  <2>2. ~walk[1].leaving /\ walk[1].at \in Listed(kids[last])
    BY <1>3, <1>5, <1>10
  <2>3. ASSUME NEW i \in 1..(g - 1) PROVE ~v[i].leaving /\ v[i].at \in Listed(kids[last])
    <3>1. i \in 1..(Len(walk) - 1) /\ i + 1 \in 1..(h - 1)
      BY <1>2, <1>3, <1>5
    <3>2. QED
      BY <1>3, <1>4, <3>1
  <2>4. QED
    BY <2>1, <2>2, <2>3
<1>11. Inside(q, g)
  BY <1>1, <1>3, <1>5, <1>6, <1>7, <1>8, <1>9, <1>10 DEF Inside
<1>12. QED
  BY <1>5, <1>11

\* A step of the renderer leaves the document as it is
LEMMA StillRendering ==
  ASSUME NotesInv, phase = "rendering",
         UNCHANGED <<leave, phase, node, kids, open, defs, next, saw, fdMap, nextIx, removed>>,
         walk' \in Seq(Entry), written' \in Book,
         \A i \in DOMAIN written'.backs : written'.backs[i].def \in Definitions,
         NEW E \in SUBSET Nodes, Rendered(E)',
         ~Nested => \E q, h \in Nat : Framed(q, h)'
  PROVE  NotesInv'
<1>1. Typed /\ Paired /\ TreeInv /\ RenderInv
  BY RenderingIs
<1>2. Typed' /\ Paired' /\ TreeInv'
  BY <1>1 DEF Typed, Paired, TreeInv, IsDefinition, IsInline, Nodes
<1>3. Nested' <=> Nested
  BY DEF Nested, Definitions, Nodes
<1>4. AllNumbered'
  BY <1>1 DEF RenderInv, AllNumbered, CountsTo, FirstUses, NoInlines, IsInline, References, Definitions, Nodes
<1>5. (\A r \in References' : Leads(r)') /\ \A d \in Nodes' : IsInline(d)' => node'[d].num > 0
  BY <1>1 DEF RenderInv, Leads, IsInline, IsDefinition, References, Nodes
<1>6. \A i \in DOMAIN written'.backs : written'.backs[i].def \in Definitions'
  BY DEF Definitions, Nodes
<1>7. \E D \in SUBSET Nodes' : Rendered(D)'
  BY DEF Nodes
<1>8. RenderInv'
  BY <1>3, <1>4, <1>5, <1>6, <1>7 DEF RenderInv
<1>9. QED
  BY <1>2, <1>8 DEF NotesInv

\* The walk f leaves t and goes on as v
Leaves(f, t, v) ==
  /\ f \in Seq(Entry) /\ Len(f) = Len(v) + 1 /\ f[1].leaving /\ f[1].at = t
  /\ \A i \in DOMAIN v : i + 1 \in DOMAIN f /\ f[i + 1] = v[i]
  /\ EntersOnce(f) /\ Ahead(f) = Ahead(v)

LEMMA LeavingFirst ==
  ASSUME NEW v \in Seq(Entry), EntersOnce(v), NEW t, NEW a \in Seq(Entry), NEW f,
         Len(a) = 1, a[1].leaving, a[1].at = t, f = a \o v
  PROVE  Leaves(f, t, v)
<1>1. a \in Seq(Entry) /\ Len(a) = 1 /\ a[1].leaving /\ a[1].at = t
  OBVIOUS
<1>2. /\ f \in Seq(Entry) /\ Len(f) = 1 + Len(v) /\ DOMAIN f = 1..(1 + Len(v)) /\ f[1] = a[1]
      /\ \A i \in 1..Len(v) : f[1 + i] = v[i]
      /\ \A i \in DOMAIN f : i > 1 => f[i] = v[i - 1] /\ i - 1 \in DOMAIN v
  <2>1. f = a \o v
    OBVIOUS
  <2>2. /\ f \in Seq(Entry) /\ Len(f) = Len(a) + Len(v) /\ DOMAIN f = 1..(Len(a) + Len(v))
        /\ \A i \in 1..Len(a) : f[i] = a[i]
        /\ \A i \in 1..Len(v) : f[Len(a) + i] = v[i]
        /\ \A i \in DOMAIN f : i > Len(a) => f[i] = v[i - Len(a)] /\ i - Len(a) \in DOMAIN v
    BY <1>1, <2>1, ConcatIs
  <2>3. QED
    BY <1>1, <2>2
<1>3. DOMAIN v = 1..Len(v) /\ Len(v) \in Nat
  OBVIOUS
<1>4. ASSUME NEW i \in DOMAIN v PROVE i + 1 \in DOMAIN f /\ f[i + 1] = v[i]
  BY <1>2, <1>3
<1>5. ASSUME NEW i \in DOMAIN f, ~f[i].leaving PROVE i - 1 \in DOMAIN v /\ f[i] = v[i - 1] /\ i \in Nat
  <2>1. i # 1 /\ i \in Nat /\ i > 0
    BY <1>1, <1>2, <1>3, <1>5
  <2>2. i > 1
    BY <2>1
  <2>3. QED
    BY <1>2, <2>1, <2>2
<1>6. EntersOnce(f)
  <2>1. ASSUME NEW i \in DOMAIN f, NEW j \in DOMAIN f, ~f[i].leaving, ~f[j].leaving, f[i].at = f[j].at
        PROVE  i = j
    <3>1. i - 1 = j - 1
      BY <1>5, <2>1 DEF EntersOnce
    <3>2. i \in Nat /\ j \in Nat
      BY <1>5, <2>1
    <3>3. QED
      BY <3>1, <3>2
  <2>2. QED
    BY <2>1 DEF EntersOnce
<1>7. Ahead(f) \subseteq Ahead(v)
  BY <1>5 DEF Ahead
<1>8. Ahead(v) \subseteq Ahead(f)
  <2>1. ASSUME NEW i \in DOMAIN v, ~v[i].leaving PROVE v[i].at \in Ahead(f)
    BY <1>4, <2>1 DEF Ahead
  <2>2. QED
    BY <2>1 DEF Ahead
<1>9. QED
  BY <1>1, <1>2, <1>4, <1>6, <1>7, <1>8 DEF Leaves

LEMMA ThreeParts ==
  ASSUME NEW S, NEW a \in Seq(S), NEW b \in Seq(S), NEW c \in Seq(S)
  PROVE  (a \o b) \o c = a \o (b \o c)
OBVIOUS

\* The walk enters a definition and comes back to leave it
LEMMA RenderDefinitionIs ==
  ASSUME NotesInv, RenderDefinition, NEW D, Rendered(D)
  PROVE  /\ phase = "rendering" /\ walk # <<>> /\ ~walk[1].leaving /\ IsDefinition(Top) /\ Top \in Nodes \ D
         /\ kids[Top] \in Seq(Nat) /\ Rest \in Seq(Entry) /\ walk' \in Seq(Entry)
         /\ Met(kids, Len(node), walk', D \cup {Top})
         /\ \E f : GoesOn(walk', kids[Top], f) /\ Leaves(f, Top, Rest)
<1>1. /\ phase = "rendering" /\ walk # <<>> /\ ~walk[1].leaving /\ IsDefinition(Top)
      /\ walk' = Entries(kids[Top]) \o <<[at |-> Top, leaving |-> TRUE]>> \o Rest
  BY DEF RenderDefinition, Rendering, IsDefinition
<1>2. /\ Len(node) \in Nat /\ Nodes = 1..Len(node) /\ Nodes \subseteq Nat /\ Forest(kids, Len(node))
      /\ \A c \in Nodes : kids[c] \in Seq(Nat)
  BY <1>1, RenderingIs
<1>3. /\ Top \in Nodes \ D /\ Rest \in Seq(Entry) /\ EntersOnce(Rest)
      /\ Top \in Ahead(walk) /\ Ahead(Rest) = Ahead(walk) \ {Top} /\ Listed(kids[Top]) \cap Ahead(walk) = {}
  BY <1>1, TopIsMet
<1>4. PICK t, e, v : t = Top /\ e = kids[t] /\ v = Rest
  OBVIOUS
<1>5. t \in Nat /\ e \in Seq(Nat) /\ v \in Seq(Entry) /\ EntersOnce(v)
  BY <1>2, <1>3, <1>4
<1>6. PICK a, b, f : a = Entries(e) /\ b = <<[at |-> t, leaving |-> TRUE]>> /\ f = b \o v
  OBVIOUS
<1>7. a \in Seq(Entry) /\ b \in Seq(Entry) /\ Len(b) = 1 /\ b[1].leaving /\ b[1].at = t
  <2>1. [at |-> t, leaving |-> TRUE] \in Entry
    BY <1>5 DEF Entry
  <2>2. b \in Seq(Entry) /\ Len(b) = 1 /\ b[1].leaving /\ b[1].at = t
    BY <1>6, <2>1
  <2>3. a \in Seq(Entry)
    BY <1>5, <1>6, EntriesAre
  <2>4. QED
    BY <2>2, <2>3
<1>8. Leaves(f, t, v)
  BY <1>5, <1>6, <1>7, LeavingFirst
<1>9. walk' = Entries(e) \o f
  <2>1. (a \o b) \o v = a \o (b \o v)
    BY <1>5, <1>7, ThreeParts
  <2>2. QED
    BY <1>1, <1>4, <1>6, <2>1
<1>10. f \in Seq(Entry) /\ EntersOnce(f) /\ Ahead(f) = Ahead(v)
  BY <1>8 DEF Leaves
<1>11. \A i, j \in DOMAIN e : e[i] = e[j] => i = j
  <2>1. t \in 0..Len(node)
    BY <1>2, <1>3, <1>4
  <2>2. QED
    BY <1>2, <1>4, <2>1 DEF Forest
<1>12. Listed(e) \cap Ahead(f) = {}
  BY <1>3, <1>4, <1>10
<1>13. walk' \in Seq(Entry) /\ GoesOn(walk', e, f)
  <2>1. PICK u : u = walk'
    OBVIOUS
  <2>2. u \in Seq(Entry) /\ GoesOn(u, e, f)
    BY <1>5, <1>9, <1>10, <2>1, EntriesPlaces
  <2>3. QED
    BY <2>1, <2>2
<1>14. EntersOnce(walk') /\ Ahead(walk') = Listed(e) \cup Ahead(f)
  <2>1. PICK u : u = walk'
    OBVIOUS
  <2>2. EntersOnce(u) /\ Ahead(u) = Listed(e) \cup Ahead(f)
    BY <1>5, <1>11, <1>12, <1>9, <1>10, <2>1, EntriesAhead
  <2>3. QED
    BY <2>1, <2>2
<1>15. Met(kids, Len(node), walk', D \cup {Top})
  <2>1. Met(kids, Len(node), walk, D)
    BY DEF Rendered
  <2>2. Ahead(walk') = (Ahead(walk) \ {Top}) \cup Listed(kids[Top])
    BY <1>3, <1>4, <1>14, <1>10
  <2>3. QED
    BY <1>2, <1>3, <1>14, <2>1, <2>2, MetEnters
<1>16. GoesOn(walk', kids[Top], f) /\ Leaves(f, Top, Rest)
  BY <1>4, <1>13, <1>8
<1>17. QED
  BY <1>1, <1>3, <1>4, <1>5, <1>13, <1>15, <1>16

\* Without definitions in definitions the walk stands at a child of the root
LEMMA OnlyAtRoot ==
  ASSUME NotesInv, phase = "rendering", walk # <<>>, ~walk[1].leaving, IsDefinition(Top), ~Nested,
         NEW D, Rendered(D), NEW q \in Nat, NEW h \in Nat, Framed(q, h)
  PROVE  h = 0
<1>1. SUFFICES ASSUME h > 0 PROVE FALSE
  OBVIOUS
<1>2. Inside(q, h - 1)
  BY <1>1, FrameInside
<1>3. PICK last : last = written.items[Len(written.items)]
  OBVIOUS
<1>4. Len(written.items) > 0 /\ Top \in Listed(kids[last])
  BY <1>1, <1>2, <1>3 DEF Inside
<1>5. last \in Definitions
  <2>1. written.items \in Seq(Nat)
    BY RenderingIs DEF Book
  <2>2. Len(written.items) \in DOMAIN written.items
    BY <1>4, <2>1
  <2>3. last \in Listed(written.items)
    BY <1>3, <2>2 DEF Listed
  <2>4. QED
    BY <2>3 DEF Rendered
<1>6. Top \in Definitions
  BY TopIsMet DEF Definitions, IsDefinition
<1>7. Nested
  BY <1>4, <1>5, <1>6 DEF Nested, Listed
<1>8. QED
  BY <1>7

LEMMA RenderDefinitionKeeps == ASSUME NotesInv, RenderDefinition PROVE NotesInv'
<1>1. PICK t, s, e, v, items : t = Top /\ s = kids[Root] /\ e = kids[t] /\ v = Rest /\ items = written.items
  OBVIOUS
<1>2. /\ written' = [written EXCEPT !.items = Append(@, Top)]
      /\ UNCHANGED <<leave, phase, node, kids, open, defs, next, saw, fdMap, nextIx, removed>>
      /\ phase = "rendering"
  BY DEF RenderDefinition, Rendering
<1>3. /\ Typed /\ RenderInv /\ written \in Book /\ Nodes \subseteq Nat /\ s \in Seq(Nodes) /\ Len(s) \in Nat /\ nextIx \in Nat
  BY <1>1, <1>2, RenderingIs DEF Typed
<1>4. PICK D \in SUBSET Nodes : Rendered(D)
  BY <1>3 DEF RenderInv
<1>5. /\ walk # <<>> /\ ~walk[1].leaving /\ IsDefinition(t) /\ t \in Nodes \ D
      /\ e \in Seq(Nat) /\ v \in Seq(Entry) /\ walk' \in Seq(Entry)
      /\ Met(kids, Len(node), walk', D \cup {t})
  BY <1>1, <1>4, RenderDefinitionIs
<1>6. PICK f : GoesOn(walk', e, f) /\ Leaves(f, t, v)
  BY <1>1, <1>4, RenderDefinitionIs
<1>7. t \in Definitions /\ t \in Nat /\ t \notin References
  BY <1>3, <1>5 DEF Definitions, References, IsDefinition
<1>8. PICK m : m = Append(items, t)
  OBVIOUS
<1>9. /\ items \in Seq(Nat) /\ Len(items) \in Nat /\ m \in Seq(Nat) /\ Len(m) = Len(items) + 1
      /\ m[Len(items) + 1] = t /\ Listed(m) = Listed(items) \cup {t}
      /\ \A i \in 1..Len(items) : m[i] = items[i]
  <2>1. items \in Seq(Nat)
    BY <1>1, <1>3 DEF Book
  <2>2. /\ Len(items) \in Nat /\ m \in Seq(Nat) /\ Len(m) = Len(items) + 1
        /\ m[Len(items) + 1] = t /\ \A i \in 1..Len(items) : m[i] = items[i]
    BY <1>7, <1>8, <2>1
  <2>3. Listed(m) = Listed(items) \cup {t}
    BY <1>7, <1>8, <2>1, ListedAppend
  <2>4. QED
    BY <2>1, <2>2, <2>3
<1>10. /\ written' \in Book /\ written'.items = m /\ written'.refs = written.refs
       /\ written'.backs = written.backs /\ written'.ix = written.ix
  BY <1>1, <1>2, <1>3, <1>8, <1>9 DEF Book
<1>11. PICK E : E = D \cup {t}
  OBVIOUS
<1>12. \A i \in DOMAIN walk' : walk'[i].leaving => walk'[i].at \in Definitions
  <2>1. \A i \in DOMAIN v : v[i].leaving => v[i].at \in Definitions
    <3>1. \A i \in DOMAIN v : v[i] = walk[i + 1] /\ i + 1 \in DOMAIN walk
      BY <1>1, <1>2, <1>5, RenderingIs, RestIs DEF Rest
    <3>2. QED
      BY <1>4, <3>1 DEF Rendered
  <2>2. \A i \in DOMAIN f : f[i].leaving => f[i].at \in Definitions
    <3>1. SUFFICES ASSUME NEW i \in DOMAIN f, f[i].leaving, i # 1 PROVE f[i].at \in Definitions
      BY <1>6, <1>7 DEF Leaves
    <3>2. f \in Seq(Entry) /\ Len(f) = Len(v) + 1
      BY <1>6 DEF Leaves
    <3>3. i - 1 \in DOMAIN v /\ (i - 1) + 1 = i
      BY <1>5, <3>1, <3>2
    <3>4. f[i] = v[i - 1]
      BY <1>6, <3>3 DEF Leaves
    <3>5. QED
      BY <2>1, <3>1, <3>3, <3>4
  <2>3. QED
    BY <1>6, <2>2 DEF GoesOn
<1>13. Rendered(E)'
  <2>1. E \cap References = D \cap References /\ E \cap Definitions = (D \cap Definitions) \cup {t}
    BY <1>7, <1>11
  <2>2. written'.refs = E \cap References /\ Listed(written'.items) = E \cap Definitions
    BY <1>1, <1>4, <1>9, <1>10, <2>1 DEF Rendered
  <2>3. References' = References /\ Definitions' = Definitions
    BY <1>2 DEF References, Definitions, Nodes
  <2>4. QED
    BY <1>2, <1>5, <1>11, <1>12, <2>2, <2>3 DEF Rendered
<1>14. ASSUME ~Nested PROVE \E q, h \in Nat : Framed(q, h)'
  <2>1. PICK q \in Nat, h \in Nat : Framed(q, h)
    BY <1>3, <1>14 DEF RenderInv
  <2>2. h = 0
    BY <1>1, <1>2, <1>4, <1>5, <1>14, <2>1, OnlyAtRoot
  <2>3. /\ q + 1 \in 1..Len(s) /\ t = s[q + 1] /\ Len(v) = Len(s) - (q + 1)
        /\ \A i \in 1..(Len(s) - (q + 1)) : v[i].at = s[(q + 1) + i] /\ ~v[i].leaving
        /\ LinkedTo(written) /\ written.ix = Len(items)
    BY <1>1, <1>2, <1>5, <2>1, <2>2, FrameAtRoot
  <2>4. PICK p, g : p = q + 1 /\ g = Len(e) + 1
    OBVIOUS
  <2>5. /\ Len(e) \in Nat /\ Len(f) = Len(v) + 1 /\ f[1].leaving /\ f[1].at = t
        /\ \A i \in DOMAIN v : f[i + 1] = v[i]
        /\ DOMAIN v = 1..Len(v) /\ DOMAIN f = 1..Len(f) /\ DOMAIN e = 1..Len(e) /\ Len(v) \in Nat /\ Len(f) \in Nat
    BY <1>5, <1>6 DEF Leaves
  <2>6. /\ DOMAIN walk' = 1..(Len(e) + Len(f))
        /\ \A i \in DOMAIN e : walk'[i].at = e[i] /\ ~walk'[i].leaving
        /\ \A i \in DOMAIN f : walk'[Len(e) + i] = f[i]
    BY <1>6 DEF GoesOn
  <2>7. p \in 0..Len(s) /\ g \in Nat /\ g > 0 /\ Len(walk') = g + (Len(s) - p)
    <3>1. Len(walk') = Len(e) + Len(f)
      BY <1>5, <2>5, <2>6
    <3>2. QED
      BY <1>3, <2>3, <2>4, <2>5, <3>1
  <2>8. ASSUME NEW i \in 1..(Len(s) - p) PROVE walk'[g + i].at = s[p + i] /\ ~walk'[g + i].leaving
    <3>1. i \in 1..Len(v) /\ i + 1 \in 1..Len(f) /\ Len(e) + (i + 1) = g + i
      BY <1>3, <2>3, <2>4, <2>5
    <3>2. walk'[g + i] = f[i + 1] /\ f[i + 1] = v[i]
      BY <2>5, <2>6, <3>1
    <3>3. QED
      BY <2>3, <2>4, <3>2
  <2>9. walk'[g].leaving /\ walk'[g].at = t
    <3>1. 1 \in DOMAIN f
      BY <2>5
    <3>2. QED
      BY <2>4, <2>5, <2>6, <3>1
  <2>10. \A i \in 1..(g - 1) : ~walk'[i].leaving /\ walk'[i].at \in Listed(e)
    <3>1. g - 1 = Len(e)
      BY <2>4, <2>5
    <3>2. QED
      BY <2>5, <2>6, <3>1 DEF Listed
  <2>11. LinkedTo(written') /\ Len(m) > 0 /\ Len(m) <= written'.ix + 1 /\ m[Len(m)] = t
    <3>1. written.ix \in Nat
      BY <1>3 DEF Book
    <3>2. Len(m) > 0 /\ Len(m) <= written'.ix + 1 /\ m[Len(m)] = t
      BY <1>9, <1>10, <2>3
    <3>3. written'.ix <= Len(m) /\ Len(written'.backs) = written'.ix
      BY <1>9, <1>10, <2>3 DEF LinkedTo
    <3>4. ASSUME NEW i \in 1..written'.ix PROVE written'.backs[i] = [def |-> m[i], item |-> i]
      <4>1. m[i] = items[i]
        BY <1>9, <1>10, <2>3
      <4>2. QED
        BY <1>1, <1>10, <2>3, <4>1 DEF LinkedTo
    <3>5. QED
      BY <1>10, <3>2, <3>3, <3>4 DEF LinkedTo
  <2>12. ASSUME ~leave, ~Leftover PROVE Aligned(p)'
    <3>1. Aligned(q)
      BY <1>14, <2>1, <2>12 DEF Framed
    <3>2. PICK b : b = Len(s) - nextIx
      OBVIOUS
    <3>3. /\ b \in Nat
          /\ \A i \in 1..b : ~IsDefinition(s[i])
          /\ \A i \in 1..nextIx : IsDefinition(s[b + i])
          /\ \A r \in References : node[r].ix \in 1..nextIx /\ node[s[b + node[r].ix]].name = node[r].name
          /\ Len(items) = IF q <= b THEN 0 ELSE q - b
          /\ \A i \in DOMAIN items : items[i] = s[b + i]
      BY <1>1, <3>1, <3>2 DEF Aligned
    <3>4. q >= b
      <4>1. ~(q + 1 <= b)
        BY <1>5, <2>3, <3>3
      <4>2. QED
        BY <3>3, <4>1
    <3>5. Len(items) = q - b
      BY <3>3, <3>4
    <3>6. Len(m) = IF p <= b THEN 0 ELSE p - b
      BY <1>9, <2>4, <3>3, <3>4, <3>5
    <3>7. ASSUME NEW i \in DOMAIN m PROVE m[i] = s[b + i]
      <4>1. i \in 1..(Len(items) + 1)
        BY <1>9
      <4>2. CASE i \in 1..Len(items)
        <5>1. i \in DOMAIN items
          BY <1>9, <4>2
        <5>2. QED
          BY <1>9, <3>3, <4>2, <5>1
      <4>3. CASE i = Len(items) + 1
        <5>1. b + i = q + 1
          BY <3>3, <3>5, <4>3
        <5>2. QED
          BY <1>9, <2>3, <4>3, <5>1
      <4>4. QED
        BY <1>9, <4>1, <4>2, <4>3
    <3>8. /\ kids'[Root] = s /\ nextIx' = nextIx /\ written'.items = m /\ References' = References /\ node' = node
      BY <1>1, <1>2, <1>10 DEF References, Nodes
    <3>9. QED
      BY <3>2, <3>3, <3>6, <3>7, <3>8 DEF Aligned, IsDefinition
  <2>13. (Leftover' <=> Leftover) /\ leave' = leave /\ kids' = kids /\ kids'[Root] = s
    BY <1>1, <1>2 DEF Leftover, Definitions, Nodes
  <2>14. written'.items[Len(written'.items)] = t /\ kids'[t] = e
    BY <1>1, <1>10, <2>11, <2>13
  <2>15. Framed(p, g)'
    BY <1>10, <2>7, <2>8, <2>9, <2>10, <2>11, <2>12, <2>13, <2>14 DEF Framed
  <2>16. p \in Nat /\ g \in Nat
    BY <2>7, <1>3
  <2>17. QED
    BY <2>15, <2>16
<1>15. \A i \in DOMAIN written'.backs : written'.backs[i].def \in Definitions
  BY <1>3, <1>10 DEF RenderInv
<1>16. E \in SUBSET Nodes
  BY <1>5, <1>11
<1>17. QED
  BY <1>2, <1>5, <1>10, <1>13, <1>14, <1>15, <1>16, StillRendering

LEMMA AlignedStays ==
  ASSUME NEW q, Aligned(q), UNCHANGED <<node, kids, nextIx>>, written'.items = written.items
  PROVE  Aligned(q)'
BY DEF Aligned, IsDefinition, References, Nodes

\* The step after which nothing of a definition is ahead
LEMMA FrameCloses ==
  ASSUME NotesInv, phase = "rendering", NEW q \in Nat, NEW h \in Nat, Framed(q, h), Inside(q, 0),
         UNCHANGED <<leave, node, kids, nextIx>>, walk' = Rest,
         written'.items = written.items, LinkedTo(written'), written'.ix = Len(written'.items)
  PROVE  Framed(q, 0)'
<1>1. PICK s, v : s = kids[Root] /\ v = Rest
  OBVIOUS
<1>2. /\ Len(v) = 0 + (Len(s) - q) /\ q \in 0..Len(s)
      /\ \A i \in 1..(Len(s) - q) : v[0 + i].at = s[q + i] /\ ~v[0 + i].leaving
  BY <1>1 DEF Inside
<1>3. ~leave /\ ~Leftover => Aligned(q)
  BY DEF Framed
<1>4. (Leftover' <=> Leftover) /\ kids'[Root] = s /\ walk' = v
  BY <1>1 DEF Leftover, Definitions, Nodes
<1>5. ~leave' /\ ~Leftover' => Aligned(q)'
  BY <1>3, <1>4, AlignedStays
<1>6. QED
  BY <1>2, <1>4, <1>5 DEF Framed

LEMMA LeaveDefinitionKeeps == ASSUME NotesInv, LeaveDefinition PROVE NotesInv'
<1>1. PICK t, v, x : t = Top /\ v = SubSeq(walk, 2, Len(walk)) /\ x = LinksBack(written, t)
  OBVIOUS
<1>2. /\ phase = "rendering" /\ walk # <<>> /\ walk[1].leaving /\ walk[1].at = t
      /\ written' = x /\ walk' = v /\ v = Rest
      /\ UNCHANGED <<leave, phase, node, kids, open, defs, next, saw, fdMap, nextIx, removed>>
  BY <1>1 DEF LeaveDefinition, Rendering, Rest, Top
<1>3. Typed /\ RenderInv /\ walk \in Seq(Entry) /\ written \in Book /\ Nodes \subseteq Nat
  BY <1>2, RenderingIs
<1>4. PICK D \in SUBSET Nodes : Rendered(D)
  BY <1>3 DEF RenderInv
<1>5. /\ v \in Seq(Entry) /\ 1 \in DOMAIN walk
      /\ \A i \in DOMAIN v : v[i] = walk[i + 1] /\ i + 1 \in DOMAIN walk
  BY <1>1, <1>2, <1>3, RestIs
<1>6. t \in Definitions /\ t \in Nat
  BY <1>2, <1>3, <1>4, <1>5 DEF Rendered, Definitions
<1>7. Met(kids, Len(node), walk, D)
  BY <1>4 DEF Rendered
<1>8. EntersOnce(v) /\ Ahead(v) = Ahead(walk)
  <2>1. EntersOnce(walk)
    BY <1>7 DEF Met
  <2>2. QED
    BY <1>1, <1>2, <1>3, <2>1, RestAhead
<1>9. Met(kids, Len(node), v, D)
  BY <1>7, <1>8 DEF Met
<1>10. /\ x \in Book /\ x.items = written.items /\ x.refs = written.refs
       /\ \A i \in DOMAIN x.backs : x.backs[i].def = t \/ (i \in DOMAIN written.backs /\ x.backs[i] = written.backs[i])
       /\ LinkedTo(written) /\ Len(written.items) > 0 /\ Len(written.items) <= written.ix + 1 /\ t = written.items[Len(written.items)] =>
            LinkedTo(x) /\ x.ix = Len(x.items)
  BY <1>1, <1>3, <1>6, LinksBackIs
<1>11. Rendered(D)'
  <2>1. References' = References /\ Definitions' = Definitions
    BY <1>2 DEF References, Definitions, Nodes
  <2>2. \A i \in DOMAIN v : v[i].leaving => v[i].at \in Definitions
    BY <1>4, <1>5 DEF Rendered
  <2>3. x.refs = D \cap References /\ Listed(x.items) = D \cap Definitions
    BY <1>4, <1>10 DEF Rendered
  <2>4. QED
    BY <1>2, <1>9, <2>1, <2>2, <2>3 DEF Rendered
<1>12. ASSUME ~Nested PROVE \E q, h \in Nat : Framed(q, h)'
  <2>1. PICK q \in Nat, h \in Nat : Framed(q, h)
    BY <1>3, <1>12 DEF RenderInv
  <2>2. h > 0
    <3>1. h # 0
      BY <1>2, <2>1, FrameAtRoot
    <3>2. QED
      BY <3>1
  <2>3. Inside(q, h - 1)
    BY <1>2, <2>1, <2>2, FrameInside
  <2>4. h - 1 = 0
    BY <1>2, <2>2, <2>3 DEF Inside
  <2>5. Inside(q, 0)
    BY <2>3, <2>4
  <2>6. LinkedTo(x) /\ x.ix = Len(x.items)
    BY <1>1, <1>10, <2>5 DEF Inside
  <2>7. Framed(q, 0)'
    BY <1>2, <1>10, <2>1, <2>5, <2>6, FrameCloses
  <2>8. QED
    BY <2>7
<1>13. \A i \in DOMAIN written'.backs : written'.backs[i].def \in Definitions
  BY <1>2, <1>3, <1>6, <1>10 DEF RenderInv
<1>14. QED
  BY <1>2, <1>4, <1>5, <1>10, <1>11, <1>12, <1>13, StillRendering

LEMMA EndOfRenderingKeeps == ASSUME NotesInv, EndOfRendering PROVE NotesInv'
<1>1. /\ phase = "rendering" /\ walk = <<>> /\ phase' = "done"
      /\ UNCHANGED <<leave, node, kids, open, defs, next, saw, fdMap, walk, nextIx, written, removed>>
  BY DEF EndOfRendering
<1>2. Typed /\ Paired /\ TreeInv /\ RenderInv
  BY <1>1, RenderingIs
<1>3. Typed' /\ Paired' /\ TreeInv'
  BY <1>1, <1>2 DEF Typed, Paired, TreeInv, IsDefinition, IsInline, Nodes
<1>4. (Nested' <=> Nested) /\ (Leftover' <=> Leftover) /\ References' = References /\ Definitions' = Definitions /\ Nodes' = Nodes
  BY <1>1 DEF Nested, Leftover, References, Definitions, Nodes
<1>5. \A D : Rendered(D) => Rendered(D)'
  BY <1>1, <1>4 DEF Rendered
<1>6. \A q, h : Framed(q, h) => Framed(q, h)'
  <2>1. \A q : Aligned(q) => Aligned(q)'
    BY <1>1, AlignedStays
  <2>2. QED
    BY <1>1, <1>4, <2>1 DEF Framed
<1>7. AllNumbered' /\ \A r \in References : Leads(r)'
  BY <1>1, <1>2 DEF RenderInv, AllNumbered, CountsTo, FirstUses, NoInlines, IsInline, References, Definitions, Nodes,
                    Leads, IsDefinition
<1>8. RenderInv'
  BY <1>1, <1>2, <1>4, <1>5, <1>6, <1>7 DEF RenderInv, IsInline
<1>9. QED
  BY <1>1, <1>3, <1>8 DEF NotesInv

LEMMA StutterKeeps == ASSUME NotesInv, UNCHANGED notesVars PROVE NotesInv'
<1>1. /\ leave' = leave /\ phase' = phase /\ node' = node /\ kids' = kids /\ open' = open /\ defs' = defs
      /\ next' = next /\ saw' = saw /\ fdMap' = fdMap /\ walk' = walk /\ nextIx' = nextIx
      /\ written' = written /\ removed' = removed
  BY DEF notesVars
<1>2. (Typed' <=> Typed) /\ (Paired' <=> Paired)
  BY <1>1 DEF Typed, Paired, IsInline, Nodes
<1>3. ReadInv' <=> ReadInv
  BY <1>1 DEF ReadInv, OpenOnes, ReadOnes, Fresh, IsInline, Nodes, Containers
<1>4. TreeInv' <=> TreeInv
  BY <1>1 DEF TreeInv, IsDefinition, Nodes
<1>5. NumberInv' <=> NumberInv
  BY <1>1 DEF NumberInv, Labelled, CountsTo, OwnIx, Shows, IsDefinition, IsInline, References, Definitions, Nodes,
              Counted, MetInOrder, FirstUses, NoInlines
<1>6. PlaceInv' <=> PlaceInv
  BY <1>1 DEF PlaceInv, AllNumbered, Labelled, CountsTo, OwnIx, Shows, Leads, Lined, Leftover, Nested, IsDefinition,
              IsInline, References, Definitions, Nodes, FirstUses, NoInlines
<1>7. RenderInv' <=> RenderInv
  BY <1>1 DEF RenderInv, AllNumbered, CountsTo, FirstUses, NoInlines, Leads, Rendered, Framed, Aligned, Leftover,
              Nested, IsDefinition, IsInline, References, Definitions, Nodes
<1>8. QED
  BY <1>1, <1>2, <1>3, <1>4, <1>5, <1>6, <1>7 DEF NotesInv

\* What a paragraph changes in the book
LEMMA RenderParagraphIs ==
  ASSUME NotesInv, RenderParagraph, NEW D, Rendered(D)
  PROVE  /\ phase = "rendering" /\ walk # <<>> /\ ~walk[1].leaving /\ ~IsDefinition(Top)
         /\ Top \in Nodes \ D /\ Rest \in Seq(Entry) /\ Met(kids, Len(node), Rest, D \cup {Top})
         /\ written' \in Book /\ written'.items = written.items
         /\ written'.refs = (D \cup {Top}) \cap References
         /\ \A i \in DOMAIN written'.backs : written'.backs[i].def \in Definitions
         /\ Ended(Top) = {} => written'.backs = written.backs /\ written'.ix = written.ix
         /\ LinkedTo(written) /\ Len(written.items) > 0 /\ Len(written.items) <= written.ix + 1
            /\ (\A d \in Ended(Top) : d = written.items[Len(written.items)]) =>
              LinkedTo(written') /\ Len(written.items) <= written'.ix + 1
<1>1. PICK t, w : t = Top /\ w = IF node[t].kind = "ref" THEN [written EXCEPT !.refs = @ \cup {t}] ELSE written
  OBVIOUS
<1>2. /\ phase = "rendering" /\ walk # <<>> /\ node[t].kind \in {"ref", "text"}
      /\ written' = IF Ended(t) = {} THEN w ELSE LinksBack(w, CHOOSE d \in Ended(t) : TRUE)
  BY <1>1 DEF RenderParagraph, Rendering
<1>3. /\ TreeInv /\ RenderInv /\ walk \in Seq(Entry) /\ written \in Book /\ Nodes \subseteq Nat
      /\ Nodes = 1..Len(node) /\ Len(node) \in Nat /\ Forest(kids, Len(node))
  BY <1>2, RenderingIs
<1>4. ~IsDefinition(t) /\ t \notin Definitions
  BY <1>2 DEF IsDefinition, Definitions
<1>5. ~walk[1].leaving
  <2>1. 1 \in DOMAIN walk
    BY <1>2, <1>3
  <2>2. QED
    BY <1>1, <1>4, <2>1 DEF Rendered, Top
<1>6. /\ t \in Nodes \ D /\ Rest \in Seq(Entry) /\ EntersOnce(Rest)
      /\ t \in Ahead(walk) /\ Ahead(Rest) = Ahead(walk) \ {t}
  BY <1>1, <1>2, <1>5, TopIsMet
<1>7. Met(kids, Len(node), Rest, D \cup {t})
  <2>1. Listed(kids[t]) = {}
    BY <1>3, <1>4, <1>6, ListedEmpty DEF TreeInv
  <2>2. Ahead(Rest) = (Ahead(walk) \ {t}) \cup Listed(kids[t])
    BY <1>6, <2>1
  <2>3. Met(kids, Len(node), walk, D)
    BY DEF Rendered
  <2>4. QED
    BY <1>3, <1>6, <2>2, <2>3, MetEnters
<1>8. /\ w \in Book /\ w.items = written.items /\ w.backs = written.backs /\ w.ix = written.ix
      /\ w.refs = (D \cup {t}) \cap References
  <2>1. written.refs = D \cap References
    BY DEF Rendered
  <2>2. CASE node[t].kind = "ref"
    <3>1. t \in References /\ t \in Nat
      BY <1>3, <1>6, <2>2 DEF References
    <3>2. w = [written EXCEPT !.refs = @ \cup {t}]
      BY <1>1, <2>2
    <3>3. w \in Book /\ w.items = written.items /\ w.backs = written.backs /\ w.ix = written.ix
      BY <1>3, <3>1, <3>2 DEF Book
    <3>4. w.refs = written.refs \cup {t}
      BY <1>3, <3>2 DEF Book
    <3>5. QED
      BY <2>1, <3>1, <3>3, <3>4
  <2>3. CASE node[t].kind # "ref"
    <3>1. t \notin References /\ w = written
      BY <1>1, <2>3 DEF References
    <3>2. QED
      BY <1>3, <2>1, <3>1
  <2>4. QED
    BY <2>2, <2>3
<1>9. LinkedTo(w) <=> LinkedTo(written)
  BY <1>8 DEF LinkedTo
<1>10. \A i \in DOMAIN written.backs : written.backs[i].def \in Definitions
  BY <1>3 DEF RenderInv
<1>11. CASE Ended(t) = {}
  <2>1. written' = w
    BY <1>2, <1>11
  <2>2. QED
    BY <1>1, <1>2, <1>4, <1>5, <1>6, <1>7, <1>8, <1>9, <1>10, <2>1
<1>12. CASE Ended(t) # {}
  <2>1. PICK d : d \in Ended(t) /\ written' = LinksBack(w, d)
    BY <1>2, <1>12
  <2>2. d \in Nodes /\ kids[d] # <<>>
    BY <2>1 DEF Ended
  <2>3. d \in Definitions /\ d \in Nat
    BY <1>3, <2>2 DEF TreeInv, Definitions, IsDefinition
  <2>4. PICK x : x = written' /\ x = LinksBack(w, d)
    BY <2>1
  <2>5. /\ x \in Book /\ x.items = w.items /\ x.refs = w.refs
        /\ \A i \in DOMAIN x.backs : x.backs[i].def = d \/ (i \in DOMAIN w.backs /\ x.backs[i] = w.backs[i])
        /\ LinkedTo(w) /\ Len(w.items) > 0 /\ Len(w.items) <= w.ix + 1 /\ d = w.items[Len(w.items)] =>
             LinkedTo(x) /\ x.ix = Len(x.items)
    BY <1>8, <2>3, <2>4, LinksBackIs
  <2>6. \A i \in DOMAIN x.backs : x.backs[i].def \in Definitions
    BY <1>8, <1>10, <2>3, <2>5
  <2>7. ASSUME LinkedTo(written), Len(written.items) > 0, Len(written.items) <= written.ix + 1,
               \A c \in Ended(t) : c = written.items[Len(written.items)]
        PROVE  LinkedTo(x) /\ Len(written.items) <= x.ix + 1
    <3>1. LinkedTo(x) /\ x.ix = Len(written.items)
      BY <1>8, <1>9, <2>1, <2>5, <2>7
    <3>2. Len(written.items) \in Nat
      BY <1>3 DEF Book
    <3>3. QED
      BY <3>1, <3>2
  <2>8. QED
    BY <1>1, <1>2, <1>4, <1>5, <1>6, <1>7, <1>8, <1>12, <2>4, <2>5, <2>6, <2>7
<1>13. QED
  BY <1>11, <1>12

\* A paragraph is the last child of its parent alone
LEMMA EndsItsParent ==
  ASSUME NotesInv, phase = "rendering", NEW c \in 0..Len(node), NEW t \in Listed(kids[c]), NEW d \in Ended(t)
  PROVE  d = c
<1>1. Nodes = 1..Len(node) /\ Len(node) \in Nat /\ Forest(kids, Len(node)) /\ \A n \in Nodes : kids[n] \in Seq(Nodes)
  BY RenderingIs
<1>2. d \in Nodes /\ kids[d] # <<>> /\ kids[d][Len(kids[d])] = t
  BY DEF Ended
<1>3. Len(kids[d]) \in DOMAIN kids[d]
  BY <1>1, <1>2
<1>4. PICK i \in DOMAIN kids[c] : kids[c][i] = t
  BY DEF Listed
<1>5. d \in 0..Len(node)
  BY <1>1, <1>2
<1>6. QED
  BY <1>1, <1>2, <1>3, <1>4, <1>5 DEF Forest

LEMMA RenderParagraphKeeps == ASSUME NotesInv, RenderParagraph PROVE NotesInv'
<1>1. PICK t, s, v, x : t = Top /\ s = kids[Root] /\ v = Rest /\ x = written'
  OBVIOUS
<1>2. /\ walk' = v /\ phase = "rendering"
      /\ UNCHANGED <<leave, phase, node, kids, open, defs, next, saw, fdMap, nextIx, removed>>
  BY <1>1 DEF RenderParagraph, Rendering
<1>3. /\ Typed /\ RenderInv /\ walk \in Seq(Entry) /\ written \in Book /\ Nodes \subseteq Nat
      /\ Nodes = 1..Len(node) /\ Len(node) \in Nat /\ Len(s) \in Nat /\ nextIx \in Nat
  BY <1>1, <1>2, RenderingIs DEF Typed
<1>4. PICK D \in SUBSET Nodes : Rendered(D)
  BY <1>3 DEF RenderInv
<1>5. /\ walk # <<>> /\ ~walk[1].leaving /\ ~IsDefinition(t)
      /\ t \in Nodes \ D /\ v \in Seq(Entry) /\ Met(kids, Len(node), v, D \cup {t})
      /\ x \in Book /\ x.items = written.items /\ x.refs = (D \cup {t}) \cap References
      /\ \A i \in DOMAIN x.backs : x.backs[i].def \in Definitions
      /\ Ended(t) = {} => x.backs = written.backs /\ x.ix = written.ix
      /\ LinkedTo(written) /\ Len(written.items) > 0 /\ Len(written.items) <= written.ix + 1
         /\ (\A d \in Ended(t) : d = written.items[Len(written.items)]) =>
           LinkedTo(x) /\ Len(written.items) <= x.ix + 1
  BY <1>1, <1>4, RenderParagraphIs
<1>6. t \notin Definitions
  BY <1>5 DEF Definitions, IsDefinition
<1>7. PICK E : E = D \cup {t}
  OBVIOUS
<1>8. Rendered(E)'
  <2>1. References' = References /\ Definitions' = Definitions
    BY <1>2 DEF References, Definitions, Nodes
  <2>2. \A i \in DOMAIN v : v[i] = walk[i + 1] /\ i + 1 \in DOMAIN walk
    BY <1>1, <1>3, <1>5, RestIs DEF Rest
  <2>3. \A i \in DOMAIN v : v[i].leaving => v[i].at \in Definitions
    BY <1>4, <2>2 DEF Rendered
  <2>4. x.refs = E \cap References /\ Listed(x.items) = E \cap Definitions
    BY <1>4, <1>5, <1>6, <1>7 DEF Rendered
  <2>5. QED
    BY <1>1, <1>2, <1>5, <1>7, <2>1, <2>3, <2>4 DEF Rendered
<1>9. (Leftover' <=> Leftover) /\ kids'[Root] = s
  BY <1>1, <1>2 DEF Leftover, Definitions, Nodes
<1>10. ASSUME ~Nested, NEW q \in Nat, Framed(q, 0) PROVE Framed(q + 1, 0)'
  <2>1. /\ q + 1 \in 1..Len(s) /\ t = s[q + 1] /\ Len(v) = Len(s) - (q + 1)
        /\ \A i \in 1..(Len(s) - (q + 1)) : v[i].at = s[(q + 1) + i] /\ ~v[i].leaving
        /\ LinkedTo(written) /\ written.ix = Len(written.items)
    BY <1>1, <1>2, <1>5, <1>10, FrameAtRoot
  <2>2. Ended(t) = {}
    <3>1. SUFFICES ASSUME NEW d \in Ended(t) PROVE FALSE
      OBVIOUS
    <3>2. t \in Listed(kids[Root]) /\ Root \in 0..Len(node)
      BY <1>1, <1>3, <2>1 DEF Listed, Root
    <3>3. d = Root
      BY <1>2, <3>2, EndsItsParent
    <3>4. d \in 1..Len(node)
      BY <1>3 DEF Ended
    <3>5. QED
      BY <3>3, <3>4 DEF Root
  <2>3. LinkedTo(x) /\ x.ix = Len(x.items)
    BY <1>5, <2>1, <2>2 DEF LinkedTo
  <2>4. PICK p : p = q + 1
    OBVIOUS
  <2>5. ASSUME ~leave, ~Leftover PROVE Aligned(p)'
    <3>1. Aligned(q)
      BY <1>10, <2>5 DEF Framed
    <3>2. PICK b, m : b = Len(s) - nextIx /\ m = written.items
      OBVIOUS
    <3>3. /\ b \in Nat
          /\ \A i \in 1..b : ~IsDefinition(s[i])
          /\ \A i \in 1..nextIx : IsDefinition(s[b + i])
          /\ \A r \in References : node[r].ix \in 1..nextIx /\ node[s[b + node[r].ix]].name = node[r].name
          /\ Len(m) = IF q <= b THEN 0 ELSE q - b
          /\ \A i \in DOMAIN m : m[i] = s[b + i]
      BY <1>1, <3>1, <3>2 DEF Aligned
    <3>4. p <= b
      <4>1. SUFFICES ASSUME p > b PROVE FALSE
        BY <1>10, <2>4, <3>3
      <4>2. p - b \in 1..nextIx /\ b + (p - b) = p
        BY <1>3, <2>1, <2>4, <3>2, <3>3, <4>1
      <4>3. IsDefinition(s[p])
        BY <3>3, <4>2
      <4>4. QED
        BY <1>5, <2>1, <2>4, <4>3
    <3>5. Len(m) = IF p <= b THEN 0 ELSE p - b
      BY <1>10, <2>4, <3>3, <3>4
    <3>6. nextIx' = nextIx /\ written'.items = m /\ References' = References /\ node' = node
      BY <1>1, <1>2, <1>5, <3>2 DEF References, Nodes
    <3>7. QED
      BY <1>9, <3>2, <3>3, <3>5, <3>6 DEF Aligned, IsDefinition
  <2>6. p \in 0..Len(s) /\ Len(v) = 0 + (Len(s) - p)
    BY <1>3, <2>1, <2>4
  <2>7. \A i \in 1..(Len(s) - p) : v[0 + i].at = s[p + i] /\ ~v[0 + i].leaving
    BY <1>3, <2>1, <2>4
  <2>8. Framed(p, 0)'
    BY <1>1, <1>2, <1>9, <2>3, <2>5, <2>6, <2>7 DEF Framed
  <2>9. QED
    BY <2>4, <2>8
<1>11. ASSUME ~Nested, NEW q \in Nat, NEW h \in Nat, h > 0, Framed(q, h) PROVE \E g \in Nat : Framed(q, g)'
  <2>1. Inside(q, h - 1)
    BY <1>2, <1>5, <1>11, FrameInside
  <2>2. PICK g, last : g = h - 1 /\ last = written.items[Len(written.items)]
    OBVIOUS
  <2>3. /\ g \in Nat /\ Len(v) = g + (Len(s) - q) /\ q \in 0..Len(s)
        /\ \A i \in 1..(Len(s) - q) : v[g + i].at = s[q + i] /\ ~v[g + i].leaving
        /\ LinkedTo(written) /\ Len(written.items) > 0 /\ Len(written.items) <= written.ix + 1
        /\ g # 0
        /\ g > 0 => /\ v[g].leaving /\ v[g].at = last
                    /\ t \in Listed(kids[last])
                    /\ \A i \in 1..(g - 1) : ~v[i].leaving /\ v[i].at \in Listed(kids[last])
    BY <1>1, <1>5, <2>1, <2>2 DEF Inside
  <2>4. g > 0
    BY <2>3
  <2>5. last \in Nodes
    <3>1. written.items \in Seq(Nat)
      BY <1>3 DEF Book
    <3>2. Len(written.items) \in DOMAIN written.items
      BY <2>3, <3>1
    <3>3. last \in Listed(written.items)
      BY <2>2, <3>2 DEF Listed
    <3>4. QED
      BY <1>4, <3>3 DEF Rendered
  <2>6. \A d \in Ended(t) : d = last
    <3>1. last \in 0..Len(node) /\ t \in Listed(kids[last])
      BY <1>3, <2>3, <2>4, <2>5
    <3>2. QED
      BY <1>2, <3>1, EndsItsParent
  <2>7. LinkedTo(x) /\ Len(x.items) <= x.ix + 1 /\ x.items = written.items
    BY <1>5, <2>2, <2>3, <2>6
  <2>8. ~leave' /\ ~Leftover' => Aligned(q)'
    <3>1. ~leave /\ ~Leftover => Aligned(q)
      BY <1>11 DEF Framed
    <3>2. QED
      BY <1>1, <1>2, <1>5, <1>9, <3>1, AlignedStays
  <2>9. x.items[Len(x.items)] = last /\ kids' = kids
    BY <1>2, <2>2, <2>7
  <2>10. Framed(q, g)'
    BY <1>1, <1>2, <1>9, <2>3, <2>4, <2>7, <2>8, <2>9 DEF Framed
  <2>11. QED
    BY <2>3, <2>10
<1>12. ASSUME ~Nested PROVE \E q, h \in Nat : Framed(q, h)'
  <2>1. PICK q \in Nat, h \in Nat : Framed(q, h)
    BY <1>3, <1>12 DEF RenderInv
  <2>2. CASE h = 0
    <3>1. q + 1 \in Nat /\ Framed(q + 1, 0)'
      BY <1>10, <1>12, <2>1, <2>2
    <3>2. QED
      BY <3>1
  <2>3. CASE h # 0
    <3>1. PICK g \in Nat : Framed(q, g)'
      BY <1>11, <1>12, <2>1, <2>3
    <3>2. QED
      BY <3>1
  <2>4. QED
    BY <2>2, <2>3
<1>13. E \in SUBSET Nodes
  BY <1>5, <1>7
<1>14. QED
  BY <1>1, <1>2, <1>5, <1>8, <1>12, <1>13, StillRendering

(***************************************************************************)
(* The invariant                                                           *)
(***************************************************************************)
LEMMA InitHolds == NotesInit => NotesInv
<1>1. SUFFICES ASSUME NotesInit PROVE NotesInv
  OBVIOUS
<1>2. /\ leave \in BOOLEAN /\ phase = "reading" /\ node = <<>> /\ kids = [c \in {Root} |-> <<>>] /\ open = <<>>
      /\ defs = <<>> /\ next = 1 /\ saw = FALSE /\ fdMap = <<>> /\ walk = <<>> /\ nextIx = 0
      /\ written = Unwritten /\ removed = {}
  BY <1>1 DEF NotesInit, Unwritten
<1>3. Nodes = {} /\ Len(node) = 0 /\ Containers = {0} /\ 0..Len(node) = {0}
  BY <1>2 DEF Nodes, Containers, Root
<1>4. Unwritten \in Book
  BY DEF Unwritten, Book
<1>5. fdMap \in [DOMAIN fdMap -> Fd]
  BY <1>2
<1>6. Typed
  <2>1. node \in Seq(NodeRec) /\ open \in Seq(Nat) /\ defs \in Seq(Nat) /\ walk \in Seq(Entry)
    BY <1>2
  <2>2. written \in Book /\ removed \in SUBSET Nat /\ next \in Nat /\ nextIx \in Nat
    BY <1>2, <1>4
  <2>3. QED
    BY <1>2, <1>5, <2>1, <2>2, Zenon DEF Typed
<1>7. kids \in [{0} -> Seq({})] /\ kids[0] = <<>> /\ Listed(kids[0]) = {} /\ DOMAIN kids[0] = {}
  BY <1>2, ListedEmpty DEF Root
<1>8. Forest(kids, Len(node))
  <2>1. 1..Len(node) = {}
    BY <1>3
  <2>2. QED
    BY <1>3, <1>7, <2>1 DEF Forest
<1>9. TextOrder(kids, Len(node))
  BY <1>3, <1>7 DEF TextOrder
<1>10. OpenOnes /\ ReadOnes
  BY <1>2 DEF OpenOnes, ReadOnes
<1>11. ReadInv
  BY <1>2, <1>3, <1>8, <1>9, <1>10 DEF ReadInv
<1>12. Paired
  BY <1>3 DEF Paired
<1>13. QED
  BY <1>2, <1>6, <1>11, <1>12 DEF NotesInv

LEMMA ReadingKeeps == ASSUME NotesInv, Reading PROVE NotesInv'
<1>1. CASE \E name \in Names : AddReference(name)
  BY <1>1, AddReferenceKeeps
<1>2. CASE \E name \in Names : OpenDefinition(name)
  BY <1>2, OpenDefinitionKeeps
<1>3. CASE CloseDefinition
  BY <1>3, CloseDefinitionKeeps
<1>4. CASE OpenInline
  BY <1>4, OpenInlineKeeps
<1>5. CASE CloseInline
  BY <1>5, CloseInlineKeeps
<1>6. QED
  BY <1>1, <1>2, <1>3, <1>4, <1>5 DEF Reading

LEMMA ProcessKeeps == ASSUME NotesInv, Process PROVE NotesInv'
<1>1. CASE EnterDefinition
  BY <1>1, EnterDefinitionKeeps
<1>2. CASE Resolve
  BY <1>2, ResolveKeeps
<1>3. CASE Restore
  BY <1>3, RestoreKeeps
<1>4. CASE EndOfWalk
  BY <1>4, EndOfWalkKeeps
<1>5. CASE Place
  BY <1>5, PlaceKeeps
<1>6. CASE EndOfPlacing
  BY <1>6, EndOfPlacingKeeps
<1>7. QED
  BY <1>1, <1>2, <1>3, <1>4, <1>5, <1>6 DEF Process

LEMMA RenderKeeps == ASSUME NotesInv, Render PROVE NotesInv'
<1>1. CASE RenderDefinition
  BY <1>1, RenderDefinitionKeeps
<1>2. CASE RenderParagraph
  BY <1>2, RenderParagraphKeeps
<1>3. CASE LeaveDefinition
  BY <1>3, LeaveDefinitionKeeps
<1>4. CASE EndOfRendering
  BY <1>4, EndOfRenderingKeeps
<1>5. QED
  BY <1>1, <1>2, <1>3, <1>4 DEF Render

LEMMA NextKeeps == ASSUME NotesInv, [NotesNext]_notesVars PROVE NotesInv'
<1>1. CASE Reading
  BY <1>1, ReadingKeeps
<1>2. CASE EndOfText
  BY <1>2, EndOfTextKeeps
<1>3. CASE Process
  BY <1>3, ProcessKeeps
<1>4. CASE Render
  BY <1>4, RenderKeeps
<1>5. CASE NotesDone
  BY <1>5, StutterKeeps DEF NotesDone
<1>6. CASE UNCHANGED notesVars
  BY <1>6, StutterKeeps
<1>7. QED
  BY <1>1, <1>2, <1>3, <1>4, <1>5, <1>6 DEF NotesNext

LEMMA NotesInvHolds == NotesSpec => []NotesInv
<1>1. NotesInv /\ [NotesNext]_notesVars => NotesInv'
  BY NextKeeps
<1>2. QED
  BY <1>1, InitHolds, PTL DEF NotesSpec

(***************************************************************************)
(* The page                                                                *)
(***************************************************************************)
\* When the page is written the walk has met everything in it
LEMMA DoneIs ==
  ASSUME NotesInv, phase = "done"
  PROVE  /\ Typed /\ TreeInv /\ RenderInv /\ walk = <<>> /\ written \in Book
         /\ Nodes = 1..Len(node) /\ Len(node) \in Nat /\ Forest(kids, Len(node)) /\ kids[Root] \in Seq(Nodes)
         /\ \A D : Rendered(D) => Listed(kids[Root]) \subseteq D
<1>1. Typed /\ TreeInv /\ RenderInv /\ walk = <<>> /\ written \in Book
  BY DEF NotesInv, Typed
<1>2. Nodes = 1..Len(node) /\ Len(node) \in Nat
  BY <1>1, ContainersAre
<1>3. Forest(kids, Len(node)) /\ kids[Root] \in Seq(Nodes)
  BY <1>1, <1>2 DEF TreeInv, Forest, Root
<1>4. Ahead(walk) = {}
  BY <1>1 DEF Ahead
<1>5. ASSUME NEW D, Rendered(D) PROVE Listed(kids[Root]) \subseteq D
  BY <1>4, <1>5 DEF Rendered, Met
<1>6. QED
  BY <1>1, <1>2, <1>3, <1>5

LEMMA NumsAreNat ==
  ASSUME Typed
  PROVE  \A n \in Nodes : node[n].num \in Nat
<1>1. \A n \in Nodes : node[n] \in NodeRec
  BY DEF Typed, Nodes
<1>2. \A x \in NodeRec : x.num \in Nat
  BY DEF NodeRec
<1>3. QED
  BY <1>1, <1>2

LEMMA InlineNotesDo == ASSUME NotesInv PROVE InlineNotesResolve
<1>1. SUFFICES ASSUME NEW d \in Nodes, IsInline(d)
               PROVE  /\ node[d - 1].kind = "ref"
                      /\ phase \in {"rendering", "done"} => node[d].num > 0 /\ node[d - 1].name = node[d].name
  BY DEF InlineNotesResolve
<1>2. node[d - 1].kind = "ref" /\ node[d - 1].name = node[d].name
  BY <1>1 DEF NotesInv, Paired
<1>3. phase \in {"rendering", "done"} => node[d].num > 0
  BY <1>1 DEF NotesInv, RenderInv
<1>4. QED
  BY <1>2, <1>3

LEMMA ReferencesDo == ASSUME NotesInv PROVE ReferencesLead
<1>1. SUFFICES ASSUME phase = "done", NEW r \in written.refs
               PROVE  \E i \in DOMAIN written.items : node[written.items[i]].name = node[r].name
  BY DEF ReferencesLead
<1>2. PICK D \in SUBSET Nodes : Rendered(D)
  BY <1>1, DoneIs DEF RenderInv
<1>3. r \in References
  BY <1>2 DEF Rendered
<1>4. PICK d \in Listed(kids[Root]) : IsDefinition(d) /\ node[d].name = node[r].name
  BY <1>1, <1>3, DoneIs DEF RenderInv, Leads
<1>5. d \in D
  BY <1>1, <1>2, <1>4, DoneIs
<1>6. d \in Definitions
  BY <1>2, <1>4, <1>5 DEF Definitions, IsDefinition
<1>7. d \in Listed(written.items)
  BY <1>2, <1>5, <1>6 DEF Rendered
<1>8. QED
  BY <1>4, <1>7 DEF Listed

LEMMA NumbersDo == ASSUME NotesInv PROVE NumbersAgree
<1>1. SUFFICES ASSUME phase = "done", ~leave, ~Leftover, ~Nested
               PROVE  /\ Len(written.items) = nextIx
                      /\ \A r \in written.refs : /\ node[r].ix \in DOMAIN written.items
                                                 /\ node[written.items[node[r].ix]].name = node[r].name
  BY DEF NumbersAgree
<1>2. PICK D \in SUBSET Nodes : Rendered(D)
  BY <1>1, DoneIs DEF RenderInv
<1>3. PICK q \in Nat, h \in Nat : Framed(q, h)
  BY <1>1, DoneIs DEF RenderInv
<1>4. PICK s, items : s = kids[Root] /\ items = written.items
  OBVIOUS
<1>5. Len(s) \in Nat /\ nextIx \in Nat /\ items \in Seq(Nat) /\ Len(walk) = 0
  BY <1>1, <1>4, DoneIs DEF Typed, Book
<1>6. q = Len(s)
  BY <1>3, <1>4, <1>5 DEF Framed
<1>7. Aligned(q)
  BY <1>1, <1>3 DEF Framed
<1>8. PICK b : b = Len(s) - nextIx
  OBVIOUS
<1>9. /\ b \in Nat
      /\ \A r \in References : node[r].ix \in 1..nextIx /\ node[s[b + node[r].ix]].name = node[r].name
      /\ Len(items) = IF q <= b THEN 0 ELSE q - b
      /\ \A i \in DOMAIN items : items[i] = s[b + i]
  BY <1>4, <1>7, <1>8 DEF Aligned
<1>10. Len(items) = nextIx /\ DOMAIN items = 1..nextIx
  <2>1. Len(items) = nextIx
    BY <1>5, <1>6, <1>8, <1>9
  <2>2. QED
    BY <1>5, <2>1
<1>11. ASSUME NEW r \in written.refs PROVE node[r].ix \in DOMAIN items /\ node[items[node[r].ix]].name = node[r].name
  <2>1. r \in References
    BY <1>2 DEF Rendered
  <2>2. QED
    BY <1>9, <1>10, <2>1
<1>12. QED
  BY <1>4, <1>10, <1>11

\* Numbers from 1 to the total, each once, are as many as the references
LEMMA CountedSet ==
  ASSUME NEW R, NEW f \in [R -> Nat], NEW total \in Nat,
         \A r \in R : f[r] \in 1..total,
         \A k \in 1..total : \E r \in R : f[r] = k,
         \A r, s \in R : f[r] = f[s] => r = s
  PROVE  Cardinality(R) = total
<1>1. f \in [R -> 1..total]
  OBVIOUS
<1>2. f \in Bijection(R, 1..total)
  BY <1>1, Fun_IsBij
<1>3. ExistsBijection(1..total, R)
  <2>1. ExistsBijection(R, 1..total)
    BY <1>2, Fun_ExistsBij
  <2>2. QED
    BY <2>1, Fun_ExistsBijSymmetric
<1>4. IsFiniteSet(1..total) /\ Cardinality(1..total) = total
  BY FS_Interval
<1>5. QED
  BY <1>3, <1>4, FS_Bijection

LEMMA RefNumsDo == ASSUME NotesInv PROVE RefNumsExact
<1>1. SUFFICES ASSUME phase \in {"rendering", "done"}, NEW d \in Definitions, node[d].num > 0,
                      NEW refs, refs = {r \in References : node[r].name = node[d].name}
               PROVE  {node[r].num : r \in refs} = 1..node[d].num /\ Cardinality(refs) = node[d].num
  BY DEF RefNumsExact
<1>2. Typed /\ RenderInv
  BY <1>1 DEF NotesInv
<1>3. \A n \in Nodes : node[n].num \in Nat
  BY <1>2, NumsAreNat
<1>4. AllNumbered
  BY <1>2 DEF RenderInv
<1>5. (\A r \in refs : r \in References /\ node[r].num > 0) /\ CountsTo(node[d].name, node[d].num)
  BY <1>1, <1>4 DEF AllNumbered
<1>6. PICK name, total : name = node[d].name /\ total = node[d].num
  OBVIOUS
<1>7. total \in Nat /\ \A r \in refs : node[r].num \in Nat
  BY <1>1, <1>3, <1>5, <1>6 DEF Definitions, References
<1>8. /\ \A r \in refs : node[r].num \in 1..total
      /\ \A k \in 1..total : \E r \in refs : node[r].num = k
      /\ \A r, s \in refs : node[r].num = node[s].num => r = s
  <2>1. CountsTo(name, total) /\ \A r : r \in refs <=> r \in References /\ node[r].name = name
    BY <1>1, <1>5, <1>6
  <2>2. \A r \in refs : node[r].num \in 1..total
    BY <1>5, <1>7, <2>1 DEF CountsTo
  <2>3. \A k \in 1..total : \E r \in refs : node[r].num = k
    BY <2>1 DEF CountsTo
  <2>4. \A r, s \in refs : node[r].num = node[s].num => r = s
    BY <1>5, <2>1 DEF CountsTo
  <2>5. QED
    BY <2>2, <2>3, <2>4
<1>9. {node[r].num : r \in refs} = 1..total
  BY <1>8
<1>10. Cardinality(refs) = total
  <2>1. PICK f : f = [r \in refs |-> node[r].num]
    OBVIOUS
  <2>2. f \in [refs -> Nat] /\ \A r \in refs : f[r] = node[r].num
    BY <1>7, <2>1
  <2>3. QED
    BY <1>7, <1>8, <2>2, CountedSet
<1>11. QED
  BY <1>6, <1>9, <1>10

LEMMA FirstUseDo == ASSUME NotesInv PROVE FirstUseOrder
<1>1. SUFFICES ASSUME phase \in {"placing", "rendering", "done"}, \A n \in Nodes : ~IsInline(n),
                      NEW r \in References, NEW s \in References, node[r].num = 1, node[s].num = 1, r < s
               PROVE  node[r].ix < node[s].ix
  BY DEF FirstUseOrder
<1>2. AllNumbered
  BY <1>1 DEF NotesInv, PlaceInv, RenderInv
<1>3. FirstUses
  BY <1>1, <1>2 DEF AllNumbered, NoInlines
<1>4. QED
  BY <1>1, <1>3 DEF FirstUses

LEMMA LinkedOnceDo == ASSUME NotesInv PROVE LinkedBackOnce
<1>1. SUFFICES ASSUME phase = "done", ~Nested, NEW i \in DOMAIN written.items,
                      NEW B, B = {b \in DOMAIN written.backs : written.backs[b] = [def |-> written.items[i], item |-> i]}
               PROVE  Cardinality(B) = 1
  BY DEF LinkedBackOnce
<1>2. PICK q \in Nat, h \in Nat : Framed(q, h)
  BY <1>1, DoneIs DEF RenderInv
<1>3. PICK items, backs : items = written.items /\ backs = written.backs
  OBVIOUS
<1>4. /\ items \in Seq(Nat) /\ backs \in Seq([def : Nat, item : Nat]) /\ Len(walk) = 0 /\ Len(kids[Root]) \in Nat
  BY <1>1, <1>3, DoneIs DEF Book
<1>5. h = 0
  <2>1. PICK n, l : n = Len(kids[Root]) /\ l = Len(walk)
    OBVIOUS
  <2>2. q \in 0..n /\ l = h + (n - q)
    BY <1>2, <2>1 DEF Framed
  <2>3. QED
    BY <1>4, <2>1, <2>2
<1>6. /\ Len(backs) = Len(items)
      /\ \A b \in 1..Len(items) : backs[b] = [def |-> items[b], item |-> b]
  BY <1>2, <1>3, <1>5 DEF Framed, LinkedTo
<1>7. DOMAIN items = 1..Len(items) /\ DOMAIN backs = 1..Len(items)
  BY <1>4, <1>6
<1>8. i \in B
  BY <1>1, <1>3, <1>6, <1>7
<1>9. ASSUME NEW b \in B PROVE b = i
  <2>1. b \in 1..Len(items) /\ backs[b] = [def |-> items[i], item |-> i]
    BY <1>1, <1>3, <1>7
  <2>2. backs[b] = [def |-> items[b], item |-> b]
    BY <1>6, <2>1
  <2>3. backs[b].item = i /\ backs[b].item = b
    <3>1. [def |-> items[i], item |-> i].item = i /\ [def |-> items[b], item |-> b].item = b
      OBVIOUS
    <3>2. QED
      BY <2>1, <2>2, <3>1
  <2>4. QED
    BY <2>3
<1>10. B = {i}
  BY <1>8, <1>9
<1>11. QED
  BY <1>10, FS_Singleton

LEMMA LinksLeadDo == ASSUME NotesInv PROVE LinksBackLead
<1>1. SUFFICES ASSUME phase = "done", \A d \in removed : kids[d] = <<>>, NEW b \in DOMAIN written.backs,
                      NEW n \in 1..node[written.backs[b].def].num
               PROVE  \E r \in written.refs : node[r].name = node[written.backs[b].def].name /\ node[r].num = n
  BY DEF LinksBackLead
<1>2. PICK D \in SUBSET Nodes : Rendered(D)
  BY <1>1, DoneIs DEF RenderInv
<1>3. PICK d : d = written.backs[b].def
  OBVIOUS
<1>4. d \in Definitions /\ AllNumbered
  BY <1>1, <1>3, DoneIs DEF RenderInv
<1>5. node[d].num \in Nat
  BY <1>1, <1>4, DoneIs, NumsAreNat DEF Definitions
<1>6. node[d].num > 0
  BY <1>1, <1>3, <1>5
<1>7. PICK r \in References : node[r].name = node[d].name /\ node[r].num = n
  BY <1>1, <1>3, <1>4, <1>6 DEF AllNumbered, CountsTo
<1>8. Nodes \ removed \subseteq D
  <2>1. Nodes = 1..Len(node) /\ Len(node) \in Nat /\ Forest(kids, Len(node)) /\ TreeInv /\ walk = <<>>
    BY <1>1, DoneIs
  <2>2. PICK N, out : N = Len(node) /\ out = removed
    OBVIOUS
  <2>3. Met(kids, N, <<>>, D)
    BY <1>2, <2>1, <2>2 DEF Rendered
  <2>4. ASSUME NEW m \in 1..N, m \notin out PROVE \E c \in 0..N : c < m /\ m \in Listed(kids[c])
    <3>1. Held(kids, N, m)
      BY <2>1, <2>2, <2>4 DEF TreeInv
    <3>2. PICK c \in 0..N : m \in Listed(kids[c])
      BY <3>1 DEF Held
    <3>3. c < m
      BY <2>1, <2>2, <3>2 DEF Forest
    <3>4. QED
      BY <3>2, <3>3
  <2>5. out \in SUBSET (1..N) /\ N \in Nat /\ \A m \in out : kids[m] = <<>>
    BY <1>1, <2>1, <2>2 DEF TreeInv
  <2>6. (1..N) \ out \subseteq D
    BY <2>3, <2>4, <2>5, WalkEnds
  <2>7. QED
    BY <2>1, <2>2, <2>6
<1>9. r \in Nodes \ removed
  <2>1. \A m \in removed : IsDefinition(m)
    BY <1>1, DoneIs DEF TreeInv
  <2>2. QED
    BY <2>1 DEF References, IsDefinition
<1>10. r \in written.refs
  BY <1>2, <1>8, <1>9 DEF Rendered
<1>11. QED
  BY <1>3, <1>7, <1>10

\* However the text is written, every reference in the page, an author's or an inline note's, leads to a
\* list item that has its name: find_footnote_definitions, find_footnote_references and the
\* placing of process_footnotes never part a reference from its definition
THEOREM NoReferenceIsLost == NotesSpec => []ReferencesResolve
<1>1. NotesInv => ReferencesResolve
  BY InlineNotesDo, ReferencesDo DEF ReferencesResolve
<1>2. QED
  BY <1>1, NotesInvHolds, PTL

\* The number a reference shows is that of the list item it leads to, the references to a
\* definition are numbered from 1 to its total, each number once, and definitions are numbered in
\* the order of their first references, under the conditions the properties name
THEOREM NumbersAreTrue == NotesSpec => []NumberedAsUsed
<1>1. NotesInv => NumberedAsUsed
  BY NumbersDo, RefNumsDo, FirstUseDo DEF NumberedAsUsed
<1>2. QED
  BY <1>1, NotesInvHolds, PTL

\* put_footnote_backref, called at the last paragraph of a definition and again on leaving it,
\* writes the links back of every item once, unless a definition stands in another one, and each
\* of them leads to a reference in the page, unless a removed definition held references
THEOREM LinksLeadBack == NotesSpec => []LinkedBack
<1>1. NotesInv => LinkedBack
  BY LinkedOnceDo, LinksLeadDo DEF LinkedBack
<1>2. QED
  BY <1>1, NotesInvHolds, PTL
================================================================================
