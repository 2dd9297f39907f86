--------------------------- MODULE ArenaTreeProofs ---------------------------
(***************************************************************************)
(* The pointers of ArenaTree implement lists of children, for every set of *)
(* nodes and every sequence of calls.                                      *)
(*                                                                         *)
(* Each method is a Detach followed by one way of linking a loose node, so *)
(* there is one lemma for Detach, one for each way of linking, and the     *)
(* step of the invariant composes them.                                    *)
(***************************************************************************)
EXTENDS ArenaTree, TLAPS

Lists == [Node -> Seq(Node)]

\* Taking one element out of a sequence leaves a sequence, one shorter.
LEMMA CutIsSeq ==
  ASSUME NEW s \in Seq(Node), NEW i \in 1 .. Len(s)
  PROVE  /\ Cut(s, i) \in Seq(Node)
         /\ Len(Cut(s, i)) = Len(s) - 1
         /\ \A j \in 1 .. Len(s) - 1 : Cut(s, i)[j] = IF j < i THEN s[j] ELSE s[j + 1]
  BY DEF Cut

\* Putting one element into a sequence leaves a sequence, one longer.
LEMMA SpliceIsSeq ==
  ASSUME NEW s \in Seq(Node), NEW i \in 1 .. Len(s) + 1, NEW n \in Node
  PROVE  /\ Splice(s, i, n) \in Seq(Node)
         /\ Len(Splice(s, i, n)) = Len(s) + 1
         /\ \A j \in 1 .. Len(s) + 1 :
              Splice(s, i, n)[j] = IF j < i THEN s[j] ELSE IF j = i THEN n ELSE s[j - 1]
  BY DEF Splice

\* IndexIn finds a listed node.
LEMMA IndexInList ==
  ASSUME NEW s \in Seq(Node), NEW n \in Node, Has(s, n)
  PROVE  IndexIn(s, n) \in 1 .. Len(s) /\ s[IndexIn(s, n)] = n
  BY DEF Has, IndexIn

\* What Without does to the one list that holds n, and to the others.
LEMMA WithoutListed ==
  ASSUME NEW k \in Lists, Once(k), NEW p \in Node, NEW i \in 1 .. Len(k[p])
  PROVE  Without(k, k[p][i]) = [k EXCEPT ![p] = Cut(k[p], i)]
<1> DEFINE n == k[p][i]
<1>1. n \in Node
  BY DEF Lists
<1>2. Has(k[p], n) /\ IndexIn(k[p], n) = i
  <2>1. Has(k[p], n)
    BY DEF Has
  <2>2. QED
    BY <2>1, <1>1, IndexInList DEF Once, Lists
<1>3. \A q \in Node : q # p => ~Has(k[q], n)
  BY DEF Has, Once
<1>4. QED
  BY <1>2, <1>3 DEF Without, Lists

\* Detach unlinks n, and leaves the rest linked.
LEMMA DetachLinked ==
  ASSUME NEW t \in Fields, NEW k \in Lists, Linked(t, k), NEW n \in Node
  PROVE  /\ Detach(t, n) \in Fields
         /\ Without(k, n) \in Lists
         /\ Linked(Detach(t, n), Without(k, n))
         /\ Unlisted(Without(k, n), n)
<1> USE NoneAssumption
<1>1. CASE Unlisted(k, n)
  <2>1. Without(k, n) = k
    BY <1>1 DEF Unlisted, Without, Lists
  <2>2. /\ t.parent[n] = None
        /\ t.previous_sibling[n] = None
        /\ t.next_sibling[n] = None
    BY <1>1 DEF Linked, Loose
  <2>3. Detach(t, n) = t
    BY <2>2 DEF Detach, Put, PutIf, Fields
  <2>4. QED
    BY <1>1, <2>1, <2>3
<1>2. CASE ~Unlisted(k, n)
  <2>a. PICK p \in Node : Has(k[p], n)
    BY <1>2 DEF Unlisted
  <2>1. PICK i \in 1 .. Len(k[p]) : k[p][i] = n
    BY <2>a DEF Has
  <2> DEFINE u == Detach(t, n)
             m == Without(k, n)
             s == k[p]
             len == Len(s)
  <2>0. \A q \in Node : /\ k[q] \in Seq(Node) /\ Len(k[q]) \in Nat
                        /\ \A j \in 1 .. Len(k[q]) : k[q][j] \in Node
    BY DEF Lists
  <2>2. m = [k EXCEPT ![p] = Cut(s, i)]
    <3>1. Without(k, k[p][i]) = [k EXCEPT ![p] = Cut(k[p], i)]
      BY WithoutListed DEF Linked
    <3>2. QED
      BY <3>1, <2>1
  <2>3. /\ s \in Seq(Node) /\ len \in Nat /\ i \in 1 .. len
        /\ m[p] \in Seq(Node) /\ Len(m[p]) = len - 1
        /\ \A j \in 1 .. len - 1 : m[p][j] = IF j < i THEN s[j] ELSE s[j + 1]
        /\ m \in Lists
        /\ \A q \in Node : q # p => m[q] = k[q]
    <3>1. s \in Seq(Node) /\ len \in Nat
      BY DEF Lists
    <3>2. /\ Cut(s, i) \in Seq(Node) /\ Len(Cut(s, i)) = len - 1
          /\ \A j \in 1 .. len - 1 : Cut(s, i)[j] = IF j < i THEN s[j] ELSE s[j + 1]
      BY <3>1, CutIsSeq
    <3>3. m[p] = Cut(s, i) /\ \A q \in Node : q # p => m[q] = k[q]
      BY <2>2 DEF Lists
    <3>4. m \in Lists
      BY <2>2, <3>2 DEF Lists
    <3>5. QED
      BY <3>1, <3>2, <3>3, <3>4
  <2>4. /\ t.parent[n] = p
        /\ t.previous_sibling[n] = IF i = 1 THEN None ELSE s[i - 1]
        /\ t.next_sibling[n] = IF i = len THEN None ELSE s[i + 1]
    BY <2>1, <2>3 DEF Linked, Chain
  <2>5. \A q \in Node : \A j \in 1 .. Len(k[q]) : k[q][j] = n => q = p /\ j = i
    BY <2>1 DEF Linked, Once
  <2>6. Unlisted(m, n)
    BY <2>3, <2>5 DEF Unlisted, Has
  <2>7. Once(m)
    <3> SUFFICES ASSUME NEW q \in Node, NEW r \in Node,
                        NEW a \in 1 .. Len(m[q]), NEW b \in 1 .. Len(m[r]),
                        m[q][a] = m[r][b]
                 PROVE  q = r /\ a = b
      BY DEF Once
    <3> DEFINE old(x, c) == IF x = p /\ c >= i THEN c + 1 ELSE c
    <3>1. ASSUME NEW x \in Node, NEW c \in 1 .. Len(m[x])
          PROVE  old(x, c) \in 1 .. Len(k[x]) /\ m[x][c] = k[x][old(x, c)]
      <4>1. CASE x # p
        BY <4>1, <2>3
      <4>2. CASE x = p
        BY <4>2, <2>3
      <4>3. QED
        BY <4>1, <4>2
    <3>2. /\ old(q, a) \in 1 .. Len(k[q]) /\ old(r, b) \in 1 .. Len(k[r])
          /\ k[q][old(q, a)] = k[r][old(r, b)]
      BY <3>1
    <3>3. a \in Nat /\ b \in Nat
      BY <2>3 DEF Lists
    <3> HIDE DEF old
    <3>4. q = r /\ old(q, a) = old(r, b)
      BY <3>2 DEF Linked, Once
    <3>5. QED
      BY <3>3, <3>4, <2>3 DEF old
  <2>8. u \in Fields
    BY DEF Detach, Put, PutIf, Fields, Pointer
  <2> DEFINE before == t.previous_sibling[n]
             after == t.next_sibling[n]
  <2>9. /\ \A x \in Node : u.parent[x] = IF x = n THEN None ELSE t.parent[x]
        /\ \A x \in Node : u.previous_sibling[x] =
             IF x = after THEN before ELSE IF x = n THEN None ELSE t.previous_sibling[x]
        /\ \A x \in Node : u.next_sibling[x] =
             IF x = before THEN after ELSE IF x = n THEN None ELSE t.next_sibling[x]
        /\ \A x \in Node : u.last_child[x] =
             IF after = None /\ x = p THEN before ELSE t.last_child[x]
        /\ \A x \in Node : u.first_child[x] =
             IF before = None /\ x = p THEN after ELSE t.first_child[x]
    BY <2>4 DEF Detach, Put, PutIf, Fields, Pointer
  <2>10. Ends(u, m)
    <3>1. ASSUME NEW q \in Node, q # p
          PROVE  /\ u.first_child[q] = t.first_child[q] /\ u.last_child[q] = t.last_child[q]
                 /\ m[q] = k[q]
      BY <3>1, <2>9, <2>3
    <3>2. /\ u.first_child[p] = IF Len(m[p]) = 0 THEN None ELSE m[p][1]
          /\ u.last_child[p] = IF Len(m[p]) = 0 THEN None ELSE m[p][Len(m[p])]
      <4>1. t.first_child[p] = s[1] /\ t.last_child[p] = s[len]
        BY <2>3 DEF Linked, Ends
      <4>2. \A j \in 1 .. len : s[j] \in Node
        BY <2>3
      <4>3. QED
        <5>1. CASE len = 1
          BY <5>1, <4>1, <2>3, <2>4, <2>9
        <5>2. CASE len > 1 /\ i = 1
          BY <5>2, <4>1, <4>2, <2>3, <2>4, <2>9
        <5>3. CASE len > 1 /\ i = len
          BY <5>3, <4>1, <4>2, <2>3, <2>4, <2>9
        <5>4. CASE 1 < i /\ i < len
          BY <5>4, <4>1, <4>2, <2>3, <2>4, <2>9
        <5>5. \/ len = 1
              \/ len > 1 /\ i = 1
              \/ len > 1 /\ i = len
              \/ 1 < i /\ i < len
          <6>1. i \in 1 .. len /\ len \in Nat
            BY <2>3
          <6> HIDE DEF len
          <6>2. QED
            BY <6>1
        <5>6. QED
          BY <5>1, <5>2, <5>3, <5>4, <5>5
    <3>3. QED
      BY <3>1, <3>2 DEF Linked, Ends
  <2>11. Chain(u, m)
    <3>1. ASSUME NEW q \in Node, q # p, NEW j \in 1 .. Len(k[q])
          PROVE  /\ u.parent[k[q][j]] = t.parent[k[q][j]]
                 /\ u.previous_sibling[k[q][j]] = t.previous_sibling[k[q][j]]
                 /\ u.next_sibling[k[q][j]] = t.next_sibling[k[q][j]]
      <4>1. k[q][j] \in Node
        BY <2>0
      <4>2. \A x \in 1 .. len : k[q][j] # s[x]
        BY <3>1 DEF Linked, Once
      <4>3. k[q][j] # n
        BY <4>2, <2>1, <2>3
      <4>4. k[q][j] # before
        BY <4>1, <4>2, <2>3, <2>4
      <4>5. k[q][j] # after
        BY <4>1, <4>2, <2>3, <2>4
      <4>6. QED
        BY <4>1, <4>3, <4>4, <4>5, <2>9
    <3>2. ASSUME NEW j \in 1 .. len - 1
          PROVE  /\ u.parent[m[p][j]] = p
                 /\ u.previous_sibling[m[p][j]] = IF j = 1 THEN None ELSE m[p][j - 1]
                 /\ u.next_sibling[m[p][j]] = IF j = len - 1 THEN None ELSE m[p][j + 1]
      <4> DEFINE x == IF j < i THEN j ELSE j + 1
      <4>1. /\ x = IF j < i THEN j ELSE j + 1
            /\ x \in 1 .. len /\ x # i /\ m[p][j] = s[x] /\ s[x] \in Node
            /\ j > 1 => m[p][j - 1] = IF j - 1 < i THEN s[j - 1] ELSE s[j]
            /\ j < len - 1 => m[p][j + 1] = IF j + 1 < i THEN s[j + 1] ELSE s[j + 2]
        BY <2>3
      <4> HIDE DEF x
      <4>2. /\ t.parent[s[x]] = p
            /\ t.previous_sibling[s[x]] = IF x = 1 THEN None ELSE s[x - 1]
            /\ t.next_sibling[s[x]] = IF x = len THEN None ELSE s[x + 1]
        <5>1. \A y \in 1 .. len :
                /\ t.parent[s[y]] = p
                /\ t.previous_sibling[s[y]] = IF y = 1 THEN None ELSE s[y - 1]
                /\ t.next_sibling[s[y]] = IF y = len THEN None ELSE s[y + 1]
          BY DEF Linked, Chain
        <5>2. QED
          BY <5>1, <4>1
      <4>a. \A y \in 1 .. len : s[y] = s[x] => y = x
        BY <4>1 DEF Linked, Once
      <4>3. s[x] # n /\ (s[x] = after <=> x = i + 1) /\ (s[x] = before <=> x = i - 1)
        BY <4>1, <4>a, <2>1, <2>3, <2>4
      <4>4. u.parent[m[p][j]] = p
        BY <4>1, <4>2, <4>3, <2>9
      <4>5. u.previous_sibling[m[p][j]] = IF j = 1 THEN None ELSE m[p][j - 1]
        BY <4>1, <4>2, <4>3, <2>3, <2>4, <2>9
      <4>6. u.next_sibling[m[p][j]] = IF j = len - 1 THEN None ELSE m[p][j + 1]
        BY <4>1, <4>2, <4>3, <2>3, <2>4, <2>9
      <4>7. QED
        BY <4>4, <4>5, <4>6
    <3>3. ASSUME NEW q \in Node, NEW j \in 1 .. Len(m[q])
          PROVE  /\ u.parent[m[q][j]] = q
                 /\ u.previous_sibling[m[q][j]] = IF j = 1 THEN None ELSE m[q][j - 1]
                 /\ u.next_sibling[m[q][j]] = IF j = Len(m[q]) THEN None ELSE m[q][j + 1]
      <4>1. CASE q = p
        BY <4>1, <3>2, <2>3
      <4>2. CASE q # p
        <5>1. m[q] = k[q] /\ j \in 1 .. Len(k[q])
          BY <4>2, <2>3
        <5>2. /\ t.parent[k[q][j]] = q
              /\ t.previous_sibling[k[q][j]] = IF j = 1 THEN None ELSE k[q][j - 1]
              /\ t.next_sibling[k[q][j]] = IF j = Len(k[q]) THEN None ELSE k[q][j + 1]
          BY <5>1 DEF Linked, Chain
        <5>3. QED
          BY <5>1, <5>2, <4>2, <3>1
      <4>3. QED
        BY <4>1, <4>2
    <3>4. QED
      BY <3>3 DEF Chain
  <2>12. Loose(u, m)
    <3> SUFFICES ASSUME NEW x \in Node, Unlisted(m, x)
                 PROVE  /\ u.parent[x] = None
                        /\ u.previous_sibling[x] = None
                        /\ u.next_sibling[x] = None
      BY DEF Loose
    <3>1. \A j \in 1 .. len : j # i => s[j] # x
      <4> SUFFICES ASSUME NEW j \in 1 .. len, j # i, s[j] = x
                   PROVE  FALSE
        OBVIOUS
      <4>1. CASE j < i
        BY <4>1, <2>3 DEF Unlisted, Has
      <4>2. CASE j > i
        <5>1. j - 1 \in 1 .. len - 1 /\ m[p][j - 1] = s[j]
          BY <4>2, <2>3
        <5>2. QED
          BY <5>1, <2>3 DEF Unlisted, Has
      <4>3. QED
        BY <4>1, <4>2, <2>3
    <3>2. x # before /\ x # after
      BY <3>1, <2>3, <2>4
    <3>3. CASE x = n
      BY <3>2, <3>3, <2>9
    <3>4. CASE x # n
      <4>1. Unlisted(k, x)
        <5>1. \A j \in 1 .. len : s[j] # x
          BY <3>1, <3>4, <2>1
        <5>2. ASSUME NEW q \in Node, q # p, NEW j \in 1 .. Len(k[q])
              PROVE  k[q][j] # x
          BY <5>2, <2>3 DEF Unlisted, Has
        <5>3. QED
          BY <5>1, <5>2 DEF Unlisted, Has
      <4>2. QED
        BY <4>1, <3>2, <3>4, <2>9 DEF Linked, Loose
    <3>5. QED
      BY <3>3, <3>4
  <2>13. QED
    BY <2>3, <2>6, <2>7, <2>8, <2>10, <2>11, <2>12 DEF Linked
<1>3. QED
  BY <1>1, <1>2
\* Node c put in as the i-th child of p: what each way of linking comes to.
LinkAt(t, k, p, i, c) ==
  LET before == IF i = 1 THEN None ELSE k[p][i - 1]
      after == IF i = Len(k[p]) + 1 THEN None ELSE k[p][i]
  IN  [parent           |-> [x \in Node |-> IF x = c THEN p ELSE t.parent[x]],
       previous_sibling |-> [x \in Node |-> IF x = after THEN c ELSE
                                            IF x = c THEN before ELSE t.previous_sibling[x]],
       next_sibling     |-> [x \in Node |-> IF x = before THEN c ELSE
                                            IF x = c THEN after ELSE t.next_sibling[x]],
       first_child      |-> [x \in Node |-> IF x = p /\ before = None THEN c ELSE t.first_child[x]],
       last_child       |-> [x \in Node |-> IF x = p /\ after = None THEN c ELSE t.last_child[x]]]

\* Linking an unlisted node in keeps the rest linked.
LEMMA LinkAtLinked ==
  ASSUME NEW t \in Fields, NEW k \in Lists, Linked(t, k),
         NEW p \in Node, NEW c \in Node, NEW i \in 1 .. Len(k[p]) + 1, Unlisted(k, c)
  PROVE  /\ LinkAt(t, k, p, i, c) \in Fields
         /\ With(k, p, i, c) \in Lists
         /\ Linked(LinkAt(t, k, p, i, c), With(k, p, i, c))
<1> USE NoneAssumption
<1> DEFINE u == LinkAt(t, k, p, i, c)
           m == With(k, p, i, c)
           s == k[p]
           len == Len(s)
           before == IF i = 1 THEN None ELSE s[i - 1]
           after == IF i = len + 1 THEN None ELSE s[i]
<1>0. \A q \in Node : /\ k[q] \in Seq(Node) /\ Len(k[q]) \in Nat
                      /\ \A j \in 1 .. Len(k[q]) : k[q][j] \in Node /\ k[q][j] # c
  BY DEF Lists, Unlisted, Has
<1>1. /\ s \in Seq(Node) /\ len \in Nat /\ i \in 1 .. len + 1
      /\ m[p] \in Seq(Node) /\ Len(m[p]) = len + 1
      /\ \A j \in 1 .. len + 1 : m[p][j] = IF j < i THEN s[j] ELSE IF j = i THEN c ELSE s[j - 1]
      /\ m \in Lists
      /\ \A q \in Node : q # p => m[q] = k[q]
  <2>1. /\ Splice(s, i, c) \in Seq(Node) /\ Len(Splice(s, i, c)) = len + 1
        /\ \A j \in 1 .. len + 1 :
             Splice(s, i, c)[j] = IF j < i THEN s[j] ELSE IF j = i THEN c ELSE s[j - 1]
    BY <1>0, SpliceIsSeq
  <2>2. m[p] = Splice(s, i, c) /\ \A q \in Node : q # p => m[q] = k[q]
    BY DEF With, Lists
  <2>3. m \in Lists
    BY <2>1 DEF With, Lists
  <2>4. QED
    BY <1>0, <2>1, <2>2, <2>3
<1>b. /\ \A j \in 1 .. len : j < i => j \in 1 .. len + 1 /\ m[p][j] = s[j]
      /\ m[p][i] = c
      /\ \A j \in 1 .. len : j >= i => j + 1 \in 1 .. len + 1 /\ m[p][j + 1] = s[j]
  <2>1. ASSUME NEW j \in 1 .. len, j >= i
        PROVE  j + 1 \in 1 .. len + 1 /\ m[p][j + 1] = s[j]
    <3>1. j + 1 \in 1 .. len + 1 /\ j + 1 > i /\ (j + 1) - 1 = j
      BY <2>1, <1>1
    <3>2. QED
      BY <3>1, <1>1
  <2>2. QED
    BY <2>1, <1>1
<1>2. /\ before \in Pointer /\ after \in Pointer
      /\ before # c /\ after # c
      /\ before # None => before = s[i - 1] /\ i - 1 \in 1 .. len
      /\ after # None => after = s[i] /\ i \in 1 .. len
      /\ before = None <=> i = 1
      /\ after = None <=> i = len + 1
  BY <1>0 DEF Pointer
<1>3. /\ \A x \in Node : u.parent[x] = IF x = c THEN p ELSE t.parent[x]
      /\ \A x \in Node : u.previous_sibling[x] =
           IF x = after THEN c ELSE IF x = c THEN before ELSE t.previous_sibling[x]
      /\ \A x \in Node : u.next_sibling[x] =
           IF x = before THEN c ELSE IF x = c THEN after ELSE t.next_sibling[x]
      /\ \A x \in Node : u.first_child[x] =
           IF x = p /\ before = None THEN c ELSE t.first_child[x]
      /\ \A x \in Node : u.last_child[x] =
           IF x = p /\ after = None THEN c ELSE t.last_child[x]
  BY DEF LinkAt
<1>4. u \in Fields
  <2>1. /\ u.parent \in [Node -> Pointer] /\ u.previous_sibling \in [Node -> Pointer]
        /\ u.next_sibling \in [Node -> Pointer] /\ u.first_child \in [Node -> Pointer]
        /\ u.last_child \in [Node -> Pointer]
    BY <1>2 DEF LinkAt, Fields, Pointer
  <2>2. QED
    BY <2>1 DEF LinkAt, Fields
<1> HIDE DEF u, m, before, after
<1>5. \A x, y \in 1 .. len : s[x] = s[y] => x = y
  BY DEF Linked, Once
<1>6. Once(m)
  <2> SUFFICES ASSUME NEW q \in Node, NEW r \in Node,
                      NEW a \in 1 .. Len(m[q]), NEW b \in 1 .. Len(m[r]),
                      m[q][a] = m[r][b]
               PROVE  q = r /\ a = b
    BY DEF Once
  <2> DEFINE old(x, d) == IF x = p /\ d > i THEN d - 1 ELSE d
  <2>1. ASSUME NEW x \in Node, NEW d \in 1 .. Len(m[x])
        PROVE  \/ x = p /\ d = i /\ m[x][d] = c
               \/ /\ old(x, d) \in 1 .. Len(k[x]) /\ m[x][d] = k[x][old(x, d)]
                  /\ ~(x = p /\ d = i) /\ m[x][d] # c
    <3>1. CASE x # p
      BY <3>1, <1>0, <1>1
    <3>2. CASE x = p
      BY <3>2, <1>0, <1>1
    <3>3. QED
      BY <3>1, <3>2
  <2>2. a \in Nat /\ b \in Nat
    BY <1>1 DEF Lists
  <2> HIDE DEF old
  <2>3. CASE m[q][a] = c
    BY <2>1, <2>3
  <2>4. CASE m[q][a] # c
    <3>1. /\ old(q, a) \in 1 .. Len(k[q]) /\ old(r, b) \in 1 .. Len(k[r])
          /\ k[q][old(q, a)] = k[r][old(r, b)]
          /\ ~(q = p /\ a = i) /\ ~(r = p /\ b = i)
      BY <2>1, <2>4
    <3>2. q = r /\ old(q, a) = old(r, b)
      BY <3>1 DEF Linked, Once
    <3>3. QED
      BY <3>1, <3>2, <2>2, <1>1 DEF old
  <2>5. QED
    BY <2>3, <2>4
<1>7. Ends(u, m)
  <2>1. ASSUME NEW q \in Node, q # p
        PROVE  /\ u.first_child[q] = t.first_child[q] /\ u.last_child[q] = t.last_child[q]
               /\ m[q] = k[q]
    BY <2>1, <1>3, <1>1
  <2>2. u.first_child[p] = m[p][1]
    <3>1. CASE i = 1
      BY <3>1, <1>1, <1>2, <1>3
    <3>2. CASE i > 1
      <4>1. t.first_child[p] = s[1]
        BY <3>2, <1>1 DEF Linked, Ends
      <4>2. QED
        BY <4>1, <3>2, <1>1, <1>2, <1>3
    <3>3. QED
      BY <3>1, <3>2, <1>1
  <2>3. u.last_child[p] = m[p][len + 1]
    <3>1. CASE i = len + 1
      BY <3>1, <1>1, <1>2, <1>3
    <3>2. CASE i # len + 1
      <4>1. t.last_child[p] = s[len] /\ len > 0
        BY <3>2, <1>1 DEF Linked, Ends
      <4>2. QED
        BY <4>1, <3>2, <1>1, <1>2, <1>3
    <3>3. QED
      BY <3>1, <3>2
  <2>4. QED
    BY <2>1, <2>2, <2>3, <1>1 DEF Linked, Ends
<1>8. Chain(u, m)
  <2>1. ASSUME NEW q \in Node, q # p, NEW j \in 1 .. Len(k[q])
        PROVE  /\ u.parent[k[q][j]] = t.parent[k[q][j]]
               /\ u.previous_sibling[k[q][j]] = t.previous_sibling[k[q][j]]
               /\ u.next_sibling[k[q][j]] = t.next_sibling[k[q][j]]
    <3>1. k[q][j] \in Node /\ k[q][j] # c
      BY <1>0
    <3>2. \A x \in 1 .. len : k[q][j] # s[x]
      BY <2>1 DEF Linked, Once
    <3>3. k[q][j] # before /\ k[q][j] # after
      BY <3>1, <3>2, <1>2
    <3>4. QED
      BY <3>1, <3>3, <1>3
  <2>2. ASSUME NEW x \in 1 .. len
        PROVE  /\ s[x] \in Node /\ u.parent[s[x]] = p
               /\ u.previous_sibling[s[x]] = IF x = i THEN c ELSE IF x = 1 THEN None ELSE s[x - 1]
               /\ u.next_sibling[s[x]] = IF x = i - 1 THEN c ELSE IF x = len THEN None ELSE s[x + 1]
    <3>1. s[x] \in Node /\ s[x] # c
      BY <1>0
    <3>2. /\ t.parent[s[x]] = p
          /\ t.previous_sibling[s[x]] = IF x = 1 THEN None ELSE s[x - 1]
          /\ t.next_sibling[s[x]] = IF x = len THEN None ELSE s[x + 1]
      BY DEF Linked, Chain
    <3>3. (s[x] = before <=> x = i - 1) /\ (s[x] = after <=> x = i)
      BY <3>1, <1>1, <1>2, <1>5
    <3>4. QED
      BY <3>1, <3>2, <3>3, <1>3
  <2>3. u.parent[c] = p /\ u.previous_sibling[c] = before /\ u.next_sibling[c] = after
    BY <1>2, <1>3
  <2>4. ASSUME NEW j \in 1 .. len + 1
        PROVE  /\ u.parent[m[p][j]] = p
               /\ u.previous_sibling[m[p][j]] = IF j = 1 THEN None ELSE m[p][j - 1]
               /\ u.next_sibling[m[p][j]] = IF j = len + 1 THEN None ELSE m[p][j + 1]
    <3>1. CASE j < i
      <4>1. j \in 1 .. len /\ m[p][j] = s[j]
        BY <3>1, <1>1, <1>b
      <4>2. /\ u.parent[s[j]] = p
            /\ u.previous_sibling[s[j]] = IF j = 1 THEN None ELSE s[j - 1]
            /\ u.next_sibling[s[j]] = IF j = i - 1 THEN c ELSE IF j = len THEN None ELSE s[j + 1]
        <5>1. j # i
          BY <3>1, <1>1
        <5>2. QED
          BY <5>1, <4>1, <2>2
      <4>3. ASSUME j # 1 PROVE m[p][j - 1] = s[j - 1]
        <5>1. j - 1 \in 1 .. len /\ j - 1 < i
          BY <4>1, <4>3, <3>1, <1>1
        <5>2. QED
          BY <5>1, <1>b
      <4>4. CASE j = i - 1
        <5>1. j + 1 = i /\ j # len + 1
          BY <4>4, <3>1, <1>1
        <5>2. m[p][j + 1] = c
          BY <5>1, <1>b
        <5>3. QED
          BY <5>1, <5>2, <4>1, <4>2, <4>3, <4>4
      <4>5. CASE j # i - 1
        <5>1. j + 1 \in 1 .. len /\ j + 1 < i /\ j # len + 1 /\ j # len
          BY <4>5, <3>1, <1>1
        <5>2. m[p][j + 1] = s[j + 1]
          BY <5>1, <1>b
        <5>3. QED
          BY <5>1, <5>2, <4>1, <4>2, <4>3, <4>5
      <4>6. QED
        BY <4>4, <4>5
    <3>2. CASE j = i
      <4>1. m[p][j] = c
        BY <3>2, <1>b
      <4>2. u.parent[c] = p /\ u.previous_sibling[c] = before /\ u.next_sibling[c] = after
        BY <2>3
      <4>3. before = IF j = 1 THEN None ELSE m[p][j - 1]
        <5>1. CASE j = 1
          BY <5>1, <3>2, <1>2
        <5>2. CASE j # 1
          <6>1. before = s[i - 1] /\ i - 1 \in 1 .. len /\ i - 1 < i
            BY <5>2, <3>2, <1>1, <1>2
          <6>2. m[p][i - 1] = s[i - 1]
            BY <6>1, <1>b
          <6>3. QED
            BY <6>1, <6>2, <5>2, <3>2
        <5>3. QED
          BY <5>1, <5>2
      <4>4. after = IF j = len + 1 THEN None ELSE m[p][j + 1]
        <5>1. CASE j = len + 1
          BY <5>1, <3>2, <1>2
        <5>2. CASE j # len + 1
          <6>1. after = s[i] /\ i \in 1 .. len /\ i >= i
            BY <5>2, <3>2, <1>1, <1>2
          <6>2. m[p][i + 1] = s[i]
            BY <6>1, <1>b
          <6>3. QED
            BY <6>1, <6>2, <5>2, <3>2
        <5>3. QED
          BY <5>1, <5>2
      <4>5. QED
        BY <4>1, <4>2, <4>3, <4>4
    <3>3. CASE j > i
      <4> DEFINE x == j - 1
      <4>1. x \in 1 .. len /\ x >= i /\ j = x + 1 /\ j # 1
        BY <3>3, <1>1
      <4> HIDE DEF x
      <4>2. m[p][j] = s[x]
        BY <4>1, <1>b
      <4>3. /\ u.parent[s[x]] = p
            /\ u.previous_sibling[s[x]] = IF x = i THEN c ELSE IF x = 1 THEN None ELSE s[x - 1]
            /\ u.next_sibling[s[x]] = IF x = len THEN None ELSE s[x + 1]
        <5>1. x # i - 1
          BY <4>1, <1>1
        <5>2. QED
          BY <5>1, <4>1, <2>2
      <4>4. m[p][x] = IF x = i THEN c ELSE s[x - 1]
        <5>1. CASE x = i
          BY <5>1, <1>b
        <5>2. CASE x # i
          <6>1. x - 1 \in 1 .. len /\ x - 1 >= i /\ (x - 1) + 1 = x
            BY <5>2, <4>1, <1>1
          <6>2. QED
            BY <6>1, <5>2, <1>b
        <5>3. QED
          BY <5>1, <5>2
      <4>5. ASSUME x # len PROVE m[p][j + 1] = s[x + 1]
        <5>1. x + 1 \in 1 .. len /\ x + 1 >= i /\ (x + 1) + 1 = j + 1
          BY <4>1, <4>5, <1>1
        <5>2. QED
          BY <5>1, <1>b
      <4>6. x = i \/ x # 1
        BY <4>1, <1>1
      <4>7. (j = len + 1 <=> x = len) /\ j - 1 = x
        BY <4>1, <1>1
      <4>8. QED
        BY <4>1, <4>2, <4>3, <4>4, <4>5, <4>6, <4>7
    <3>4. QED
      BY <3>1, <3>2, <3>3, <1>1
  <2>5. ASSUME NEW q \in Node, NEW j \in 1 .. Len(m[q])
        PROVE  /\ u.parent[m[q][j]] = q
               /\ u.previous_sibling[m[q][j]] = IF j = 1 THEN None ELSE m[q][j - 1]
               /\ u.next_sibling[m[q][j]] = IF j = Len(m[q]) THEN None ELSE m[q][j + 1]
    <3>1. CASE q = p
      BY <3>1, <2>4, <1>1
    <3>2. CASE q # p
      <4>1. m[q] = k[q] /\ j \in 1 .. Len(k[q])
        BY <3>2, <1>1
      <4>2. /\ t.parent[k[q][j]] = q
            /\ t.previous_sibling[k[q][j]] = IF j = 1 THEN None ELSE k[q][j - 1]
            /\ t.next_sibling[k[q][j]] = IF j = Len(k[q]) THEN None ELSE k[q][j + 1]
        BY <4>1 DEF Linked, Chain
      <4>3. QED
        BY <4>1, <4>2, <3>2, <2>1
    <3>3. QED
      BY <3>1, <3>2
  <2>6. QED
    BY <2>5 DEF Chain
<1>9. Loose(u, m)
  <2> SUFFICES ASSUME NEW x \in Node, Unlisted(m, x)
               PROVE  /\ u.parent[x] = None
                      /\ u.previous_sibling[x] = None
                      /\ u.next_sibling[x] = None
    BY DEF Loose
  <2>1. x # c
    BY <1>1 DEF Unlisted, Has
  <2>2. \A j \in 1 .. len : s[j] # x
    <3> SUFFICES ASSUME NEW j \in 1 .. len, s[j] = x
                 PROVE  FALSE
      OBVIOUS
    <3>1. CASE j < i
      BY <3>1, <1>1, <1>b DEF Unlisted, Has
    <3>2. CASE j >= i
      BY <3>2, <1>1, <1>b DEF Unlisted, Has
    <3>3. QED
      BY <3>1, <3>2, <1>1
  <2>3. Unlisted(k, x)
    <3>1. ASSUME NEW q \in Node, q # p, NEW j \in 1 .. Len(k[q])
          PROVE  k[q][j] # x
      BY <3>1, <1>1 DEF Unlisted, Has
    <3>2. QED
      BY <2>2, <3>1 DEF Unlisted, Has
  <2>4. x # before /\ x # after
    BY <2>2, <1>2
  <2>5. QED
    BY <2>1, <2>3, <2>4, <1>3 DEF Linked, Loose
<1>10. QED
  BY <1>1, <1>4, <1>6, <1>7, <1>8, <1>9 DEF Linked, u, m
\* append_inner is LinkAt at the end of the list.
LEMMA AppendIsLinkAt ==
  ASSUME NEW t \in Fields, NEW k \in Lists, Linked(t, k),
         NEW p \in Node, NEW c \in Node, Unlisted(k, c)
  PROVE  AppendInner(t, p, c) = LinkAt(t, k, p, Len(k[p]) + 1, c)
<1> USE NoneAssumption
<1>1. /\ Len(k[p]) \in Nat
      /\ \A j \in 1 .. Len(k[p]) : k[p][j] \in Node
  BY DEF Lists
<1>2. t.last_child[p] = IF Len(k[p]) = 0 THEN None ELSE k[p][Len(k[p])]
  BY DEF Linked, Ends
<1>3. t.previous_sibling[c] = None /\ t.next_sibling[c] = None
  BY DEF Linked, Loose
<1>4. CASE Len(k[p]) = 0
  BY <1>1, <1>2, <1>3, <1>4 DEF AppendInner, LinkAt, Put, PutIf, Fields
<1>5. CASE Len(k[p]) # 0
  <2>1. /\ Len(k[p]) + 1 # 1 /\ (Len(k[p]) + 1) - 1 = Len(k[p])
        /\ k[p][Len(k[p])] \in Node
    BY <1>1, <1>5
  <2>2. QED
    BY <1>2, <1>3, <1>5, <2>1 DEF AppendInner, LinkAt, Put, PutIf, Fields
<1>6. QED
  BY <1>4, <1>5

\* prepend links at the front of the list.
LEMMA PrependIsLinkAt ==
  ASSUME NEW t \in Fields, NEW k \in Lists, Linked(t, k),
         NEW p \in Node, NEW c \in Node, Unlisted(k, c)
  PROVE  PrependInner(t, p, c) = LinkAt(t, k, p, 1, c)
<1> USE NoneAssumption
<1>1. /\ Len(k[p]) \in Nat
      /\ \A j \in 1 .. Len(k[p]) : k[p][j] \in Node
  BY DEF Lists
<1>2. t.first_child[p] = IF Len(k[p]) = 0 THEN None ELSE k[p][1]
  BY DEF Linked, Ends
<1>3. t.previous_sibling[c] = None /\ t.next_sibling[c] = None
  BY DEF Linked, Loose
<1>4. CASE Len(k[p]) = 0
  BY <1>1, <1>2, <1>3, <1>4 DEF PrependInner, LinkAt, Put, PutIf, Fields
<1>5. CASE Len(k[p]) # 0
  <2>1. 1 # Len(k[p]) + 1 /\ k[p][1] \in Node
    BY <1>1, <1>5
  <2>2. QED
    BY <1>2, <1>3, <1>5, <2>1 DEF PrependInner, LinkAt, Put, PutIf, Fields
<1>6. QED
  BY <1>4, <1>5

\* A node with a parent is listed under it, and nowhere else.
LEMMA ListedUnderParent ==
  ASSUME NEW t \in Fields, NEW k \in Lists, Linked(t, k),
         NEW n \in Node, t.parent[n] # None
  PROVE  /\ t.parent[n] \in Node
         /\ Has(k[t.parent[n]], n)
         /\ IndexIn(k[t.parent[n]], n) \in 1 .. Len(k[t.parent[n]])
         /\ k[t.parent[n]][IndexIn(k[t.parent[n]], n)] = n
<1>1. t.parent[n] \in Node
  BY DEF Fields, Pointer
<1>2. Has(k[t.parent[n]], n)
  <2>1. PICK p \in Node : Has(k[p], n)
    BY DEF Linked, Loose, Unlisted
  <2>2. t.parent[n] = p
    BY <2>1 DEF Has, Linked, Chain
  <2>3. QED
    BY <2>1, <2>2
<1>3. k[t.parent[n]] \in Seq(Node)
  BY <1>1 DEF Lists
<1>4. QED
  BY <1>1, <1>2, <1>3, IndexInList

\* insert_after links one past the sibling.
LEMMA InsertAfterIsLinkAt ==
  ASSUME NEW t \in Fields, NEW k \in Lists, Linked(t, k),
         NEW n \in Node, NEW c \in Node, Unlisted(k, c), t.parent[n] # None
  PROVE  InsertAfterInner(t, n, c)
           = LinkAt(t, k, t.parent[n], IndexIn(k[t.parent[n]], n) + 1, c)
<1> USE NoneAssumption
<1> DEFINE p == t.parent[n]
           i == IndexIn(k[p], n)
           len == Len(k[p])
<1>1. p \in Node /\ i \in 1 .. len /\ k[p][i] = n /\ len \in Nat
      /\ \A j \in 1 .. len : k[p][j] \in Node /\ k[p][j] # c
  <2>1. p \in Node /\ i \in 1 .. len /\ k[p][i] = n
    BY ListedUnderParent
  <2>2. len \in Nat /\ \A j \in 1 .. len : k[p][j] \in Node /\ k[p][j] # c
    BY <2>1 DEF Lists, Unlisted, Has
  <2>3. QED
    BY <2>1, <2>2
<1>2. t.next_sibling[n] = IF i = len THEN None ELSE k[p][i + 1]
  BY <1>1 DEF Linked, Chain
<1>3. t.previous_sibling[c] = None /\ t.next_sibling[c] = None /\ n # c
  BY <1>1 DEF Linked, Loose
<1> HIDE DEF i
<1>4. i + 1 # 1 /\ (i + 1) - 1 = i /\ (i + 1 = len + 1 <=> i = len)
  BY <1>1
<1> DEFINE u == InsertAfterInner(t, n, c)
           v == LinkAt(t, k, p, i + 1, c)
<1>5. i # len => k[p][i + 1] \in Node /\ k[p][i + 1] # None /\ k[p][i + 1] # c
  BY <1>1
<1>6. /\ t.parent \in [Node -> Pointer] /\ t.previous_sibling \in [Node -> Pointer]
      /\ t.next_sibling \in [Node -> Pointer] /\ t.first_child \in [Node -> Pointer]
      /\ t.last_child \in [Node -> Pointer]
  BY DEF Fields
<1>7. u.parent = v.parent
  BY <1>1, <1>6 DEF InsertAfterInner, LinkAt, Put
<1>8. u.previous_sibling = v.previous_sibling
  BY <1>1, <1>2, <1>3, <1>4, <1>5, <1>6 DEF InsertAfterInner, LinkAt, Put, PutIf
<1>9. u.next_sibling = v.next_sibling
  BY <1>1, <1>2, <1>3, <1>4, <1>5, <1>6 DEF InsertAfterInner, LinkAt, Put, PutIf
<1>10. u.first_child = v.first_child
  BY <1>1, <1>2, <1>4, <1>5, <1>6 DEF InsertAfterInner, LinkAt, Put, PutIf
<1>11. u.last_child = v.last_child
  BY <1>1, <1>2, <1>4, <1>5, <1>6 DEF InsertAfterInner, LinkAt, Put, PutIf
<1>12. QED
  BY <1>7, <1>8, <1>9, <1>10, <1>11 DEF InsertAfterInner, LinkAt, i

\* insert_before links at the sibling's own place.
LEMMA InsertBeforeIsLinkAt ==
  ASSUME NEW t \in Fields, NEW k \in Lists, Linked(t, k),
         NEW n \in Node, NEW c \in Node, Unlisted(k, c), t.parent[n] # None
  PROVE  InsertBeforeInner(t, n, c)
           = LinkAt(t, k, t.parent[n], IndexIn(k[t.parent[n]], n), c)
<1> USE NoneAssumption
<1> DEFINE p == t.parent[n]
           i == IndexIn(k[p], n)
           len == Len(k[p])
<1>1. p \in Node /\ i \in 1 .. len /\ k[p][i] = n /\ len \in Nat
      /\ \A j \in 1 .. len : k[p][j] \in Node /\ k[p][j] # c
  <2>1. p \in Node /\ i \in 1 .. len /\ k[p][i] = n
    BY ListedUnderParent
  <2>2. len \in Nat /\ \A j \in 1 .. len : k[p][j] \in Node /\ k[p][j] # c
    BY <2>1 DEF Lists, Unlisted, Has
  <2>3. QED
    BY <2>1, <2>2
<1>2. t.previous_sibling[n] = IF i = 1 THEN None ELSE k[p][i - 1]
  BY <1>1 DEF Linked, Chain
<1>3. t.previous_sibling[c] = None /\ t.next_sibling[c] = None /\ n # c
  BY <1>1 DEF Linked, Loose
<1> HIDE DEF i
<1>4. i # len + 1
  BY <1>1
<1> DEFINE u == InsertBeforeInner(t, n, c)
           v == LinkAt(t, k, p, i, c)
<1>5. i # 1 => k[p][i - 1] \in Node /\ k[p][i - 1] # None /\ k[p][i - 1] # c
  BY <1>1
<1>6. /\ t.parent \in [Node -> Pointer] /\ t.previous_sibling \in [Node -> Pointer]
      /\ t.next_sibling \in [Node -> Pointer] /\ t.first_child \in [Node -> Pointer]
      /\ t.last_child \in [Node -> Pointer]
  BY DEF Fields
<1>7. u.parent = v.parent
  BY <1>1, <1>6 DEF InsertBeforeInner, LinkAt, Put
<1>8. u.previous_sibling = v.previous_sibling
  BY <1>1, <1>2, <1>3, <1>4, <1>5, <1>6 DEF InsertBeforeInner, LinkAt, Put, PutIf
<1>9. u.next_sibling = v.next_sibling
  BY <1>1, <1>2, <1>3, <1>4, <1>5, <1>6 DEF InsertBeforeInner, LinkAt, Put, PutIf
<1>10. u.first_child = v.first_child
  BY <1>1, <1>2, <1>4, <1>5, <1>6 DEF InsertBeforeInner, LinkAt, Put, PutIf
<1>11. u.last_child = v.last_child
  BY <1>1, <1>2, <1>4, <1>5, <1>6 DEF InsertBeforeInner, LinkAt, Put, PutIf
<1>12. QED
  BY <1>7, <1>8, <1>9, <1>10, <1>11 DEF InsertBeforeInner, LinkAt, i

-----------------------------------------------------------------------------
\* A node is among its own ancestors-or-self, so the guards keep a node from
\* being linked next to, or below, itself.
LEMMA SelfIsAncestorOrSelf ==
  ASSUME NEW n \in Node
  PROVE  n \in AncestorsOrSelf(n)
  BY DEF AncestorsOrSelf, Above

IInv == TypeOK /\ PointersAgree

LEMMA InitIInv == Init => IInv
<1> SUFFICES ASSUME Init PROVE IInv
  OBVIOUS
<1>1. Unlinked \in [Node -> Pointer] /\ kids \in Lists /\ \A n \in Node : Len(kids[n]) = 0
  BY DEF Init, Unlinked, Pointer, Lists
<1>2. links \in Fields
  BY <1>1 DEF Init, Fields
<1>3. Linked(links, kids)
  BY <1>1 DEF Init, Unlinked, Linked, Once, Ends, Chain, Loose
<1>4. QED
  BY <1>1, <1>2, <1>3 DEF IInv, TypeOK, PointersAgree, Lists

LEMMA NextIInv == IInv /\ [Next]_vars => IInv'
<1> SUFFICES ASSUME IInv, [Next]_vars PROVE IInv'
  OBVIOUS
<1>0. links \in Fields /\ kids \in Lists /\ Linked(links, kids)
  BY DEF IInv, TypeOK, PointersAgree, Lists
<1>1. ASSUME NEW n \in Node, DetachCall(n) PROVE IInv'
  BY <1>0, <1>1, DetachLinked DEF DetachCall, IInv, TypeOK, PointersAgree, Lists
<1>2. ASSUME NEW self \in Node, NEW n \in Node, AppendCall(self, n) PROVE IInv'
  <2> DEFINE t == Detach(links, n)
             k == Without(kids, n)
  <2>1. t \in Fields /\ k \in Lists /\ Linked(t, k) /\ Unlisted(k, n)
    BY <1>0, DetachLinked
  <2> HIDE DEF t, k
  <2>2. AppendInner(t, self, n) = LinkAt(t, k, self, Len(k[self]) + 1, n)
    BY <2>1, AppendIsLinkAt
  <2>3. Len(k[self]) + 1 \in 1 .. Len(k[self]) + 1
    BY <2>1 DEF Lists
  <2>4. /\ LinkAt(t, k, self, Len(k[self]) + 1, n) \in Fields
        /\ With(k, self, Len(k[self]) + 1, n) \in Lists
        /\ Linked(LinkAt(t, k, self, Len(k[self]) + 1, n), With(k, self, Len(k[self]) + 1, n))
    BY <2>1, <2>3, LinkAtLinked
  <2>5. /\ links' = AppendInner(t, self, n)
        /\ kids' = With(k, self, Len(k[self]) + 1, n)
    BY <1>2 DEF AppendCall, t, k
  <2>6. QED
    BY <2>2, <2>4, <2>5 DEF IInv, TypeOK, PointersAgree, Lists
<1>3. ASSUME NEW self \in Node, NEW n \in Node, AppendNewCall(self, n) PROVE IInv'
  <2>1. Unlisted(kids, n)
    <3> SUFFICES ASSUME NEW p \in Node, Has(kids[p], n) PROVE FALSE
      BY DEF Unlisted
    <3>1. links.parent[n] = p
      BY <1>0 DEF Has, Linked, Chain
    <3>2. QED
      BY <3>1, <1>3, NoneAssumption DEF AppendNewCall
  <2>2. AppendInner(links, self, n) = LinkAt(links, kids, self, Len(kids[self]) + 1, n)
    BY <1>0, <2>1, AppendIsLinkAt
  <2>3. Len(kids[self]) + 1 \in 1 .. Len(kids[self]) + 1
    BY <1>0 DEF Lists
  <2>4. /\ LinkAt(links, kids, self, Len(kids[self]) + 1, n) \in Fields
        /\ With(kids, self, Len(kids[self]) + 1, n) \in Lists
        /\ Linked(LinkAt(links, kids, self, Len(kids[self]) + 1, n),
                  With(kids, self, Len(kids[self]) + 1, n))
    BY <1>0, <2>1, <2>3, LinkAtLinked
  <2>5. QED
    BY <1>3, <2>2, <2>4 DEF AppendNewCall, IInv, TypeOK, PointersAgree, Lists
<1>4. ASSUME NEW self \in Node, NEW n \in Node, PrependCall(self, n) PROVE IInv'
  <2> DEFINE t == Detach(links, n)
             k == Without(kids, n)
  <2>1. t \in Fields /\ k \in Lists /\ Linked(t, k) /\ Unlisted(k, n)
    BY <1>0, DetachLinked
  <2> HIDE DEF t, k
  <2>2. PrependInner(t, self, n) = LinkAt(t, k, self, 1, n)
    BY <2>1, PrependIsLinkAt
  <2>3. 1 \in 1 .. Len(k[self]) + 1
    BY <2>1 DEF Lists
  <2>4. /\ LinkAt(t, k, self, 1, n) \in Fields
        /\ With(k, self, 1, n) \in Lists
        /\ Linked(LinkAt(t, k, self, 1, n), With(k, self, 1, n))
    BY <2>1, <2>3, LinkAtLinked
  <2>5. links' = PrependInner(t, self, n) /\ kids' = With(k, self, 1, n)
    BY <1>4 DEF PrependCall, t, k
  <2>6. QED
    BY <2>2, <2>4, <2>5 DEF IInv, TypeOK, PointersAgree, Lists
<1>5. ASSUME NEW self \in Node, NEW n \in Node, links.parent[self] # None,
             n \notin AncestorsOrSelf(self)
      PROVE  LET t == Detach(links, n)
                 k == Without(kids, n)
                 p == links.parent[self]
                 i == IndexIn(k[p], self)
             IN  /\ t \in Fields /\ k \in Lists /\ Linked(t, k) /\ Unlisted(k, n)
                 /\ t.parent[self] = p /\ p # None /\ p \in Node
                 /\ i \in 1 .. Len(k[p]) /\ Len(k[p]) \in Nat
  <2> DEFINE t == Detach(links, n)
             k == Without(kids, n)
             p == links.parent[self]
  <2>1. t \in Fields /\ k \in Lists /\ Linked(t, k) /\ Unlisted(k, n)
    BY <1>0, DetachLinked
  <2>2. self # n
    BY <1>5, SelfIsAncestorOrSelf
  <2>3. t.parent[self] = p
    BY <1>0, <2>2 DEF Detach, Put, Fields
  <2> HIDE DEF t, k
  <2>4. /\ t.parent[self] \in Node
        /\ IndexIn(k[t.parent[self]], self) \in 1 .. Len(k[t.parent[self]])
    BY <1>5, <2>1, <2>3, ListedUnderParent
  <2>5. Len(k[p]) \in Nat
    BY <2>1, <2>3, <2>4 DEF Lists
  <2>6. QED
    BY <1>5, <2>1, <2>3, <2>4, <2>5 DEF t, k
<1>6. ASSUME NEW self \in Node, NEW n \in Node, InsertAfterCall(self, n) PROVE IInv'
  <2> DEFINE t == Detach(links, n)
             k == Without(kids, n)
             p == links.parent[self]
             i == IndexIn(k[p], self)
  <2>1. /\ t \in Fields /\ k \in Lists /\ Linked(t, k) /\ Unlisted(k, n)
        /\ t.parent[self] = p /\ p # None /\ p \in Node
        /\ i \in 1 .. Len(k[p]) /\ Len(k[p]) \in Nat
    BY <1>5, <1>6 DEF InsertAfterCall
  <2>2. links' = InsertAfterInner(t, self, n) /\ kids' = With(k, p, i + 1, n)
    BY <1>6 DEF InsertAfterCall
  <2> HIDE DEF t, k, p
  <2>3. InsertAfterInner(t, self, n) = LinkAt(t, k, p, i + 1, n)
    BY <2>1, InsertAfterIsLinkAt
  <2> HIDE DEF i
  <2>4. i + 1 \in 1 .. Len(k[p]) + 1
    BY <2>1
  <2>5. /\ LinkAt(t, k, p, i + 1, n) \in Fields
        /\ With(k, p, i + 1, n) \in Lists
        /\ Linked(LinkAt(t, k, p, i + 1, n), With(k, p, i + 1, n))
    BY <2>1, <2>4, LinkAtLinked
  <2>6. QED
    BY <2>2, <2>3, <2>5 DEF IInv, TypeOK, PointersAgree, Lists
<1>7. ASSUME NEW self \in Node, NEW n \in Node, InsertBeforeCall(self, n) PROVE IInv'
  <2> DEFINE t == Detach(links, n)
             k == Without(kids, n)
             p == links.parent[self]
             i == IndexIn(k[p], self)
  <2>1. /\ t \in Fields /\ k \in Lists /\ Linked(t, k) /\ Unlisted(k, n)
        /\ t.parent[self] = p /\ p # None /\ p \in Node
        /\ i \in 1 .. Len(k[p]) /\ Len(k[p]) \in Nat
    BY <1>5, <1>7 DEF InsertBeforeCall
  <2>2. links' = InsertBeforeInner(t, self, n) /\ kids' = With(k, p, i, n)
    BY <1>7 DEF InsertBeforeCall
  <2> HIDE DEF t, k, p
  <2>3. InsertBeforeInner(t, self, n) = LinkAt(t, k, p, i, n)
    BY <2>1, InsertBeforeIsLinkAt
  <2> HIDE DEF i
  <2>4. i \in 1 .. Len(k[p]) + 1
    BY <2>1
  <2>5. /\ LinkAt(t, k, p, i, n) \in Fields
        /\ With(k, p, i, n) \in Lists
        /\ Linked(LinkAt(t, k, p, i, n), With(k, p, i, n))
    BY <2>1, <2>4, LinkAtLinked
  <2>6. QED
    BY <2>2, <2>3, <2>5 DEF IInv, TypeOK, PointersAgree, Lists
<1>8. CASE UNCHANGED vars
  BY <1>8 DEF vars, IInv, TypeOK, PointersAgree
<1>9. QED
  BY <1>1, <1>2, <1>3, <1>4, <1>6, <1>7, <1>8 DEF Next

\* The five pointer fields stay total and typed, and the children stay lists.
THEOREM TypeCorrect == Spec => []TypeOK
<1>1. Init => IInv
  BY InitIInv
<1>2. IInv /\ [Next]_vars => IInv'
  BY NextIInv
<1>3. IInv => TypeOK
  BY DEF IInv
<1>4. QED
  BY <1>1, <1>2, <1>3, PTL DEF Spec

\* For every set of nodes and every sequence of calls, the pointers of
\* arena_tree.rs represent exactly the lists of children the calls ask for.
THEOREM PointersImplementLists == Spec => []PointersAgree
<1>1. Init => IInv
  BY InitIInv
<1>2. IInv /\ [Next]_vars => IInv'
  BY NextIInv
<1>3. IInv => PointersAgree
  BY DEF IInv
<1>4. QED
  BY <1>1, <1>2, <1>3, PTL DEF Spec
-----------------------------------------------------------------------------
\* Above(f, n) is itself closed, and the least closed set that holds n.
LEMMA AboveIsClosed ==
  ASSUME NEW f \in [Node -> Pointer], NEW n \in Node
  PROVE  /\ n \in Above(f, n)
         /\ Closed(f, Above(f, n))
         /\ \A S \in SUBSET Node : n \in S /\ Closed(f, S) => Above(f, n) \subseteq S
<1>1. n \in Above(f, n) /\ \A S \in SUBSET Node : n \in S /\ Closed(f, S) => Above(f, n) \subseteq S
  BY DEF Above
<1>2. ASSUME NEW x \in Above(f, n), f[x] # None
      PROVE  f[x] \in Above(f, n)
  <2>1. x \in Node /\ f[x] \in Node
    BY <1>2 DEF Above, Pointer
  <2>2. \A S \in SUBSET Node : n \in S /\ Closed(f, S) => f[x] \in S
    BY <1>2 DEF Above, Closed
  <2>3. QED
    BY <2>1, <2>2 DEF Above
<1>3. QED
  BY <1>1, <1>2 DEF Closed

\* Taking a node out makes no cycle.
LEMMA CutKeepsNoCycle ==
  ASSUME NEW f \in [Node -> Pointer], NoCycle(f), NEW c \in Node
  PROVE  NoCycle([f EXCEPT ![c] = None])
<1> USE NoneAssumption
<1> DEFINE g == [f EXCEPT ![c] = None]
<1>1. g \in [Node -> Pointer] /\ \A x \in Node : g[x] = f[x] \/ g[x] = None
  BY DEF Pointer
<1> HIDE DEF g
<1> SUFFICES ASSUME NEW n \in Node, g[n] # None
             PROVE  n \notin Above(g, g[n])
  BY DEF NoCycle, g
<1>2. g[n] = f[n] /\ f[n] \in Node /\ n \notin Above(f, f[n])
  BY <1>1 DEF NoCycle, Pointer
<1>3. PICK S \in SUBSET Node : f[n] \in S /\ Closed(f, S) /\ n \notin S
  BY <1>2 DEF Above
<1>4. Closed(g, S)
  BY <1>1, <1>3 DEF Closed
<1>5. QED
  BY <1>2, <1>3, <1>4 DEF Above

\* Putting a node below p makes no cycle where it is not at or above p.
LEMMA PutBelowKeepsNoCycle ==
  ASSUME NEW f \in [Node -> Pointer], NoCycle(f), NEW c \in Node, NEW p \in Node,
         c \notin Above(f, p)
  PROVE  NoCycle([f EXCEPT ![c] = p])
<1> USE NoneAssumption
<1> DEFINE g == [f EXCEPT ![c] = p]
           A == Above(f, p)
<1>1. g \in [Node -> Pointer] /\ g[c] = p /\ \A x \in Node : x # c => g[x] = f[x]
  BY DEF Pointer
<1>2. A \in SUBSET Node /\ p \in A /\ c \notin A /\ Closed(f, A)
  BY AboveIsClosed DEF Above
<1> HIDE DEF g, A
<1>3. Closed(g, A)
  BY <1>1, <1>2 DEF Closed
<1> SUFFICES ASSUME NEW n \in Node, g[n] # None
             PROVE  n \notin Above(g, g[n])
  BY DEF NoCycle, g
<1>4. CASE n = c
  BY <1>1, <1>2, <1>3, <1>4 DEF Above
<1>5. CASE n # c
  <2> DEFINE B == Above(f, f[n])
  <2>1. g[n] = f[n] /\ f[n] \in Node /\ n \notin B
    BY <1>1, <1>5 DEF NoCycle, Pointer
  <2>2. B \in SUBSET Node /\ f[n] \in B /\ Closed(f, B)
    <3>1. B \in SUBSET Node
      BY DEF Above
    <3>2. QED
      BY <3>1, <2>1, AboveIsClosed
  <2>3. CASE c \notin B
    <3>1. Closed(g, B)
      BY <2>2, <2>3, <1>1 DEF Closed
    <3>2. QED
      BY <3>1, <2>1, <2>2 DEF Above
  <2>4. CASE c \in B
    <3>1. n \notin A
      <4> SUFFICES ASSUME n \in A PROVE FALSE
        OBVIOUS
      <4>1. f[n] \in A
        BY <1>2, <2>1 DEF Closed
      <4>2. B \subseteq A
        BY <4>1, <2>1, <1>2, AboveIsClosed
      <4>3. QED
        BY <4>2, <2>4, <1>2
    <3>2. Closed(g, A \cup B)
      BY <1>1, <1>2, <2>2 DEF Closed
    <3>3. A \cup B \in SUBSET Node /\ g[n] \in A \cup B /\ n \notin A \cup B
      BY <3>1, <1>2, <2>1, <2>2
    <3>4. QED
      BY <3>2, <3>3 DEF Above
  <2>5. QED
    BY <2>3, <2>4
<1>6. QED
  BY <1>4, <1>5

\* A node not above p is not above it once it is taken out of the tree.
LEMMA CutKeepsAbove ==
  ASSUME NEW f \in [Node -> Pointer], NEW c \in Node, NEW p \in Node, c \notin Above(f, p)
  PROVE  c \notin Above([f EXCEPT ![c] = None], p)
<1> DEFINE g == [f EXCEPT ![c] = None]
<1>1. PICK S \in SUBSET Node : p \in S /\ Closed(f, S) /\ c \notin S
  BY DEF Above
<1>2. Closed(g, S)
  BY <1>1 DEF Closed
<1>3. QED
  BY <1>1, <1>2 DEF Above

\* Every call keeps the parent pointers free of cycles: the callers' guard,
\* that a node is never put at or below itself, is enough.
THEOREM NeverCyclic == Spec => []Acyclic
<1>1. Init => Acyclic
  BY DEF Init, Unlinked, Acyclic, NoCycle
<1>2. IInv /\ Acyclic /\ [Next]_vars => Acyclic'
  <2> SUFFICES ASSUME IInv, Acyclic, [Next]_vars PROVE Acyclic'
    OBVIOUS
  <2> DEFINE f == links.parent
             out(n) == [f EXCEPT ![n] = None]
  <2>1. f \in [Node -> Pointer] /\ NoCycle(f)
    BY DEF IInv, TypeOK, Fields, Acyclic
  <2>2. ASSUME NEW n \in Node
        PROVE  /\ Detach(links, n).parent = out(n)
               /\ out(n) \in [Node -> Pointer] /\ NoCycle(out(n))
    BY <2>1, CutKeepsNoCycle, NoneAssumption DEF Detach, Put, Pointer
  <2>3. ASSUME NEW n \in Node, DetachCall(n) PROVE Acyclic'
    BY <2>3, <2>2 DEF DetachCall, Acyclic
  <2>4. ASSUME NEW p \in Node, NEW n \in Node, n \notin AncestorsOrSelf(p),
               links'.parent = [out(n) EXCEPT ![n] = p]
        PROVE  Acyclic'
    <3>1. n \notin Above(out(n), p)
      BY <2>1, <2>4, CutKeepsAbove DEF AncestorsOrSelf
    <3>2. NoCycle([out(n) EXCEPT ![n] = p])
      BY <2>2, <3>1, PutBelowKeepsNoCycle
    <3>3. QED
      BY <2>4, <3>2 DEF Acyclic
  <2>5. ASSUME NEW self \in Node, NEW n \in Node, AppendCall(self, n) \/ PrependCall(self, n)
        PROVE  Acyclic'
    <3>1. n \notin AncestorsOrSelf(self)
      BY <2>5 DEF AppendCall, PrependCall
    <3>2. links'.parent = Put(Detach(links, n).parent, n, self)
      BY <2>5 DEF AppendCall, AppendInner, PrependCall, PrependInner
    <3>3. QED
      BY <3>1, <3>2, <2>2, <2>4, NoneAssumption DEF Put
  <2>6. ASSUME NEW self \in Node, NEW n \in Node, AppendNewCall(self, n)
        PROVE  Acyclic'
    <3>1. links'.parent = [f EXCEPT ![n] = self]
      BY <2>6, NoneAssumption DEF AppendNewCall, AppendInner, Put
    <3>2. NoCycle([f EXCEPT ![n] = self])
      BY <2>1, <2>6, PutBelowKeepsNoCycle DEF AppendNewCall, AncestorsOrSelf
    <3>3. QED
      BY <3>1, <3>2 DEF Acyclic
  <2>7. ASSUME NEW self \in Node, NEW n \in Node,
               InsertAfterCall(self, n) \/ InsertBeforeCall(self, n)
        PROVE  Acyclic'
    <3> DEFINE p == f[self]
    <3>1. n \notin AncestorsOrSelf(self) /\ p \in Node
      BY <2>1, <2>7 DEF InsertAfterCall, InsertBeforeCall, Pointer
    <3>2. self # n
      BY <3>1, SelfIsAncestorOrSelf
    <3>3. Above(f, p) \subseteq Above(f, self)
      <4>1. self \in Above(f, self) /\ Closed(f, Above(f, self)) /\ Above(f, self) \in SUBSET Node
        BY <2>1, AboveIsClosed DEF Above
      <4>2. p \in Above(f, self)
        BY <4>1, <3>1, NoneAssumption DEF Closed
      <4>3. QED
        BY <4>1, <4>2, <3>1, <2>1, AboveIsClosed
    <3>4. n \notin AncestorsOrSelf(p)
      BY <3>1, <3>3 DEF AncestorsOrSelf
    <3>5. out(n)[self] = p
      BY <3>2, <2>1
    <3>6. links'.parent = Put(Detach(links, n).parent, n, Detach(links, n).parent[self])
      BY <2>7 DEF InsertAfterCall, InsertAfterInner, InsertBeforeCall, InsertBeforeInner
    <3>7. QED
      BY <3>1, <3>4, <3>5, <3>6, <2>2, <2>4, NoneAssumption DEF Put
  <2>8. CASE UNCHANGED vars
    BY <2>8 DEF vars, Acyclic
  <2>9. QED
    BY <2>3, <2>5, <2>6, <2>7, <2>8 DEF Next
<1>3. Spec => []IInv
  BY InitIInv, NextIInv, PTL DEF Spec
<1>4. QED
  BY <1>1, <1>2, <1>3, PTL DEF Spec
=============================================================================
