-------------------------- MODULE HtmlRenderProofs --------------------------
(***************************************************************************)
(* The tags of every document nest, and every tag is closed in the end,    *)
(* unless the section of the definitions is opened inside another block.   *)
(*                                                                         *)
(* A node leaves the same tags open for all that is below it (Held), and   *)
(* closes them when it is left, but for two kinds of tags whose ends are   *)
(* written elsewhere.  A table's body is opened by its second row and      *)
(* closed by the table, which looks at its children instead; the section   *)
(* of the definitions is opened by the first of them, which is a child of  *)
(* the root then, and closed at the end of the document.  So what is open  *)
(* at each node follows from the tree, from the rows that still wait on    *)
(* the stack and from the number of definitions entered (Nesting).         *)
(*                                                                         *)
(* The stack is a path of entered nodes, with the children of theirs that  *)
(* are still to come (Stacked, Walk); what is open after the output is     *)
(* what is open below the last of the entered nodes (Nests).               *)
(*                                                                         *)
(* And the stack does what a recursion over the tree would: each entry     *)
(* stands for a piece of that recursion (Ahead), the stack for its pieces  *)
(* one after the other (Covers), and what has been done followed by what   *)
(* the stack stands for is the whole of it (Toured).                       *)
(*                                                                         *)
(* Nor do the words of two blocks run together.  Words since the last      *)
(* separation are of known blocks (Apart): of the one block a text is in,  *)
(* and of none where a block may begin or end without writing anything     *)
(* (Ready).  What is next on the stack is the parent or the next sibling   *)
(* of what is done (Follows), which then may rely on it (Done).            *)
(***************************************************************************)
EXTENDS HtmlRender, SequenceTheorems, WellFoundedInduction, TLAPS

(***************************************************************************)
(* Numbers                                                                 *)
(***************************************************************************)
LEMMA FirstExists ==
  ASSUME NEW S \in SUBSET Nat, S # {}
  PROVE  \E d \in S : \A e \in S : d <= e
<1>1. PICK d \in S : \A e \in S : <<e, d>> \notin OpToRel(<, Nat)
  BY NatLessThanWellFounded, WFMin
<1>2. \A e \in S : ~(e < d)
  BY <1>1 DEF OpToRel
<1>3. QED
  BY <1>2

LEMMA EveryNumber ==
  ASSUME NEW S \in SUBSET Nat, 0 \in S, \A k \in S : k + 1 \in S
  PROVE  S = Nat
<1> SUFFICES ASSUME Nat \ S # {} PROVE FALSE
  OBVIOUS
<1>1. PICK d \in Nat \ S : \A e \in Nat \ S : d <= e
  BY FirstExists
<1>2. d # 0 /\ d - 1 \in Nat /\ ~(d <= d - 1)
  BY <1>1
<1>3. d - 1 \in S
  BY <1>1, <1>2
<1>4. d - 1 + 1 = d
  BY <1>2
<1>5. QED
  BY <1>1, <1>3, <1>4

-----------------------------------------------------------------------------
(***************************************************************************)
(* Tokens written one after the other                                      *)
(***************************************************************************)
IsSeq(s) == \E T : s \in Seq(T)

\* What is open after a token, newlines that are still the context's included
Settle(open, token) == IF token \in {Cr, Lf} THEN open ELSE Nest(open, token)

\* The tokens s take what is open from a to b
Leads(a, s, b) ==
  /\ IsSeq(s)
  /\ \E r : /\ r[0] = a /\ r[Len(s)] = b
            /\ \A k \in 1..Len(s) : r[k] = Settle(r[k - 1], s[k])

LEMMA JoinedSeq ==
  ASSUME NEW s, NEW t, IsSeq(s), IsSeq(t)
  PROVE  /\ IsSeq(s \o t) /\ Len(s) \in Nat /\ Len(t) \in Nat /\ Len(s \o t) = Len(s) + Len(t)
         /\ \A k \in 1..Len(s) : (s \o t)[k] = s[k]
         /\ \A k \in 1..Len(t) : (s \o t)[Len(s) + k] = t[k]
<1>1. PICK S : s \in Seq(S)
  BY DEF IsSeq
<1>2. PICK T : t \in Seq(T)
  BY DEF IsSeq
<1> DEFINE U == S \cup T
<1>3. s \in Seq(U) /\ t \in Seq(U)
  BY <1>1, <1>2
<1> HIDE DEF U
<1>4. s \o t \in Seq(U)
  BY <1>3
<1>5. QED
  BY <1>3, <1>4 DEF IsSeq

LEMMA NoTokens ==
  ASSUME NEW a
  PROVE  Leads(a, <<>>, a)
<1>1. <<>> \in Seq({})
  OBVIOUS
<1>2. [k \in {0} |-> a][0] = a /\ Len(<<>>) = 0 /\ 1..0 = {}
  OBVIOUS
<1>3. QED
  BY <1>1, <1>2 DEF Leads, IsSeq

LEMMA OneToken ==
  ASSUME NEW a, NEW x
  PROVE  Leads(a, <<x>>, Settle(a, x))
<1>1. <<x>> \in Seq({x}) /\ Len(<<x>>) = 1 /\ <<x>>[1] = x
  OBVIOUS
<1> DEFINE r == [k \in {0, 1} |-> IF k = 0 THEN a ELSE Settle(a, x)]
<1>2. r[0] = a /\ r[1] = Settle(a, x) /\ \A k \in 1..1 : k = 1 /\ k - 1 = 0
  OBVIOUS
<1> HIDE DEF r
<1>3. \A k \in 1..1 : r[k] = Settle(r[k - 1], <<x>>[k])
  BY <1>1, <1>2
<1>4. QED
  BY <1>1, <1>2, <1>3 DEF Leads, IsSeq

LEMMA ThenTokens ==
  ASSUME NEW a, NEW b, NEW c, NEW s, NEW t, Leads(a, s, b), Leads(b, t, c)
  PROVE  Leads(a, s \o t, c)
<1>1. IsSeq(s) /\ IsSeq(t)
  BY DEF Leads
<1>2. PICK f : f[0] = a /\ f[Len(s)] = b /\ \A k \in 1..Len(s) : f[k] = Settle(f[k - 1], s[k])
  BY DEF Leads
<1>3. PICK g : g[0] = b /\ g[Len(t)] = c /\ \A k \in 1..Len(t) : g[k] = Settle(g[k - 1], t[k])
  BY DEF Leads
<1> DEFINE m == Len(s)
           n == Len(t)
           u == s \o t
           r == [k \in 0..(m + n) |-> IF k <= m THEN f[k] ELSE g[k - m]]
<1>4. /\ IsSeq(u) /\ m \in Nat /\ n \in Nat /\ Len(u) = m + n
      /\ \A k \in 1..m : u[k] = s[k]
      /\ \A k \in 1..n : u[m + k] = t[k]
  BY <1>1, JoinedSeq
<1> HIDE DEF m, n, u
<1>5. r[0] = a
  BY <1>2, <1>4
<1>6. r[m + n] = c
  <2>1. CASE n = 0
    BY <1>2, <1>3, <1>4, <2>1 DEF m, n
  <2>2. CASE n # 0
    <3> DEFINE x == m + n
    <3>1. ~(x <= m) /\ x \in 0..(m + n) /\ x - m = n
      BY <1>4, <2>2
    <3> HIDE DEF x
    <3>2. r[x] = g[n]
      BY <3>1
    <3>3. QED
      BY <1>3, <3>2 DEF n, x
  <2>3. QED
    BY <2>1, <2>2
<1>7. ASSUME NEW k \in 1..(m + n) PROVE r[k] = Settle(r[k - 1], u[k])
  <2>1. CASE k <= m
    <3>1. k \in 1..m /\ k - 1 \in 0..(m + n) /\ k - 1 <= m /\ k \in 0..(m + n)
      BY <1>4, <2>1
    <3>2. r[k] = f[k] /\ r[k - 1] = f[k - 1] /\ u[k] = s[k]
      BY <1>4, <2>1, <3>1
    <3>3. QED
      BY <1>2, <3>1, <3>2 DEF m
  <2>2. CASE ~(k <= m)
    <3> DEFINE j == k - m
    <3>1. j \in 1..n /\ m + j = k /\ k - 1 \in 0..(m + n) /\ k - 1 - m = j - 1 /\ k \in 0..(m + n)
      BY <1>4, <2>2
    <3>2. r[k] = g[j] /\ u[k] = t[j]
      BY <1>4, <2>2, <3>1
    <3>3. r[k - 1] = g[j - 1]
      <4>1. CASE j = 1
        <5>1. k - 1 = m /\ m <= m /\ j - 1 = 0
          BY <1>4, <4>1
        <5>2. r[m] = f[m]
          BY <3>1, <5>1
        <5>3. QED
          BY <1>2, <1>3, <5>1, <5>2 DEF m
      <4>2. CASE j # 1
        <5>1. ~(k - 1 <= m)
          BY <1>4, <3>1, <4>2
        <5>2. QED
          BY <3>1, <5>1
      <4>3. QED
        BY <4>1, <4>2
    <3> HIDE DEF j
    <3>4. g[j] = Settle(g[j - 1], t[j])
      BY <1>3, <3>1 DEF n
    <3>5. QED
      BY <3>2, <3>3, <3>4
  <2>3. QED
    BY <2>1, <2>2
<1> HIDE DEF r
<1>8. QED
  BY <1>4, <1>5, <1>6, <1>7 DEF Leads, u

\* Two ways to write what tokens lead to
LEMMA LeadsOnce ==
  ASSUME NEW a, NEW b, NEW c, NEW s, Leads(a, s, b), Leads(a, s, c)
  PROVE  b = c
<1>1. PICK f : f[0] = a /\ f[Len(s)] = b /\ \A k \in 1..Len(s) : f[k] = Settle(f[k - 1], s[k])
  BY DEF Leads
<1>2. PICK g : g[0] = a /\ g[Len(s)] = c /\ \A k \in 1..Len(s) : g[k] = Settle(g[k - 1], s[k])
  BY DEF Leads
<1>3. Len(s) \in Nat
  BY DEF Leads, IsSeq
<1> DEFINE S == {k \in Nat : k <= Len(s) => f[k] = g[k]}
<1>4. 0 \in S
  BY <1>1, <1>2
<1>5. ASSUME NEW k \in S PROVE k + 1 \in S
  <2> SUFFICES ASSUME k + 1 <= Len(s) PROVE f[k + 1] = g[k + 1]
    OBVIOUS
  <2>1. k + 1 \in 1..Len(s) /\ k <= Len(s) /\ k + 1 - 1 = k
    BY <1>3
  <2>2. f[k] = g[k]
    BY <2>1
  <2>3. QED
    BY <1>1, <1>2, <2>1, <2>2
<1>6. S = Nat
  BY <1>4, <1>5, EveryNumber
<1>7. QED
  BY <1>1, <1>2, <1>3, <1>6

-----------------------------------------------------------------------------
(***************************************************************************)
(* One token, and a few                                                    *)
(***************************************************************************)
\* The tags that are written in pairs, and an attribute
Tag == {"details", "summary", "div", "blockquote", "code", "pre", "em", "h", "a", "figure", "figcaption",
        "li", "ol", "ul", "p", "sup", "strong", "section", "table", "tbody", "thead", "tr", "th", "td",
        "del", "mark", "ins", "span", "sub", "u", "dd", "dl", "dt", "custom"}
Mark == Tag \cup {"quote"}

\* What may be open where a tag is written: anything but an attribute on top
Outside(a) == a \in Seq(Mark) /\ (a # <<>> => a[Len(a)] # "quote")

Quiet(x) == x \in {Cr, Lf, Newline} \/ \E n : x = Word(n)

LEMMA TopIs ==
  ASSUME NEW a \in Seq(Mark), NEW x
  PROVE  Last(Append(a, x)) = x /\ Front(Append(a, x)) = a /\ Append(a, x) # <<>>
<1>1. IsSeq(a)
  BY DEF IsSeq
<1> DEFINE S == Mark \cup {x}
<1>2. a \in Seq(S) /\ x \in S
  OBVIOUS
<1> HIDE DEF S
<1>3. Append(a, x) \in Seq(S) /\ Len(Append(a, x)) = Len(a) + 1 /\ Append(a, x)[Len(a) + 1] = x
  BY <1>2
<1>4. Front(Append(a, x)) = SubSeq(Append(a, x), 1, Len(a))
  BY <1>3 DEF Front
<1>5. SubSeq(Append(a, x), 1, Len(a)) = a
  BY <1>2
<1>6. QED
  BY <1>3, <1>4, <1>5 DEF Last

LEMMA OpenTag ==
  ASSUME NEW a, Outside(a), NEW x \in Tag
  PROVE  Leads(a, <<Open(x)>>, Append(a, x)) /\ Outside(Append(a, x))
<1>1. Open(x) \notin {Cr, Lf} /\ Open(x)[1] = "open" /\ Open(x)[2] = x /\ Open(x) # Void("space")
  BY DEF Open, Cr, Lf, Void
<1>2. a # <<>> => Last(a) # "quote" /\ Last(a) # "wrong"
  BY DEF Outside, Last, Mark, Tag
<1>3. Settle(a, Open(x)) = Append(a, x)
  BY <1>1, <1>2 DEF Settle, Nest
<1>4. Append(a, x) \in Seq(Mark) /\ Append(a, x)[Len(Append(a, x))] = x /\ x # "quote"
  BY DEF Outside, Mark, Tag
<1>5. QED
  BY <1>3, <1>4, OneToken DEF Outside

LEMMA CloseTag ==
  ASSUME NEW a \in Seq(Mark), NEW x \in Tag
  PROVE  Leads(Append(a, x), <<Close(x)>>, a)
<1>1. Close(x) \notin {Cr, Lf} /\ Close(x)[1] = "close" /\ Close(x)[2] = x
  BY DEF Close, Cr, Lf
<1>2. Last(Append(a, x)) = x /\ Front(Append(a, x)) = a /\ Append(a, x) # <<>> /\ x # "wrong" /\ x # "quote"
  BY TopIs DEF Tag
<1>3. Settle(Append(a, x), Close(x)) = a
  BY <1>1, <1>2 DEF Settle, Nest
<1>4. QED
  BY <1>3, OneToken

LEMMA OpenAttribute ==
  ASSUME NEW a, Outside(a)
  PROVE  Leads(a, <<Quote>>, Append(a, "quote")) /\ Append(a, "quote") \in Seq(Mark)
<1>1. Quote \notin {Cr, Lf} /\ Quote[1] = "quote"
  BY DEF Quote, Cr, Lf
<1>2. a # <<>> => Last(a) # "quote" /\ Last(a) # "wrong"
  BY DEF Outside, Last, Mark, Tag
<1>3. Settle(a, Quote) = Append(a, "quote")
  BY <1>1, <1>2 DEF Settle, Nest
<1>4. Append(a, "quote") \in Seq(Mark)
  BY DEF Outside, Mark
<1>5. Leads(a, <<Quote>>, Settle(a, Quote))
  BY OneToken
<1>6. QED
  BY <1>3, <1>4, <1>5

LEMMA CloseAttribute ==
  ASSUME NEW a \in Seq(Mark)
  PROVE  Leads(Append(a, "quote"), <<Unquote>>, a)
<1>1. Unquote \notin {Cr, Lf} /\ Unquote[1] = "unquote"
  BY DEF Unquote, Cr, Lf
<1>2. Last(Append(a, "quote")) = "quote" /\ Front(Append(a, "quote")) = a /\ Append(a, "quote") # <<>>
  BY TopIs
<1>3. Settle(Append(a, "quote"), Unquote) = a
  BY <1>1, <1>2 DEF Settle, Nest
<1>4. QED
  BY <1>3, OneToken

LEMMA QuietToken ==
  ASSUME NEW a \in Seq(Mark), NEW x, Quiet(x)
  PROVE  Leads(a, <<x>>, a)
<1>1. x \in {Cr, Lf} \/ x[1] \in {"word", "newline"}
  BY DEF Quiet, Newline, Word
<1>2. a # <<>> => Last(a) # "wrong"
  BY DEF Last, Mark, Tag
<1>3. Settle(a, x) = a
  BY <1>1, <1>2 DEF Settle, Nest
<1>4. QED
  BY <1>3, OneToken

LEMMA VoidToken ==
  ASSUME NEW a \in Seq(Mark), NEW v, Outside(a) \/ v = "space"
  PROVE  Leads(a, <<Void(v)>>, a)
<1>1. Void(v) \notin {Cr, Lf} /\ Void(v)[1] = "void"
  BY DEF Void, Cr, Lf
<1>2. a # <<>> => Last(a) # "wrong" /\ (Last(a) = "quote" => v = "space")
  BY DEF Last, Mark, Tag, Outside
<1>3. Settle(a, Void(v)) = a
  BY <1>1, <1>2 DEF Settle, Nest
<1>4. QED
  BY <1>3, OneToken

LEMMA TwoTokens ==
  ASSUME NEW a, NEW b, NEW c, NEW x, NEW y, Leads(a, <<x>>, b), Leads(b, <<y>>, c)
  PROVE  Leads(a, <<x, y>>, c)
<1> DEFINE S == {x, y}
           s == <<x>> \o <<y>>
<1>1. <<x>> \in Seq(S) /\ <<y>> \in Seq(S) /\ <<x, y>> \in Seq(S)
  OBVIOUS
<1>2. s \in Seq(S) /\ Len(s) = 2 /\ s[1] = x /\ s[2] = y
  BY <1>1
<1> HIDE DEF s, S
<1>3. Len(<<x, y>>) = 2 /\ \A k \in 1..2 : s[k] = <<x, y>>[k]
  BY <1>2
<1>4. s = <<x, y>>
  BY <1>1, <1>2, <1>3, SeqEqual
<1>5. QED
  BY <1>4, ThenTokens DEF s

LEMMA ThreeTokens ==
  ASSUME NEW a, NEW b, NEW c, NEW x, NEW y, NEW z, Leads(a, <<x>>, b), Leads(b, <<y, z>>, c)
  PROVE  Leads(a, <<x, y, z>>, c)
<1> DEFINE S == {x, y, z}
           s == <<x>> \o <<y, z>>
<1>1. <<x>> \in Seq(S) /\ <<y, z>> \in Seq(S) /\ <<x, y, z>> \in Seq(S)
  OBVIOUS
<1>2. s \in Seq(S) /\ Len(s) = 3 /\ s[1] = x /\ s[2] = y /\ s[3] = z
  BY <1>1
<1> HIDE DEF s, S
<1>3. Len(<<x, y, z>>) = 3 /\ \A k \in 1..3 : s[k] = <<x, y, z>>[k]
  BY <1>2
<1>4. s = <<x, y, z>>
  BY <1>1, <1>2, <1>3, SeqEqual
<1>5. QED
  BY <1>4, ThenTokens DEF s

LEMMA FourTokens ==
  ASSUME NEW a, NEW b, NEW c, NEW x, NEW y, NEW z, NEW u, Leads(a, <<x>>, b), Leads(b, <<y, z, u>>, c)
  PROVE  Leads(a, <<x, y, z, u>>, c)
<1> DEFINE S == {x, y, z, u}
           s == <<x>> \o <<y, z, u>>
<1>1. <<x>> \in Seq(S) /\ <<y, z, u>> \in Seq(S) /\ <<x, y, z, u>> \in Seq(S)
  OBVIOUS
<1>2. s \in Seq(S) /\ Len(s) = 4 /\ s[1] = x /\ s[2] = y /\ s[3] = z /\ s[4] = u
  BY <1>1
<1> HIDE DEF s, S
<1>3. Len(<<x, y, z, u>>) = 4 /\ \A k \in 1..4 : s[k] = <<x, y, z, u>>[k]
  BY <1>2
<1>4. s = <<x, y, z, u>>
  BY <1>1, <1>2, <1>3, SeqEqual
<1>5. QED
  BY <1>4, ThenTokens DEF s

LEMMA SevenTokens ==
  ASSUME NEW a, NEW b, NEW c, NEW x, NEW y, NEW z, NEW u, NEW v, NEW w, NEW o,
         Leads(a, <<x, y, z>>, b), Leads(b, <<u, v, w, o>>, c)
  PROVE  Leads(a, <<x, y, z, u, v, w, o>>, c)
<1> DEFINE S == {x, y, z, u, v, w, o}
           s == <<x, y, z>> \o <<u, v, w, o>>
<1>1. <<x, y, z>> \in Seq(S) /\ <<u, v, w, o>> \in Seq(S) /\ <<x, y, z, u, v, w, o>> \in Seq(S)
  OBVIOUS
<1>2. s \in Seq(S) /\ Len(s) = 7 /\ s[1] = x /\ s[2] = y /\ s[3] = z /\ s[4] = u /\ s[5] = v /\ s[6] = w /\ s[7] = o
  BY <1>1
<1> HIDE DEF s, S
<1>3. Len(<<x, y, z, u, v, w, o>>) = 7 /\ \A k \in 1..7 : s[k] = <<x, y, z, u, v, w, o>>[k]
  BY <1>2
<1>4. s = <<x, y, z, u, v, w, o>>
  BY <1>1, <1>2, <1>3, SeqEqual
<1>5. QED
  BY <1>4, ThenTokens DEF s

LEMMA FiveTokens ==
  ASSUME NEW a, NEW b, NEW c, NEW x, NEW y, NEW z, NEW u, NEW v,
         Leads(a, <<x, y>>, b), Leads(b, <<z, u, v>>, c)
  PROVE  Leads(a, <<x, y, z, u, v>>, c)
<1> DEFINE S == {x, y, z, u, v}
           s == <<x, y>> \o <<z, u, v>>
<1>1. <<x, y>> \in Seq(S) /\ <<z, u, v>> \in Seq(S) /\ <<x, y, z, u, v>> \in Seq(S)
  OBVIOUS
<1>2. s \in Seq(S) /\ Len(s) = 5 /\ s[1] = x /\ s[2] = y /\ s[3] = z /\ s[4] = u /\ s[5] = v
  BY <1>1
<1> HIDE DEF s, S
<1>3. Len(<<x, y, z, u, v>>) = 5 /\ \A k \in 1..5 : s[k] = <<x, y, z, u, v>>[k]
  BY <1>2
<1>4. s = <<x, y, z, u, v>>
  BY <1>1, <1>2, <1>3, SeqEqual
<1>5. QED
  BY <1>4, ThenTokens DEF s

-----------------------------------------------------------------------------
(***************************************************************************)
(* What has been written                                                   *)
(***************************************************************************)
\* What has been written: no newline in it is still the context's
Clean(t) == IsSeq(t) /\ \A k \in 1..Len(t) : t[k] \notin {Cr, Lf}

LEMMA OneMore ==
  ASSUME NEW t, Clean(t), NEW x
  PROVE  /\ Append(t, x) = t \o <<x>>
         /\ x \notin {Cr, Lf} => Clean(t \o <<x>>)
<1>1. PICK T : t \in Seq(T)
  BY DEF Clean, IsSeq
<1> DEFINE U == T \cup {x}
           u == t \o <<x>>
<1>2. t \in Seq(U) /\ x \in U /\ <<x>> \in Seq(U)
  BY <1>1
<1> HIDE DEF U
<1>3. /\ u \in Seq(U) /\ Append(t, x) \in Seq(U) /\ Len(t) \in Nat
      /\ Len(u) = Len(t) + 1 /\ Len(Append(t, x)) = Len(t) + 1
      /\ \A k \in 1..Len(t) : u[k] = t[k] /\ Append(t, x)[k] = t[k]
      /\ u[Len(t) + 1] = x /\ Append(t, x)[Len(t) + 1] = x
  BY <1>2
<1> HIDE DEF u
<1>4. \A k \in 1..(Len(t) + 1) : k \in 1..Len(t) \/ k = Len(t) + 1
  BY <1>3
<1>5. \A k \in 1..Len(u) : u[k] = Append(t, x)[k]
  BY <1>3, <1>4
<1>6. u = Append(t, x)
  BY <1>3, <1>5, SeqEqual
<1>7. x \notin {Cr, Lf} => \A k \in 1..Len(u) : u[k] \notin {Cr, Lf}
  BY <1>3, <1>4 DEF Clean
<1>8. IsSeq(u)
  BY <1>3 DEF IsSeq
<1>9. QED
  BY <1>6, <1>7, <1>8 DEF Clean, u

\* Context::cr and Context::lf add a newline or nothing, which opens and closes nothing
LEMMA OneWritten ==
  ASSUME NEW t, NEW o, NEW a, NEW x, Clean(t), Leads(o, t, a)
  PROVE  Clean(Write(t, x)) /\ Leads(o, Write(t, x), Settle(a, x))
<1>1. CASE x \in {Cr, Lf}
  <2>1. Settle(a, x) = a
    BY <1>1 DEF Settle
  <2>2. CASE Write(t, x) = t
    BY <2>1, <2>2
  <2>3. CASE Write(t, x) = Append(t, Newline)
    <3>1. Newline \notin {Cr, Lf} /\ Newline[1] = "newline"
      BY DEF Newline, Cr, Lf
    <3>2. Settle(a, Newline) = a
      BY <3>1 DEF Settle, Nest
    <3>3. Leads(a, <<Newline>>, a)
      BY <3>2, OneToken
    <3>4. Append(t, Newline) = t \o <<Newline>> /\ Clean(t \o <<Newline>>)
      BY <3>1, OneMore
    <3>5. QED
      BY <2>1, <2>3, <3>3, <3>4, ThenTokens
  <2>4. QED
    BY <1>1, <2>2, <2>3 DEF Write
<1>2. CASE x \notin {Cr, Lf}
  <2>1. Write(t, x) = t \o <<x>> /\ Clean(t \o <<x>>)
    BY <1>2, OneMore DEF Write
  <2>2. QED
    BY <2>1, OneToken, ThenTokens
<1>3. QED
  BY <1>1, <1>2

LEMMA TextsExist ==
  ASSUME NEW s, Len(s) \in Nat
  PROVE  \E h : h = [k \in 0..Len(s) |-> IF k = 0 THEN out ELSE Write(h[k - 1], s[k])]
<1> DEFINE Upto(n, g) == g[0] = out /\ \A k \in 1..n : g[k] = Write(g[k - 1], s[k])
           S == {n \in Nat : \E g : Upto(n, g)}
<1>1. 0 \in S
  <2>1. Upto(0, [k \in {0} |-> out])
    OBVIOUS
  <2>2. QED
    BY <2>1
<1>2. ASSUME NEW n \in S PROVE n + 1 \in S
  <2>1. PICK g : Upto(n, g)
    OBVIOUS
  <2> DEFINE e == [k \in 0..(n + 1) |-> IF k <= n THEN g[k] ELSE Write(g[n], s[n + 1])]
  <2>2. n \in Nat /\ e[0] = out
    BY <2>1
  <2>3. ASSUME NEW k \in 1..(n + 1) PROVE e[k] = Write(e[k - 1], s[k])
    <3>1. k - 1 \in 0..(n + 1) /\ k - 1 <= n /\ k \in 0..(n + 1) /\ e[k - 1] = g[k - 1]
      BY <2>2
    <3>2. CASE k <= n
      <4>1. k \in 1..n /\ e[k] = g[k]
        BY <2>2, <3>1, <3>2
      <4>2. QED
        BY <2>1, <3>1, <4>1
    <3>3. CASE k = n + 1
      <4>1. ~(k <= n) /\ k - 1 = n
        BY <2>2, <3>3
      <4>2. e[k] = Write(g[n], s[n + 1])
        BY <3>1, <4>1
      <4>3. QED
        BY <3>1, <3>3, <4>1, <4>2
    <3>4. QED
      BY <2>2, <3>2, <3>3
  <2> HIDE DEF e
  <2>4. QED
    BY <2>2, <2>3
<1>3. S = Nat
  BY <1>1, <1>2, EveryNumber
<1>4. PICK g : Upto(Len(s), g)
  BY <1>3
<1> DEFINE h == [k \in 0..Len(s) |-> g[k]]
<1>5. ASSUME NEW k \in 0..Len(s)
      PROVE  h[k] = IF k = 0 THEN out ELSE Write(h[k - 1], s[k])
  <2>1. CASE k = 0
    BY <1>4, <2>1
  <2>2. CASE k # 0
    <3>1. k \in 1..Len(s) /\ k - 1 \in 0..Len(s)
      BY <2>2
    <3>2. QED
      BY <1>4, <2>2, <3>1
  <2>3. QED
    BY <2>1, <2>2
<1>6. h = [k \in 0..Len(s) |-> IF k = 0 THEN out ELSE Write(h[k - 1], s[k])]
  <2>1. h = [k \in 0..Len(s) |-> h[k]]
    OBVIOUS
  <2> HIDE DEF h
  <2>2. QED
    BY <1>5, <2>1
<1>7. QED
  BY <1>6

\* What is open after the tokens have been written as the context writes them
LEMMA WrittenLeads ==
  ASSUME NEW o, NEW a, NEW b, NEW s, Clean(out), Leads(o, out, a), Leads(a, s, b)
  PROVE  Clean(Written(s)) /\ Leads(o, Written(s), b)
<1>1. Len(s) \in Nat
  BY DEF Leads, IsSeq
<1>2. PICK r : /\ r[0] = a /\ r[Len(s)] = b
               /\ \A k \in 1..Len(s) : r[k] = Settle(r[k - 1], s[k])
  BY DEF Leads
<1> DEFINE text[k \in 0..Len(s)] == IF k = 0 THEN out ELSE Write(text[k - 1], s[k])
<1>3. Written(s) = text[Len(s)]
  BY DEF Written
<1>4. text = [k \in 0..Len(s) |-> IF k = 0 THEN out ELSE Write(text[k - 1], s[k])]
  BY <1>1, TextsExist
<1> HIDE DEF text
<1> DEFINE S == {k \in Nat : k <= Len(s) => Clean(text[k]) /\ Leads(o, text[k], r[k])}
<1>5. 0 \in S
  <2>1. 0 \in 0..Len(s)
    BY <1>1
  <2>2. \A k \in 0..Len(s) : text[k] = IF k = 0 THEN out ELSE Write(text[k - 1], s[k])
    BY <1>4, Zenon
  <2>3. text[0] = out
    BY <2>1, <2>2
  <2>4. QED
    BY <1>2, <2>3
<1>6. ASSUME NEW k \in S PROVE k + 1 \in S
  <2> SUFFICES ASSUME k + 1 <= Len(s) PROVE Clean(text[k + 1]) /\ Leads(o, text[k + 1], r[k + 1])
    OBVIOUS
  <2>1. k + 1 \in 0..Len(s) /\ k + 1 # 0 /\ k + 1 - 1 = k /\ k + 1 \in 1..Len(s) /\ k <= Len(s)
    BY <1>1
  <2>2. \A j \in 0..Len(s) : text[j] = IF j = 0 THEN out ELSE Write(text[j - 1], s[j])
    BY <1>4, Zenon
  <2>3. text[k + 1] = Write(text[k + 1 - 1], s[k + 1])
    BY <2>1, <2>2
  <2>4. Clean(text[k]) /\ Leads(o, text[k], r[k])
    BY <2>1
  <2>5. r[k + 1] = Settle(r[k], s[k + 1])
    BY <1>2, <2>1
  <2>6. QED
    BY <2>1, <2>3, <2>4, <2>5, OneWritten
<1>7. S = Nat
  BY <1>5, <1>6, EveryNumber
<1>8. QED
  BY <1>1, <1>2, <1>3, <1>7

LEMMA WrittenClean ==
  ASSUME NEW s, Clean(out), IsSeq(s)
  PROVE  Clean(Written(s))
<1>1. Len(s) \in Nat
  BY DEF IsSeq
<1> DEFINE text[k \in 0..Len(s)] == IF k = 0 THEN out ELSE Write(text[k - 1], s[k])
<1>2. Written(s) = text[Len(s)]
  BY DEF Written
<1>3. text = [k \in 0..Len(s) |-> IF k = 0 THEN out ELSE Write(text[k - 1], s[k])]
  BY <1>1, TextsExist
<1> HIDE DEF text
<1>4. \A j \in 0..Len(s) : text[j] = IF j = 0 THEN out ELSE Write(text[j - 1], s[j])
  BY <1>3, Zenon
<1> DEFINE S == {k \in Nat : k <= Len(s) => Clean(text[k])}
<1>5. 0 \in S
  BY <1>1, <1>4
<1>6. ASSUME NEW k \in S PROVE k + 1 \in S
  <2> SUFFICES ASSUME k + 1 <= Len(s) PROVE Clean(text[k + 1])
    OBVIOUS
  <2>1. k + 1 \in 0..Len(s) /\ k + 1 # 0 /\ k + 1 - 1 = k /\ k <= Len(s)
    BY <1>1
  <2>2. text[k + 1] = Write(text[k], s[k + 1])
    BY <1>4, <2>1
  <2>3. Clean(text[k])
    BY <2>1
  <2>4. Newline \notin {Cr, Lf}
    BY DEF Newline, Cr, Lf
  <2>5. \A x : x \notin {Cr, Lf} => Clean(Append(text[k], x))
    BY <2>3, OneMore
  <2>6. QED
    BY <2>2, <2>3, <2>4, <2>5 DEF Write
<1>7. S = Nat
  BY <1>5, <1>6, EveryNumber
<1>8. QED
  BY <1>1, <1>2, <1>7

\* The property's own count of what is open
LEMMA OpenIs ==
  ASSUME NEW a, Clean(out), Leads(<<>>, out, a)
  PROVE  TagsNest <=> (a # <<>> => Last(a) # "wrong") /\ (finished => a = <<>>)
<1>1. Len(out) \in Nat
  BY DEF Leads, IsSeq
<1>2. PICK r : /\ r[0] = <<>> /\ r[Len(out)] = a
               /\ \A k \in 1..Len(out) : r[k] = Settle(r[k - 1], out[k])
  BY DEF Leads
<1> DEFINE h == [k \in 0..Len(out) |-> r[k]]
           open[k \in 0..Len(out)] == IF k = 0 THEN <<>> ELSE Nest(open[k - 1], out[k])
<1>3. ASSUME NEW k \in 0..Len(out)
      PROVE  h[k] = IF k = 0 THEN <<>> ELSE Nest(h[k - 1], out[k])
  <2>1. CASE k = 0
    BY <1>2, <2>1
  <2>2. CASE k # 0
    <3>1. k \in 1..Len(out) /\ k - 1 \in 0..Len(out)
      BY <2>2
    <3>2. r[k] = Nest(r[k - 1], out[k])
      BY <1>2, <3>1 DEF Clean, Settle
    <3>3. QED
      BY <2>2, <3>1, <3>2
  <2>3. QED
    BY <2>1, <2>2
<1>4. h = [k \in 0..Len(out) |-> IF k = 0 THEN <<>> ELSE Nest(h[k - 1], out[k])]
  <2>1. h = [k \in 0..Len(out) |-> h[k]]
    OBVIOUS
  <2> HIDE DEF h
  <2>2. QED
    BY <1>3, <2>1
<1>5. open = [k \in 0..Len(out) |-> IF k = 0 THEN <<>> ELSE Nest(open[k - 1], out[k])]
  BY <1>4
<1>6. TagsNest <=> /\ open[Len(out)] # <<>> => Last(open[Len(out)]) # "wrong"
                   /\ finished => open[Len(out)] = <<>>
  BY DEF TagsNest
<1> HIDE DEF open, h
<1> DEFINE S == {k \in Nat : k <= Len(out) => open[k] = r[k]}
<1>7. \A j \in 0..Len(out) : open[j] = IF j = 0 THEN <<>> ELSE Nest(open[j - 1], out[j])
  BY <1>5, Zenon
<1>8. 0 \in S
  <2>1. 0 \in 0..Len(out)
    BY <1>1
  <2>2. open[0] = <<>>
    BY <1>7, <2>1
  <2>3. QED
    BY <1>2, <2>2
<1>9. ASSUME NEW k \in S PROVE k + 1 \in S
  <2> SUFFICES ASSUME k + 1 <= Len(out) PROVE open[k + 1] = r[k + 1]
    OBVIOUS
  <2>1. k + 1 \in 0..Len(out) /\ k + 1 # 0 /\ k + 1 - 1 = k /\ k + 1 \in 1..Len(out) /\ k <= Len(out)
    BY <1>1
  <2>2. open[k + 1] = Nest(open[k + 1 - 1], out[k + 1])
    BY <1>7, <2>1
  <2>3. r[k + 1] = Nest(r[k], out[k + 1])
    BY <1>2, <2>1 DEF Clean, Settle
  <2>4. QED
    BY <2>1, <2>2, <2>3
<1>10. S = Nat
  BY <1>8, <1>9, EveryNumber
<1>11. open[Len(out)] = a
  BY <1>1, <1>2, <1>10
<1>12. QED
  BY <1>6, <1>11

-----------------------------------------------------------------------------
(***************************************************************************)
(* What a node leaves open                                                 *)
(***************************************************************************)
\* What is open below node n, if a is where n is entered; body says whether a table's body has begun
Held(a, n, body) ==
  LET k == Kind(n) IN
  IF k = doc.custom.kind THEN Append(a, "custom")
  ELSE
  CASE k \in {"BlockQuote", "MultilineBlockQuote"} -> Append(a, "blockquote")
    [] k = "Emph" -> Append(a, "em")
    [] k = "Heading" -> Append(a, "h")
    [] k = "Image" -> Append(IF Has("figure_with_caption") THEN Append(a, "figure") ELSE a, "quote")
    [] k \in {"Item", "FootnoteDefinition"} -> Append(a, "li")
    [] k = "TaskItem" -> IF Kind(Parent(n)) = "List" THEN Append(a, "li") ELSE a
    [] k = "Link" -> IF ~Has("relaxed_autolinks") \/ Kind(Parent(n)) # "Link" THEN Append(a, "a") ELSE a
    [] k = "List" -> IF Has("ordered") THEN Append(a, "ol") ELSE Append(a, "ul")
    [] k = "Paragraph" -> IF Tight(n) THEN a ELSE Append(a, "p")
    [] k = "Strong" -> IF ~Has("gfm_quirks") \/ Kind(Parent(n)) # "Strong" THEN Append(a, "strong") ELSE a
    [] k = "Table" -> IF body THEN Append(Append(a, "table"), "tbody") ELSE Append(a, "table")
    [] k = "TableCell" -> IF Kind(Parent(n)) = "HeaderRow" THEN Append(a, "th") ELSE Append(a, "td")
    [] k = "HeaderRow" -> Append(Append(a, "thead"), "tr")
    [] k = "TableRow" -> Append(a, "tr")
    [] k \in {"Alert", "BlockDirective"} -> Append(a, "div")
    [] k = "DescriptionDetails" -> Append(a, "dd")
    [] k = "DescriptionList" -> Append(a, "dl")
    [] k = "DescriptionTerm" -> Append(a, "dt")
    [] k = "Escaped" -> IF Has("escaped_char_spans") THEN Append(a, "span") ELSE a
    [] k = "Subtext" -> Append(Append(a, "p"), "sub")
    [] k = "LemmySpoiler" -> Append(a, "details")
    [] k \in DOMAIN MarkTag -> Append(a, MarkTag[k])
    [] k \in DOMAIN SpanTag -> Append(a, SpanTag[k])
    [] OTHER -> a

LEMMA TagPair ==
  ASSUME NEW a, Outside(a), NEW x \in Tag
  PROVE  /\ Leads(a, Tags(x, TRUE), Append(a, x)) /\ Leads(Append(a, x), Tags(x, FALSE), a)
         /\ Outside(Append(a, x))
<1>1. Leads(a, <<Open(x)>>, Append(a, x)) /\ Outside(Append(a, x))
  BY OpenTag
<1>2. Leads(Append(a, x), <<Close(x)>>, a)
  BY CloseTag DEF Outside
<1>3. QED
  BY <1>1, <1>2 DEF Tags

LEMMA FramedPair ==
  ASSUME NEW a, Outside(a), NEW x \in Tag
  PROVE  /\ Leads(a, Framed(x, TRUE), Append(a, x)) /\ Leads(Append(a, x), Framed(x, FALSE), a)
         /\ Outside(Append(a, x))
<1>1. /\ Leads(a, Tags(x, TRUE), Append(a, x)) /\ Leads(Append(a, x), Tags(x, FALSE), a)
      /\ Outside(Append(a, x))
  BY TagPair
<1>2. /\ Leads(a, <<Cr>>, a) /\ Leads(a, <<Lf>>, a)
      /\ Leads(Append(a, x), <<Cr>>, Append(a, x)) /\ Leads(Append(a, x), <<Lf>>, Append(a, x))
  BY <1>1, QuietToken DEF Outside, Quiet
<1>3. Leads(a, <<Cr>> \o Tags(x, TRUE), Append(a, x)) /\ Leads(Append(a, x), <<Cr>> \o Tags(x, FALSE), a)
  BY <1>1, <1>2, ThenTokens
<1>4. QED
  BY <1>1, <1>2, <1>3, ThenTokens DEF Framed

\* Tags on a line of their own, and around words
LEMMA TagLines ==
  ASSUME NEW a, Outside(a), NEW x \in Tag
  PROVE  /\ Leads(a, <<Cr, Open(x)>>, Append(a, x)) /\ Leads(a, <<Open(x), Lf>>, Append(a, x))
         /\ Leads(a, <<Cr, Open(x), Lf>>, Append(a, x))
         /\ Leads(Append(a, x), <<Close(x), Lf>>, a) /\ Leads(Append(a, x), <<Cr, Close(x)>>, a)
         /\ Leads(Append(a, x), <<Cr, Close(x), Lf>>, a)
         /\ Leads(a, <<Open(x), Close(x)>>, a)
         /\ \A n : Leads(a, <<Open(x), Word(n), Close(x)>>, a) /\ Leads(a, <<Open(x), Word(n), Close(x), Lf>>, a)
<1> DEFINE b == Append(a, x)
<1>1. Leads(a, <<Open(x)>>, b) /\ Leads(b, <<Close(x)>>, a) /\ Outside(b)
  BY OpenTag, CloseTag DEF Outside
<1>2. /\ Leads(a, <<Cr>>, a) /\ Leads(a, <<Lf>>, a) /\ Leads(b, <<Cr>>, b) /\ Leads(b, <<Lf>>, b)
      /\ \A n : Leads(b, <<Word(n)>>, b)
  BY <1>1, QuietToken DEF Outside, Quiet
<1> HIDE DEF b
<1>3. Leads(a, <<Open(x), Lf>>, b) /\ Leads(b, <<Close(x), Lf>>, a)
  BY <1>1, <1>2, TwoTokens
<1>4. \A n : Leads(b, <<Word(n), Close(x)>>, a) /\ Leads(b, <<Word(n), Close(x), Lf>>, a)
  BY <1>1, <1>2, <1>3, TwoTokens, ThreeTokens
<1>5. /\ Leads(a, <<Cr, Open(x)>>, b) /\ Leads(b, <<Cr, Close(x)>>, a) /\ Leads(a, <<Open(x), Close(x)>>, a)
  BY <1>1, <1>2, TwoTokens
<1>6. Leads(a, <<Cr, Open(x), Lf>>, b) /\ Leads(b, <<Cr, Close(x), Lf>>, a)
  BY <1>2, <1>3, ThreeTokens
<1>7. \A n : Leads(a, <<Open(x), Word(n), Close(x)>>, a) /\ Leads(a, <<Open(x), Word(n), Close(x), Lf>>, a)
  BY <1>1, <1>4, ThreeTokens, FourTokens
<1>8. QED
  BY <1>3, <1>5, <1>6, <1>7 DEF b

LEMMA Perhaps ==
  ASSUME NEW a, NEW s, NEW c \in BOOLEAN, c => Leads(a, s, a)
  PROVE  Leads(a, If(c, s), a)
BY NoTokens DEF If

\* A node that is entered and left by itself
Fits(n, a) ==
  /\ Leads(a, formatter(n, TRUE), Held(a, n, FALSE))
  /\ Leads(Held(a, n, FALSE), formatter(n, FALSE), a)

LEMMA CustomFits ==
  ASSUME NEW n, NEW a, Outside(a), Kind(n) = doc.custom.kind
  PROVE  Fits(n, a)
<1>1. formatter(n, TRUE) = Tags("custom", TRUE) /\ formatter(n, FALSE) = Tags("custom", FALSE)
  BY DEF formatter
<1>2. Held(a, n, FALSE) = Append(a, "custom")
  BY DEF Held
<1>3. "custom" \in Tag
  BY DEF Tag
<1>4. QED
  BY <1>1, <1>2, <1>3, TagPair DEF Fits

\* Tags around what is below
LEMMA SpansFit ==
  ASSUME NEW n, NEW a, Outside(a), Kind(n) # doc.custom.kind,
         Kind(n) \in {"Emph", "Link", "Strong", "Escaped"} \cup DOMAIN MarkTag \cup DOMAIN SpanTag
  PROVE  Fits(n, a)
<1>1. CASE Kind(n) = "Emph"
  <2>1. "em" \in Tag /\ Held(a, n, FALSE) = Append(a, "em") /\ \A e : formatter(n, e) = Tags("em", e)
    BY <1>1 DEF Held, formatter, Rendered, MarkTag, SpanTag, Tag, render_emph
  <2>2. QED
    BY <2>1, TagPair DEF Fits
<1>2. CASE Kind(n) = "Link"
  <2> DEFINE c == ~Has("relaxed_autolinks") \/ Kind(Parent(n)) # "Link"
  <2>1. /\ "a" \in Tag /\ Held(a, n, FALSE) = (IF c THEN Append(a, "a") ELSE a)
        /\ \A e : formatter(n, e) = If(c, Tags("a", e))
    BY <1>2 DEF Held, formatter, Rendered, MarkTag, SpanTag, Tag, render_link
  <2> HIDE DEF c
  <2>2. QED
    BY <2>1, TagPair, NoTokens DEF Fits, If
<1>3. CASE Kind(n) = "Strong"
  <2> DEFINE c == ~Has("gfm_quirks") \/ Kind(Parent(n)) # "Strong"
  <2>1. /\ "strong" \in Tag /\ Held(a, n, FALSE) = (IF c THEN Append(a, "strong") ELSE a)
        /\ \A e : formatter(n, e) = If(c, Tags("strong", e))
    BY <1>3 DEF Held, formatter, Rendered, MarkTag, SpanTag, Tag, render_strong
  <2> HIDE DEF c
  <2>2. QED
    BY <2>1, TagPair, NoTokens DEF Fits, If
<1>4. CASE Kind(n) = "Escaped"
  <2> DEFINE c == Has("escaped_char_spans")
  <2>1. /\ "span" \in Tag /\ Held(a, n, FALSE) = (IF c THEN Append(a, "span") ELSE a)
        /\ \A e : formatter(n, e) = If(c, Tags("span", e))
    BY <1>4 DEF Held, formatter, Rendered, MarkTag, SpanTag, Tag, render_escaped
  <2> HIDE DEF c
  <2>2. QED
    BY <2>1, TagPair, NoTokens DEF Fits, If
<1>5. CASE Kind(n) \in DOMAIN MarkTag
  <2>1. /\ MarkTag[Kind(n)] \in Tag /\ Held(a, n, FALSE) = Append(a, MarkTag[Kind(n)])
        /\ \A e : formatter(n, e) = Tags(MarkTag[Kind(n)], e)
    BY <1>5 DEF Held, formatter, Rendered, MarkTag, SpanTag, Tag
  <2>2. QED
    BY <2>1, TagPair DEF Fits
<1>6. CASE Kind(n) \in DOMAIN SpanTag
  <2>1. /\ SpanTag[Kind(n)] \in Tag /\ Held(a, n, FALSE) = Append(a, SpanTag[Kind(n)])
        /\ \A e : formatter(n, e) = Tags(SpanTag[Kind(n)], e)
    BY <1>6 DEF Held, formatter, Rendered, MarkTag, SpanTag, Tag
  <2>2. QED
    BY <2>1, TagPair DEF Fits
<1>7. QED
  BY <1>1, <1>2, <1>3, <1>4, <1>5, <1>6

LEMMA BlocksFit ==
  ASSUME NEW n, NEW a, Outside(a), Kind(n) # doc.custom.kind,
         Kind(n) \in {"BlockQuote", "MultilineBlockQuote", "Item", "TaskItem", "List", "BlockDirective",
                      "DescriptionDetails", "DescriptionList", "DescriptionTerm", "Subtext"}
  PROVE  Fits(n, a)
<1> {"blockquote", "li", "ol", "ul", "div", "dd", "dl", "dt", "p", "sub"} \subseteq Tag
  BY DEF Tag
<1>1. CASE Kind(n) \in {"BlockQuote", "MultilineBlockQuote"}
  <2>1. Held(a, n, FALSE) = Append(a, "blockquote") /\ \A e : formatter(n, e) = Framed("blockquote", e)
    BY <1>1 DEF Held, formatter, Rendered, MarkTag, SpanTag, render_block_quote, render_multiline_block_quote
  <2>2. QED
    BY <2>1, FramedPair DEF Fits
<1>2. CASE Kind(n) = "Item"
  <2>1. /\ Held(a, n, FALSE) = Append(a, "li") /\ formatter(n, TRUE) = <<Cr, Open("li")>>
        /\ formatter(n, FALSE) = <<Close("li"), Lf>>
    BY <1>2 DEF Held, formatter, Rendered, MarkTag, SpanTag, render_item
  <2>2. QED
    BY <2>1, TagLines DEF Fits
<1>3. CASE Kind(n) = "TaskItem"
  <2> DEFINE c == Kind(Parent(n)) = "List"
             h == IF c THEN Append(a, "li") ELSE a
  <2>1. /\ Held(a, n, FALSE) = h /\ formatter(n, TRUE) = <<Cr>> \o If(c, <<Open("li")>>) \o <<Void("input")>>
        /\ formatter(n, FALSE) = If(c, <<Close("li"), Lf>>)
    BY <1>3 DEF Held, formatter, Rendered, MarkTag, SpanTag, render_task_item
  <2>2. Leads(a, If(c, <<Open("li")>>), h) /\ Outside(h)
    BY OpenTag, NoTokens DEF If
  <2>3. Leads(a, <<Cr>>, a) /\ Leads(h, <<Void("input")>>, h)
    BY <2>2, QuietToken, VoidToken DEF Outside, Quiet
  <2>4. Leads(h, If(c, <<Close("li"), Lf>>), a)
    BY TagLines, NoTokens DEF If
  <2> HIDE DEF c, h
  <2>5. Leads(a, <<Cr>> \o If(c, <<Open("li")>>), h)
    BY <2>2, <2>3, ThenTokens
  <2>6. Leads(a, <<Cr>> \o If(c, <<Open("li")>>) \o <<Void("input")>>, h)
    BY <2>3, <2>5, ThenTokens
  <2>7. QED
    BY <2>1, <2>4, <2>6 DEF Fits
<1>4. CASE Kind(n) = "List"
  <2> DEFINE tag == IF Has("ordered") THEN "ol" ELSE "ul"
  <2>1. /\ Held(a, n, FALSE) = Append(a, tag) /\ formatter(n, TRUE) = <<Cr, Open(tag), Lf>>
        /\ formatter(n, FALSE) = <<Close(tag), Lf>> /\ tag \in Tag
    BY <1>4 DEF Held, formatter, Rendered, MarkTag, SpanTag, render_list
  <2> HIDE DEF tag
  <2>2. QED
    BY <2>1, TagLines DEF Fits
<1>5. CASE Kind(n) = "BlockDirective"
  <2>1. /\ Held(a, n, FALSE) = Append(a, "div") /\ formatter(n, TRUE) = <<Cr>> \o Tags("div", TRUE) \o If(FALSE, <<Lf>>)
        /\ formatter(n, FALSE) = <<Cr>> \o Tags("div", FALSE) \o If(TRUE, <<Lf>>)
    BY <1>5 DEF Held, formatter, Rendered, MarkTag, SpanTag, render_block_directive
  <2> DEFINE h == Append(a, "div")
  <2>2. Leads(a, Tags("div", TRUE), h) /\ Leads(h, Tags("div", FALSE), a) /\ Outside(h)
    BY TagPair
  <2>3. Leads(a, <<Cr>>, a) /\ Leads(h, <<Cr>>, h) /\ Leads(h, If(FALSE, <<Lf>>), h) /\ Leads(a, If(TRUE, <<Lf>>), a)
    BY <2>2, QuietToken, NoTokens DEF Outside, Quiet, If
  <2> HIDE DEF h
  <2>4. Leads(a, <<Cr>> \o Tags("div", TRUE), h) /\ Leads(h, <<Cr>> \o Tags("div", FALSE), a)
    BY <2>2, <2>3, ThenTokens
  <2>5. Leads(a, <<Cr>> \o Tags("div", TRUE) \o If(FALSE, <<Lf>>), h) /\ Leads(h, <<Cr>> \o Tags("div", FALSE) \o If(TRUE, <<Lf>>), a)
    BY <2>3, <2>4, ThenTokens
  <2>6. QED
    BY <2>1, <2>5 DEF Fits, h
<1>6. CASE Kind(n) \in {"DescriptionDetails", "DescriptionTerm"}
  <2> DEFINE tag == IF Kind(n) = "DescriptionDetails" THEN "dd" ELSE "dt"
             h == Append(a, tag)
  <2>1. /\ Held(a, n, FALSE) = h /\ tag \in Tag
        /\ formatter(n, TRUE) = Tags(tag, TRUE) \o If(FALSE, <<Lf>>)
        /\ formatter(n, FALSE) = Tags(tag, FALSE) \o If(TRUE, <<Lf>>)
    BY <1>6 DEF Held, formatter, Rendered, MarkTag, SpanTag, render_description_details, render_description_term
  <2> HIDE DEF tag
  <2>2. Leads(a, Tags(tag, TRUE), h) /\ Leads(h, Tags(tag, FALSE), a) /\ Outside(h)
    BY <2>1, TagPair
  <2>3. Leads(h, If(FALSE, <<Lf>>), h) /\ Leads(a, If(TRUE, <<Lf>>), a)
    BY <2>2, QuietToken, NoTokens DEF Outside, Quiet, If
  <2> HIDE DEF h
  <2>4. QED
    BY <2>1, <2>2, <2>3, ThenTokens DEF Fits
<1>7. CASE Kind(n) = "DescriptionList"
  <2>1. /\ Held(a, n, FALSE) = Append(a, "dl") /\ formatter(n, TRUE) = <<Cr, Open("dl"), Lf>>
        /\ formatter(n, FALSE) = <<Close("dl"), Lf>>
    BY <1>7 DEF Held, formatter, Rendered, MarkTag, SpanTag, render_description_list
  <2>2. QED
    BY <2>1, TagLines DEF Fits
<1>8. CASE Kind(n) = "Subtext"
  <2> DEFINE h == Append(a, "p")
             i == Append(h, "sub")
  <2>1. /\ Held(a, n, FALSE) = i /\ formatter(n, TRUE) = <<Cr, Open("p"), Open("sub")>>
        /\ formatter(n, FALSE) = <<Close("sub"), Close("p"), Lf>>
    BY <1>8 DEF Held, formatter, Rendered, MarkTag, SpanTag, render_subtext
  <2>2. Leads(a, <<Open("p")>>, h) /\ Outside(h) /\ Leads(h, <<Open("sub")>>, i) /\ Outside(i)
    BY OpenTag
  <2>3. Leads(i, <<Close("sub")>>, h) /\ Leads(h, <<Close("p"), Lf>>, a)
    BY <2>2, CloseTag, TagLines DEF Outside
  <2>4. Leads(a, <<Cr>>, a)
    BY QuietToken DEF Outside, Quiet
  <2> HIDE DEF h, i
  <2>5. Leads(a, <<Cr, Open("p"), Open("sub")>>, i)
    BY <2>2, <2>4, TwoTokens, ThreeTokens
  <2>6. Leads(i, <<Close("sub"), Close("p"), Lf>>, a)
    BY <2>3, ThreeTokens
  <2>7. QED
    BY <2>1, <2>5, <2>6 DEF Fits
<1>9. QED
  BY <1>1, <1>2, <1>3, <1>4, <1>5, <1>6, <1>7, <1>8

Leaves == {"Code", "CodeBlock", "HtmlBlock", "HeexBlock", "HtmlInline", "HeexInline", "LineBreak", "SoftBreak",
           "Text", "ThematicBreak", "FootnoteReference", "Math", "Raw", "ShortCode"}

\* Raw HTML, as it is, escaped or left out
LEMMA RawQuiet ==
  ASSUME NEW n, NEW a, Outside(a)
  PROVE  /\ Leads(a, Raw(n), a) /\ Leads(a, <<Cr>> \o Raw(n) \o <<Cr>>, a)
<1>1. Leads(a, Raw(n), a)
  BY QuietToken, VoidToken DEF Raw, Outside, Quiet
<1>2. Leads(a, <<Cr>>, a)
  BY QuietToken DEF Outside, Quiet
<1>3. Leads(a, <<Cr>> \o Raw(n), a)
  BY <1>1, <1>2, ThenTokens
<1>4. QED
  BY <1>1, <1>2, <1>3, ThenTokens

LEMMA VoidLines ==
  ASSUME NEW a, Outside(a), NEW v
  PROVE  /\ Leads(a, <<Void(v)>>, a) /\ Leads(a, <<Void(v), Lf>>, a)
         /\ Leads(a, <<Cr, Void(v), Lf>>, a) /\ Leads(a, <<Cr, Void(v), Cr>>, a)
<1>1. Leads(a, <<Void(v)>>, a) /\ Leads(a, <<Cr>>, a) /\ Leads(a, <<Lf>>, a)
  BY QuietToken, VoidToken DEF Outside, Quiet
<1>2. Leads(a, <<Void(v), Lf>>, a) /\ Leads(a, <<Void(v), Cr>>, a)
  BY <1>1, TwoTokens
<1>3. QED
  BY <1>1, <1>2, ThreeTokens

\* Tags inside tags
LEMMA TwoTags ==
  ASSUME NEW a, Outside(a), NEW x \in Tag, NEW y \in Tag, NEW n
  PROVE  /\ Leads(a, <<Open(x), Open(y), Close(y), Close(x)>>, a)
         /\ Leads(a, <<Open(x), Open(y), Word(n), Close(y), Close(x)>>, a)
         /\ Leads(a, <<Cr, Open(x), Open(y), Word(n), Close(y), Close(x), Lf>>, a)
<1> DEFINE b == Append(a, x)
           c == Append(b, y)
<1>1. Leads(a, <<Open(x)>>, b) /\ Outside(b) /\ Leads(b, <<Open(y)>>, c) /\ Outside(c)
  BY OpenTag
<1>2. Leads(c, <<Close(y)>>, b) /\ Leads(b, <<Close(x)>>, a)
  BY <1>1, CloseTag DEF Outside
<1>3. Leads(b, <<Close(x), Lf>>, a) /\ Leads(b, <<Open(y), Close(y)>>, b)
  BY <1>1, TagLines
<1>4. Leads(a, <<Cr>>, a) /\ Leads(c, <<Word(n)>>, c)
  BY <1>1, QuietToken DEF Outside, Quiet
<1> HIDE DEF b, c
<1>5. Leads(c, <<Close(y), Close(x)>>, a)
  BY <1>2, TwoTokens
<1>6. Leads(b, <<Open(y), Close(y), Close(x)>>, a)
  BY <1>1, <1>5, ThreeTokens
<1>7. Leads(a, <<Open(x), Open(y), Close(y), Close(x)>>, a)
  BY <1>1, <1>6, FourTokens
<1>8. Leads(a, <<Open(x), Open(y)>>, c) /\ Leads(c, <<Word(n), Close(y), Close(x)>>, a)
  BY <1>1, <1>4, <1>5, TwoTokens, ThreeTokens
<1>9. Leads(a, <<Open(x), Open(y), Word(n), Close(y), Close(x)>>, a)
  BY <1>8, FiveTokens
<1>10. Leads(a, <<Cr, Open(x), Open(y)>>, c)
  BY <1>4, <1>8, ThreeTokens
<1>11. Leads(c, <<Close(y), Close(x), Lf>>, a)
  BY <1>2, <1>3, ThreeTokens
<1>12. Leads(c, <<Word(n), Close(y), Close(x), Lf>>, a)
  BY <1>4, <1>11, FourTokens
<1>13. Leads(a, <<Cr, Open(x), Open(y), Word(n), Close(y), Close(x), Lf>>, a)
  BY <1>10, <1>12, SevenTokens
<1>14. QED
  BY <1>7, <1>9, <1>13

LEMMA LeavesFit ==
  ASSUME NEW n, NEW a, Outside(a), Kind(n) # doc.custom.kind, Kind(n) \in Leaves
  PROVE  Fits(n, a)
<1> {"code", "pre", "sup", "a", "span"} \subseteq Tag
  BY DEF Tag
<1>1. Held(a, n, FALSE) = a /\ formatter(n, FALSE) = <<>>
  BY DEF Leaves, Held, formatter, Rendered, MarkTag, SpanTag, Leaf, render_code, render_code_block, render_html_block,
         render_heex_block, render_html_inline, render_heex_inline, render_line_break, render_soft_break, render_text,
         render_thematic_break, render_footnote_reference, render_math, render_raw, render_short_code
<1>2. /\ Leads(a, Raw(n), a) /\ Leads(a, <<Cr>> \o Raw(n) \o <<Cr>>, a)
      /\ Leads(a, <<Word(n)>>, a) /\ Leads(a, <<Newline>>, a)
  BY RawQuiet, QuietToken DEF Outside, Quiet
<1>3. \/ formatter(n, TRUE) = <<Open("code"), Word(n), Close("code")>>
      \/ formatter(n, TRUE) = <<Cr, Open("pre"), Open("code"), Word(n), Close("code"), Close("pre"), Lf>>
      \/ formatter(n, TRUE) = Raw(n) \/ formatter(n, TRUE) = <<Cr>> \o Raw(n) \o <<Cr>>
      \/ formatter(n, TRUE) = <<Cr, Void("raw"), Cr>> \/ formatter(n, TRUE) = <<Void("raw")>>
      \/ formatter(n, TRUE) = <<Void("br"), Lf>> \/ formatter(n, TRUE) = <<Newline>>
      \/ formatter(n, TRUE) = <<Word(n)>> \/ formatter(n, TRUE) = <<Cr, Void("hr"), Lf>>
      \/ formatter(n, TRUE) = <<Open("sup"), Open("a"), Word(n), Close("a"), Close("sup")>>
      \/ formatter(n, TRUE) = <<Open("span"), Word(n), Close("span")>>
  BY DEF Leaves, formatter, Rendered, MarkTag, SpanTag, Leaf, render_code, render_code_block, render_html_block,
         render_heex_block, render_html_inline, render_heex_inline, render_line_break, render_soft_break, render_text,
         render_thematic_break, render_footnote_reference, render_math, render_raw, render_short_code
<1>4. /\ Leads(a, <<Open("code"), Word(n), Close("code")>>, a)
      /\ Leads(a, <<Cr, Open("pre"), Open("code"), Word(n), Close("code"), Close("pre"), Lf>>, a)
      /\ Leads(a, <<Open("sup"), Open("a"), Word(n), Close("a"), Close("sup")>>, a)
      /\ Leads(a, <<Open("span"), Word(n), Close("span")>>, a)
  BY TagLines, TwoTags
<1>5. /\ Leads(a, <<Cr, Void("raw"), Cr>>, a) /\ Leads(a, <<Void("raw")>>, a) /\ Leads(a, <<Void("br"), Lf>>, a)
      /\ Leads(a, <<Cr, Void("hr"), Lf>>, a)
  BY VoidLines
<1>6. Leads(a, formatter(n, TRUE), a)
  BY <1>2, <1>3, <1>4, <1>5
<1>7. QED
  BY <1>1, <1>6, NoTokens DEF Fits

\* Nothing is written, or words on both sides
LEMMA OthersFit ==
  ASSUME NEW n, NEW a, Outside(a), Kind(n) # doc.custom.kind,
         Kind(n) \in {"Document", "DescriptionItem", "FrontMatter", "CommentInline", "MultilineComment", "EscapedTag"}
  PROVE  Fits(n, a)
<1>1. Held(a, n, FALSE) = a /\ \A e : formatter(n, e) = <<>> \/ formatter(n, e) = <<Word(n)>>
  BY DEF Held, formatter, Rendered, MarkTag, SpanTag, render_escaped_tag
<1>2. Leads(a, <<Word(n)>>, a) /\ Leads(a, <<>>, a)
  BY QuietToken, NoTokens DEF Outside, Quiet
<1>3. QED
  BY <1>1, <1>2 DEF Fits

LEMMA LinksBack ==
  ASSUME NEW a, Outside(a)
  PROVE  Leads(a, put_footnote_backref, a)
<1> DEFINE more == If(Has("total_references 2"), <<Open("a"), Open("sup"), Close("sup"), Close("a")>>)
<1> {"a", "sup"} \subseteq Tag
  BY DEF Tag
<1>1. Leads(a, more, a)
  BY TwoTags, NoTokens DEF If
<1>2. Leads(a, <<Open("a"), Close("a")>>, a)
  BY TagLines
<1> HIDE DEF more
<1>3. Leads(a, <<Open("a"), Close("a")>> \o more, a)
  BY <1>1, <1>2, ThenTokens
<1>4. put_footnote_backref = If(written_footnote_ix < footnote_ix, <<Open("a"), Close("a")>> \o more)
  BY DEF put_footnote_backref, more
<1>5. QED
  BY <1>3, <1>4, NoTokens DEF If

LEMMA ParagraphFits ==
  ASSUME NEW n, NEW a, Outside(a), Kind(n) # doc.custom.kind, Kind(n) = "Paragraph"
  PROVE  Fits(n, a)
<1> "p" \in Tag
  BY DEF Tag
<1>1. CASE Tight(n)
  <2>1. Held(a, n, FALSE) = a /\ \A e : formatter(n, e) = <<>> \/ formatter(n, e) = <<Newline>>
    BY <1>1 DEF Held, formatter, Rendered, MarkTag, SpanTag, render_paragraph, If
  <2>2. Leads(a, <<Newline>>, a) /\ Leads(a, <<>>, a)
    BY QuietToken, NoTokens DEF Outside, Quiet
  <2>3. QED
    BY <2>1, <2>2 DEF Fits
<1>2. CASE ~Tight(n)
  <2> DEFINE h == Append(a, "p")
             links == If(EndsDefinition(n), put_footnote_backref)
  <2>1. /\ Held(a, n, FALSE) = h /\ formatter(n, TRUE) = <<Cr, Open("p")>>
        /\ formatter(n, FALSE) = links \o <<Close("p"), Lf>>
    BY <1>2 DEF Held, formatter, Rendered, MarkTag, SpanTag, render_paragraph
  <2>2. Leads(a, <<Cr, Open("p")>>, h) /\ Leads(h, <<Close("p"), Lf>>, a) /\ Outside(h)
    BY TagLines, OpenTag
  <2>3. Leads(h, links, h)
    BY <2>2, LinksBack, NoTokens DEF If
  <2> HIDE DEF h, links
  <2>4. QED
    BY <2>1, <2>2, <2>3, ThenTokens DEF Fits
<1>3. QED
  BY <1>1, <1>2

LEMMA ImageFits ==
  ASSUME NEW n, NEW a, Outside(a), Kind(n) # doc.custom.kind, Kind(n) = "Image"
  PROVE  Fits(n, a)
<1> {"figure", "figcaption"} \subseteq Tag
  BY DEF Tag
<1> DEFINE f == Has("figure_with_caption")
           h == IF f THEN Append(a, "figure") ELSE a
           caption == If(Has("title"), <<Open("figcaption"), Close("figcaption")>>)
           end == If(f, caption \o <<Close("figure")>>)
<1>1. /\ Held(a, n, FALSE) = Append(h, "quote")
      /\ formatter(n, TRUE) = If(f, <<Open("figure")>>) \o <<Quote>>
      /\ formatter(n, FALSE) = <<Unquote>> \o end
  BY DEF Held, formatter, Rendered, MarkTag, SpanTag, render_image
<1>2. Leads(a, If(f, <<Open("figure")>>), h) /\ Outside(h)
  BY OpenTag, NoTokens DEF If
<1>3. Leads(h, <<Quote>>, Append(h, "quote")) /\ Leads(Append(h, "quote"), <<Unquote>>, h)
  BY <1>2, OpenAttribute, CloseAttribute DEF Outside
<1>4. Leads(h, caption, h)
  BY <1>2, TagLines, NoTokens DEF If
<1>5. Leads(h, end, a)
  <2>1. CASE f
    <3>1. Leads(h, <<Close("figure")>>, a)
      BY <2>1, CloseTag DEF Outside
    <3> HIDE DEF h, caption
    <3>2. Leads(h, caption \o <<Close("figure")>>, a)
      BY <1>4, <3>1, ThenTokens
    <3>3. QED
      BY <2>1, <3>2 DEF If
  <2>2. CASE ~f
    BY <2>2, NoTokens DEF If
  <2>3. QED
    BY <2>1, <2>2
<1> HIDE DEF f, h, caption, end
<1>6. QED
  BY <1>1, <1>2, <1>3, <1>5, ThenTokens DEF Fits

LEMMA AlertFits ==
  ASSUME NEW n, NEW a, Outside(a), Kind(n) # doc.custom.kind, Kind(n) \in {"Alert", "LemmySpoiler"}
  PROVE  Fits(n, a)
<1> {"div", "p", "details", "summary"} \subseteq Tag
  BY DEF Tag
<1>1. CASE Kind(n) = "Alert"
  <2> DEFINE h == Append(a, "div")
  <2>1. /\ Held(a, n, FALSE) = h /\ formatter(n, FALSE) = Framed("div", FALSE)
        /\ formatter(n, TRUE) = Framed("div", TRUE) \o <<Open("p"), Word(n), Close("p"), Lf>>
    BY <1>1 DEF Held, formatter, Rendered, MarkTag, SpanTag, render_alert
  <2>2. Leads(a, Framed("div", TRUE), h) /\ Leads(h, Framed("div", FALSE), a) /\ Outside(h)
    BY FramedPair
  <2>3. Leads(h, <<Open("p"), Word(n), Close("p"), Lf>>, h)
    BY <2>2, TagLines
  <2> HIDE DEF h
  <2>4. QED
    BY <2>1, <2>2, <2>3, ThenTokens DEF Fits
<1>2. CASE Kind(n) = "LemmySpoiler"
  <2> DEFINE h == Append(a, "details")
             line(e) == If(e /\ Has("title"), <<Open("summary"), Word(n), Close("summary"), Lf>>)
  <2>1. Held(a, n, FALSE) = h /\ \A e : formatter(n, e) = Framed("details", e) \o line(e)
    BY <1>2 DEF Held, formatter, Rendered, MarkTag, SpanTag, render_lemmy_spoiler
  <2>2. Leads(a, Framed("details", TRUE), h) /\ Leads(h, Framed("details", FALSE), a) /\ Outside(h)
    BY FramedPair
  <2>3. Leads(h, line(TRUE), h) /\ Leads(a, line(FALSE), a)
    BY <2>2, TagLines, NoTokens DEF If
  <2> HIDE DEF h, line
  <2>4. QED
    BY <2>1, <2>2, <2>3, ThenTokens DEF Fits
<1>3. QED
  BY <1>1, <1>2

-----------------------------------------------------------------------------
\* The row that opens its table's body
SecondRow(n) == Kind(n) = "TableRow" /\ Before(n) # {} /\ Kind(Highest(Before(n))) = "HeaderRow"

\* Where node n is entered, if a is open around it
Ground(a, n) ==
  IF Kind(n) = doc.custom.kind THEN a
  ELSE IF Kind(n) = "FootnoteDefinition" /\ footnote_ix = 0 THEN Append(Append(a, "section"), "ol")
  ELSE IF SecondRow(n) THEN Append(a, "tbody")
  ELSE a

LEMMA RowLeads ==
  ASSUME NEW n, NEW a, Outside(a), Kind(n) # doc.custom.kind, Kind(n) \in {"HeaderRow", "TableRow"}
  PROVE  /\ Leads(a, formatter(n, TRUE), Held(Ground(a, n), n, FALSE))
         /\ Leads(Held(a, n, FALSE), formatter(n, FALSE), a)
<1> {"thead", "tbody", "tr"} \subseteq Tag
  BY DEF Tag
<1> DEFINE thead == Kind(n) = "HeaderRow"
           first == Before(n) # {} /\ Kind(Highest(Before(n))) = "HeaderRow"
           head == IF thead THEN <<Open("thead"), Lf>> ELSE If(first, <<Open("tbody"), Lf>>)
           tail == If(thead, <<Cr, Close("thead")>>)
           b == IF thead THEN Append(a, "thead") ELSE IF first THEN Append(a, "tbody") ELSE a
           c == IF thead THEN Append(a, "thead") ELSE a
<1>1. /\ formatter(n, TRUE) = <<Cr>> \o head \o <<Open("tr")>>
      /\ formatter(n, FALSE) = <<Cr, Close("tr")>> \o tail
  BY DEF formatter, Rendered, MarkTag, SpanTag, render_table_row
<1>2. Held(Ground(a, n), n, FALSE) = Append(b, "tr") /\ Held(a, n, FALSE) = Append(c, "tr")
  BY DEF Held, Ground, SecondRow, MarkTag, SpanTag
<1>3. /\ Outside(b) /\ Leads(a, <<Open("thead"), Lf>>, Append(a, "thead"))
      /\ Leads(a, <<Open("tbody"), Lf>>, Append(a, "tbody")) /\ Outside(c)
  BY TagLines, OpenTag
<1>4. Leads(a, head, b)
  BY <1>3, NoTokens DEF If
<1>5. Leads(a, <<Cr>>, a)
  BY QuietToken DEF Outside, Quiet
<1>6. Leads(b, <<Open("tr")>>, Append(b, "tr")) /\ Leads(Append(c, "tr"), <<Cr, Close("tr")>>, c)
  BY <1>3, OpenTag, TagLines
<1>7. Leads(c, tail, a)
  BY TagLines, NoTokens DEF If
<1> HIDE DEF head, tail, b, c
<1>8. Leads(a, <<Cr>> \o head, b)
  BY <1>4, <1>5, ThenTokens
<1>9. Leads(a, <<Cr>> \o head \o <<Open("tr")>>, Append(b, "tr"))
  BY <1>6, <1>8, ThenTokens
<1>10. Leads(Append(c, "tr"), <<Cr, Close("tr")>> \o tail, a)
  BY <1>6, <1>7, ThenTokens
<1>11. QED
  BY <1>1, <1>2, <1>9, <1>10

LEMMA CellFits ==
  ASSUME NEW n, NEW a, Outside(a), Kind(n) # doc.custom.kind, Kind(n) = "TableCell",
         Kind(Parent(n)) \in {"HeaderRow", "TableRow"}, Kind(Parent(Parent(n))) = "Table"
  PROVE  Fits(n, a)
<1> DEFINE tag == IF Kind(Parent(n)) = "HeaderRow" THEN "th" ELSE "td"
           h == Append(a, tag)
<1>1. /\ Held(a, n, FALSE) = h /\ \A e : formatter(n, e) = If(e, <<Cr>>) \o Tags(tag, e)
      /\ tag \in Tag
  BY DEF Held, formatter, Rendered, MarkTag, SpanTag, render_table_cell, Tag
<1> HIDE DEF tag
<1>2. Leads(a, Tags(tag, TRUE), h) /\ Leads(h, Tags(tag, FALSE), a) /\ Outside(h)
  BY <1>1, TagPair
<1>3. Leads(a, If(TRUE, <<Cr>>), a) /\ Leads(h, If(FALSE, <<Cr>>), h)
  BY QuietToken, NoTokens DEF Outside, Quiet, If
<1> HIDE DEF h
<1>4. QED
  BY <1>1, <1>2, <1>3, ThenTokens DEF Fits

\* The table that is left closes the body that its second row opened
LEMMA TableLeads ==
  ASSUME NEW n, NEW a, Outside(a), Kind(n) # doc.custom.kind, Kind(n) = "Table"
  PROVE  /\ Leads(a, formatter(n, TRUE), Held(a, n, FALSE))
         /\ Leads(Held(a, n, HasBody(n)), formatter(n, FALSE), a)
<1> {"table", "tbody"} \subseteq Tag
  BY DEF Tag
<1> DEFINE b == HasBody(n)
           t == Append(a, "table")
           h == IF b THEN Append(t, "tbody") ELSE t
<1>1. /\ Held(a, n, FALSE) = t /\ Held(a, n, HasBody(n)) = h
      /\ formatter(n, TRUE) = Framed("table", TRUE)
      /\ formatter(n, FALSE) = If(b, <<Cr, Close("tbody"), Lf>>) \o Framed("table", FALSE)
  BY DEF Held, formatter, Rendered, MarkTag, SpanTag, render_table
<1>2. Leads(a, Framed("table", TRUE), t) /\ Leads(t, Framed("table", FALSE), a) /\ Outside(t)
  BY FramedPair
<1>3. Leads(h, If(b, <<Cr, Close("tbody"), Lf>>), t)
  BY <1>2, TagLines, NoTokens DEF If
<1> HIDE DEF b, t, h
<1>4. QED
  BY <1>1, <1>2, <1>3, ThenTokens

LEMMA HeadingLeads ==
  ASSUME NEW n, NEW a, Outside(a), Kind(n) # doc.custom.kind, Kind(n) = "Heading"
  PROVE  /\ Leads(a, formatter(n, TRUE), Held(a, n, FALSE))
         /\ (Has("header_id_prefix") => heading # 0)
            => Leads(Held(a, n, FALSE), formatter(n, FALSE), a)
<1> {"h", "a"} \subseteq Tag
  BY DEF Tag
<1> DEFINE h == Append(a, "h")
           p == Has("header_id_prefix")
           link == If(p, IF heading = 0 THEN <<Panic>> ELSE <<Open("a"), Close("a")>>)
<1>1. /\ Held(a, n, FALSE) = h /\ formatter(n, TRUE) = <<Cr, Open("h")>>
      /\ formatter(n, FALSE) = link \o <<Close("h"), Lf>>
  BY DEF Held, formatter, Rendered, MarkTag, SpanTag, render_heading
<1>2. /\ Leads(a, <<Cr, Open("h")>>, h) /\ Leads(h, <<Close("h"), Lf>>, a)
      /\ Outside(h)
  BY TagLines, OpenTag
<1>3. ASSUME p => heading # 0
      PROVE  Leads(h, link, h)
  BY <1>2, <1>3, TagLines, NoTokens DEF If
<1> HIDE DEF link, h
<1>4. QED
  BY <1>1, <1>2, <1>3, ThenTokens

LEMMA DefinitionLeads ==
  ASSUME NEW n, NEW a, Outside(a), Kind(n) # doc.custom.kind, Kind(n) = "FootnoteDefinition"
  PROVE  /\ Leads(a, formatter(n, TRUE), Held(Ground(a, n), n, FALSE))
         /\ Leads(Held(a, n, FALSE), formatter(n, FALSE), a)
<1> {"section", "ol", "li"} \subseteq Tag
  BY DEF Tag
<1> DEFINE s == Append(a, "section")
           l == Append(s, "ol")
           g == IF footnote_ix = 0 THEN l ELSE a
           h == Append(a, "li")
           start == If(footnote_ix = 0, <<Open("section"), Lf, Open("ol"), Lf>>)
           links == put_footnote_backref
           more == If(links # <<>>, <<Lf>>)
<1>1. /\ formatter(n, TRUE) = start \o <<Open("li")>>
      /\ formatter(n, FALSE) = links \o more \o <<Close("li"), Lf>>
  BY DEF formatter, Rendered, MarkTag, SpanTag, render_footnote_definition
<1>2. Held(Ground(a, n), n, FALSE) = Append(g, "li") /\ Held(a, n, FALSE) = h
  BY DEF Held, Ground, SecondRow, MarkTag, SpanTag
<1>3. /\ Leads(a, <<Open("section")>>, s) /\ Outside(s) /\ Leads(s, <<Open("ol"), Lf>>, l) /\ Outside(l) /\ Outside(g)
      /\ Leads(g, <<Open("li")>>, Append(g, "li"))
      /\ Outside(h) /\ Leads(h, <<Close("li"), Lf>>, a)
  BY OpenTag, TagLines
<1>4. Leads(s, <<Lf>>, s) /\ Leads(h, <<Lf>>, h)
  BY <1>3, QuietToken DEF Outside, Quiet
<1>5. Leads(h, links, h) /\ Leads(h, more, h)
  BY <1>3, <1>4, LinksBack, NoTokens DEF If
<1>6. Leads(a, start, g)
  <2> HIDE DEF s, l
  <2>1. Leads(s, <<Lf, Open("ol"), Lf>>, l)
    BY <1>3, <1>4, ThreeTokens
  <2>2. Leads(a, <<Open("section"), Lf, Open("ol"), Lf>>, l)
    BY <1>3, <2>1, FourTokens
  <2>3. QED
    BY <2>2, NoTokens DEF If
<1> HIDE DEF g, h, start, links, more
<1>7. Leads(a, start \o <<Open("li")>>, Append(g, "li"))
  BY <1>3, <1>6, ThenTokens
<1>8. Leads(h, links \o more, h)
  BY <1>5, ThenTokens
<1>9. Leads(h, links \o more \o <<Close("li"), Lf>>, a)
  BY <1>3, <1>8, ThenTokens
<1>10. QED
  BY <1>1, <1>2, <1>7, <1>9

\* Every kind of node, entered and left
Ordinary == NodeKinds \ {"HeaderRow", "TableRow", "Table", "Heading", "FootnoteDefinition"}

InRow(n) == Kind(n) = "TableCell" => /\ Kind(Parent(n)) \in {"HeaderRow", "TableRow"}
                                     /\ Kind(Parent(Parent(n))) = "Table"

LEMMA OrdinaryFits ==
  ASSUME NEW n, NEW a, Outside(a), Kind(n) # doc.custom.kind, Kind(n) \in Ordinary, InRow(n)
  PROVE  Fits(n, a)
<1>1. \/ Kind(n) \in {"Emph", "Link", "Strong", "Escaped"} \cup DOMAIN MarkTag \cup DOMAIN SpanTag
      \/ Kind(n) \in {"BlockQuote", "MultilineBlockQuote", "Item", "TaskItem", "List", "BlockDirective",
                      "DescriptionDetails", "DescriptionList", "DescriptionTerm", "Subtext"}
      \/ Kind(n) \in Leaves
      \/ Kind(n) \in {"Document", "DescriptionItem", "FrontMatter", "CommentInline", "MultilineComment", "EscapedTag"}
      \/ Kind(n) = "Paragraph" \/ Kind(n) = "Image" \/ Kind(n) \in {"Alert", "LemmySpoiler"}
      \/ Kind(n) = "TableCell"
  BY DEF Ordinary, NodeKinds, Block, Spans, Leaves, MarkTag, SpanTag
<1>2. QED
  BY <1>1, SpansFit, BlocksFit, LeavesFit, OthersFit, ParagraphFits, ImageFits, AlertFits, CellFits DEF InRow

LEMMA EnterLeads ==
  ASSUME NEW n, NEW a, Outside(a), Kind(n) \in NodeKinds, InRow(n)
  PROVE  Leads(a, formatter(n, TRUE), Held(Ground(a, n), n, FALSE))
<1>1. CASE Kind(n) = doc.custom.kind
  BY <1>1, CustomFits DEF Ground, Fits
<1>2. CASE Kind(n) # doc.custom.kind /\ Kind(n) \in {"HeaderRow", "TableRow"}
  BY <1>2, RowLeads
<1>3. CASE Kind(n) # doc.custom.kind /\ Kind(n) = "FootnoteDefinition"
  BY <1>3, DefinitionLeads
<1>4. CASE Kind(n) # doc.custom.kind /\ Kind(n) \notin {"HeaderRow", "TableRow", "FootnoteDefinition"}
  <2>1. Ground(a, n) = a
    BY <1>4 DEF Ground, SecondRow
  <2>2. QED
    BY <1>4, <2>1, OrdinaryFits, TableLeads, HeadingLeads DEF Ordinary, Fits
<1>5. QED
  BY <1>1, <1>2, <1>3, <1>4

LEMMA LeaveLeads ==
  ASSUME NEW n, NEW a, Outside(a), Kind(n) \in NodeKinds, InRow(n),
         Kind(n) = "Heading" /\ Kind(n) # doc.custom.kind /\ Has("header_id_prefix") => heading # 0
  PROVE  Leads(Held(a, n, HasBody(n)), formatter(n, FALSE), a)
<1>1. CASE Kind(n) # doc.custom.kind /\ Kind(n) = "Table"
  BY <1>1, TableLeads
<1>2. CASE Kind(n) = doc.custom.kind \/ Kind(n) # "Table"
  <2>1. Held(a, n, HasBody(n)) = Held(a, n, FALSE)
    BY <1>2 DEF Held, MarkTag, SpanTag
  <2>2. QED
    BY <1>2, <2>1, CustomFits, RowLeads, DefinitionLeads, OrdinaryFits, HeadingLeads DEF Ordinary, Fits
<1>3. QED
  BY <1>1, <1>2

\* Only an image's attribute is no place for tags
LEMMA HeldMarks ==
  ASSUME NEW n, NEW a \in Seq(Mark), NEW b
  PROVE  /\ Held(a, n, b) \in Seq(Mark)
         /\ Outside(a) /\ (Kind(n) = "Image" => Kind(n) = doc.custom.kind) => Outside(Held(a, n, b))
<1>1. ASSUME NEW c \in Seq(Mark), NEW x \in Tag
      PROVE  Append(c, x) \in Seq(Mark) /\ (Outside(c) => Outside(Append(c, x)))
  <2>1. x \in Mark
    BY DEF Mark
  <2>2. Append(c, x) \in Seq(Mark)
    BY <2>1
  <2>3. QED
    BY <2>2, OpenTag
<1>2. \A c \in Seq(Mark) : Append(c, "quote") \in Seq(Mark)
  BY DEF Mark
<1>3. {"blockquote", "em", "h", "figure", "li", "a", "ol", "ul", "p", "strong", "table", "tbody", "th", "td", "thead",
       "tr", "div", "dd", "dl", "dt", "span", "sub", "details", "custom", "del", "mark", "ins", "sup", "u"} \subseteq Tag
  BY DEF Tag
<1>4. CASE Kind(n) = "Image" /\ Kind(n) # doc.custom.kind
  BY <1>1, <1>2, <1>3, <1>4 DEF Held, MarkTag, SpanTag
<1>5. CASE ~(Kind(n) = "Image" /\ Kind(n) # doc.custom.kind)
  <2>1. CASE Kind(n) # doc.custom.kind /\ Kind(n) \in {"Table", "HeaderRow", "Subtext"}
    <3>1. \/ Held(a, n, b) = Append(a, "table") \/ Held(a, n, b) = Append(Append(a, "table"), "tbody")
          \/ Held(a, n, b) = Append(Append(a, "thead"), "tr") \/ Held(a, n, b) = Append(Append(a, "p"), "sub")
      BY <2>1 DEF Held, MarkTag, SpanTag
    <3>2. QED
      BY <1>1, <1>3, <3>1
  <2>2. CASE Kind(n) \in DOMAIN MarkTag \cup DOMAIN SpanTag /\ Kind(n) # doc.custom.kind
    <3>1. \E x \in Tag : Held(a, n, b) = Append(a, x)
      BY <1>3, <2>2 DEF Held, MarkTag, SpanTag
    <3>2. QED
      BY <1>1, <3>1
  <2>3. CASE /\ Kind(n) # doc.custom.kind
             /\ Kind(n) \notin {"Table", "HeaderRow", "Subtext"} \cup DOMAIN MarkTag \cup DOMAIN SpanTag
    <3>1. \/ Held(a, n, b) = a \/ Held(a, n, b) = Append(a, "blockquote") \/ Held(a, n, b) = Append(a, "em")
          \/ Held(a, n, b) = Append(a, "h") \/ Held(a, n, b) = Append(a, "li") \/ Held(a, n, b) = Append(a, "a")
          \/ Held(a, n, b) = Append(a, "ol") \/ Held(a, n, b) = Append(a, "ul") \/ Held(a, n, b) = Append(a, "p")
          \/ Held(a, n, b) = Append(a, "strong") \/ Held(a, n, b) = Append(a, "th") \/ Held(a, n, b) = Append(a, "td")
          \/ Held(a, n, b) = Append(a, "tr") \/ Held(a, n, b) = Append(a, "div") \/ Held(a, n, b) = Append(a, "dd")
          \/ Held(a, n, b) = Append(a, "dl") \/ Held(a, n, b) = Append(a, "dt") \/ Held(a, n, b) = Append(a, "span")
          \/ Held(a, n, b) = Append(a, "details")
      BY <1>5, <2>3 DEF Held, MarkTag, SpanTag
    <3>2. QED
      BY <1>1, <1>3, <3>1
  <2>4. CASE Kind(n) = doc.custom.kind
    BY <1>1, <1>3, <2>4 DEF Held
  <2>5. QED
    BY <2>1, <2>2, <2>3, <2>4
<1>6. QED
  BY <1>4, <1>5

-----------------------------------------------------------------------------
(***************************************************************************)
(* The tree                                                                *)
(***************************************************************************)
Parsed ==
  /\ IsDocument(doc)
  /\ doc.custom.kind \notin {"Document", "Table", "TableRow"}
  /\ doc.custom.children \in {"HTML", "Plain", "Skip"}

Size == Len(doc.kind)

LEMMA TreeFacts ==
  ASSUME Parsed
  PROVE  /\ Size \in Nat /\ Size > 0 /\ DocNodes = 1..Size
         /\ Kind(1) = "Document" /\ Parent(1) = 0
         /\ \A n \in DocNodes : /\ Kind(n) = doc.kind[n] /\ Kind(n) \in NodeKinds
                                /\ Parent(n) = doc.parent[n] /\ Parent(n) \in Nat /\ Parent(n) < n
         /\ \A n \in DocNodes \ {1} :
              /\ Parent(n) \in DocNodes
              /\ can_contain_type(Kind(Parent(n)), Kind(n))
              /\ Kind(n) \in {"HeaderRow", "TableRow"} <=> Kind(Parent(n)) = "Table"
              /\ Kind(n) = "HeaderRow" => \A m \in 2..(n - 1) : Parent(m) # Parent(n)
              /\ (\A m \in 2..(n - 1) : Parent(m) # Parent(n)) /\ Kind(Parent(n)) = "Table" => Kind(n) = "HeaderRow"
              /\ Kind(n) = "TableCell" => Kind(Parent(n)) \in {"HeaderRow", "TableRow"}
<1>1. /\ doc.kind \in Seq(NodeKinds) /\ doc.parent \in Seq(Nat) /\ Len(doc.parent) = Len(doc.kind)
      /\ Len(doc.kind) > 0 /\ doc.kind[1] = "Document" /\ doc.parent[1] = 0
  BY DEF Parsed, IsDocument
<1>2. Size \in Nat /\ Size > 0 /\ DocNodes = 1..Size
  BY <1>1 DEF Size, DocNodes
<1>3. \A n \in DocNodes : Kind(n) = doc.kind[n] /\ Parent(n) = doc.parent[n] /\ n \in 1..Size /\ n # 0
  BY <1>2 DEF Kind, Parent
<1>4. \A n \in DocNodes : Kind(n) \in NodeKinds /\ Parent(n) \in Nat
  BY <1>1, <1>2, <1>3 DEF Size
<1>5. ASSUME NEW n \in DocNodes \ {1}
      PROVE  /\ Parent(n) \in DocNodes /\ Parent(n) < n
             /\ can_contain_type(Kind(Parent(n)), Kind(n))
             /\ Kind(n) \in {"HeaderRow", "TableRow"} <=> Kind(Parent(n)) = "Table"
             /\ Kind(n) = "HeaderRow" => \A m \in 2..(n - 1) : Parent(m) # Parent(n)
             /\ (\A m \in 2..(n - 1) : Parent(m) # Parent(n)) /\ Kind(Parent(n)) = "Table" => Kind(n) = "HeaderRow"
             /\ Kind(n) = "TableCell" => Kind(Parent(n)) \in {"HeaderRow", "TableRow"}
  <2> DEFINE p == doc.parent[n]
             above == doc.kind[p]
             first == \A m \in 2..(n - 1) : doc.parent[m] # doc.parent[n]
  <2>1. n \in 2..Len(doc.kind)
    BY <1>2 DEF Size
  <2>2. /\ p \in 1..(n - 1)
        /\ can_contain_type(above, doc.kind[n])
        /\ doc.kind[n] \in {"HeaderRow", "TableRow"} <=> above = "Table"
        /\ doc.kind[n] = "HeaderRow" <=> above = "Table" /\ first
        /\ doc.kind[n] = "TableCell" => above \in {"HeaderRow", "TableRow"}
    BY <2>1 DEF Parsed, IsDocument
  <2>3. p \in DocNodes /\ p < n /\ \A m \in 2..(n - 1) : m \in DocNodes
    BY <1>2, <2>1, <2>2
  <2>4. Parent(n) = p /\ Kind(Parent(n)) = above /\ Kind(n) = doc.kind[n]
    BY <1>3, <2>3
  <2>5. first <=> \A m \in 2..(n - 1) : Parent(m) # Parent(n)
    BY <1>3, <2>3, <2>4
  <2> HIDE DEF p, above, first
  <2>6. QED
    BY <2>2, <2>3, <2>4, <2>5
<1>6. 1 \in DocNodes
  BY <1>2
<1>7. Kind(1) = "Document" /\ Parent(1) = 0
  BY <1>1, <1>3, <1>6
<1>8. QED
  BY <1>2, <1>3, <1>4, <1>5, <1>7

LEMMA HighestIs ==
  ASSUME NEW N \in Nat, NEW S, S \subseteq 1..N, S # {}
  PROVE  Highest(S) \in S /\ \A k \in S : k <= Highest(S)
<1> DEFINE T == {N - k : k \in S}
<1>1. ASSUME NEW k \in S PROVE k \in 1..N /\ N - k \in Nat /\ N - k \in T
  OBVIOUS
<1>2. T \in SUBSET Nat
  BY <1>1
<1>3. PICK k \in S : TRUE
  OBVIOUS
<1>4. N - k \in T
  BY <1>1, <1>3
<1>5. PICK d \in T : \A e \in T : d <= e
  BY <1>2, <1>4, FirstExists
<1>6. PICK m \in S : d = N - m
  BY <1>5
<1>7. ASSUME NEW i \in S PROVE i <= m
  <2>1. N - m <= N - i
    BY <1>1, <1>5, <1>6
  <2>2. QED
    BY <1>1, <2>1
<1>8. QED
  BY <1>6, <1>7 DEF Highest

LEMMA UptoExists ==
  ASSUME NEW n, Len(doc.kind) \in Nat
  PROVE  \E h : h = [k \in 0..Len(doc.kind) |-> IF k = 0 THEN <<>> ELSE WithKid(h[k - 1], n, k)]
<1> DEFINE N == Len(doc.kind)
           Upto(m, g) == g[0] = <<>> /\ \A k \in 1..m : g[k] = WithKid(g[k - 1], n, k)
           S == {m \in Nat : \E g : Upto(m, g)}
<1> HIDE DEF N
<1>1. 0 \in S
  <2>1. Upto(0, [k \in {0} |-> <<>>])
    OBVIOUS
  <2>2. QED
    BY <2>1
<1>2. ASSUME NEW m \in S PROVE m + 1 \in S
  <2>1. PICK g : Upto(m, g)
    OBVIOUS
  <2> DEFINE e == [k \in 0..(m + 1) |-> IF k <= m THEN g[k] ELSE WithKid(g[m], n, m + 1)]
  <2>2. m \in Nat /\ e[0] = <<>>
    BY <2>1
  <2>3. ASSUME NEW k \in 1..(m + 1) PROVE e[k] = WithKid(e[k - 1], n, k)
    <3>1. k - 1 \in 0..(m + 1) /\ k - 1 <= m /\ k \in 0..(m + 1) /\ e[k - 1] = g[k - 1]
      BY <2>2
    <3>2. CASE k <= m
      <4>1. k \in 1..m /\ e[k] = g[k]
        BY <2>2, <3>1, <3>2
      <4>2. QED
        BY <2>1, <3>1, <4>1
    <3>3. CASE k = m + 1
      <4>1. ~(k <= m) /\ k - 1 = m
        BY <2>2, <3>3
      <4>2. e[k] = WithKid(g[m], n, m + 1)
        BY <3>1, <4>1
      <4>3. QED
        BY <3>1, <3>3, <4>1, <4>2
    <3>4. QED
      BY <2>2, <3>2, <3>3
  <2> HIDE DEF e
  <2>4. QED
    BY <2>2, <2>3
<1>3. S = Nat /\ N \in Nat
  BY <1>1, <1>2, EveryNumber DEF N
<1>4. PICK g : Upto(N, g)
  BY <1>3
<1> DEFINE h == [k \in 0..N |-> g[k]]
<1>5. ASSUME NEW k \in 0..N
      PROVE  h[k] = IF k = 0 THEN <<>> ELSE WithKid(h[k - 1], n, k)
  <2>1. CASE k = 0
    BY <1>4, <2>1
  <2>2. CASE k # 0
    <3>1. k \in 1..N /\ k - 1 \in 0..N
      BY <1>3, <2>2
    <3>2. QED
      BY <1>4, <2>2, <3>1
  <2>3. QED
    BY <2>1, <2>2
<1>6. h = [k \in 0..N |-> IF k = 0 THEN <<>> ELSE WithKid(h[k - 1], n, k)]
  <2>1. h = [k \in 0..N |-> h[k]]
    OBVIOUS
  <2> HIDE DEF h
  <2>2. QED
    BY <1>5, <2>1
<1> HIDE DEF h
<1>7. QED
  BY <1>6 DEF N

\* The children of a node, each once, in their order
LEMMA KidsAre ==
  ASSUME Parsed, NEW n
  PROVE  /\ Kids(n) \in Seq(DocNodes)
         /\ \A i \in 1..Len(Kids(n)) : doc.parent[Kids(n)[i]] = n
         /\ \A i, j \in 1..Len(Kids(n)) : i < j => Kids(n)[i] < Kids(n)[j]
         /\ \A m \in DocNodes : doc.parent[m] = n => \E i \in 1..Len(Kids(n)) : Kids(n)[i] = m
<1>1. Size \in Nat /\ DocNodes = 1..Size /\ Len(doc.kind) \in Nat
  BY TreeFacts DEF Size
<1> DEFINE upto[k \in 0..Len(doc.kind)] == IF k = 0 THEN <<>> ELSE WithKid(upto[k - 1], n, k)
           Sorted(s, k) == /\ s \in Seq(1..k)
                           /\ \A i \in 1..Len(s) : doc.parent[s[i]] = n
                           /\ \A i, j \in 1..Len(s) : i < j => s[i] < s[j]
                           /\ \A m \in 1..k : doc.parent[m] = n => \E i \in 1..Len(s) : s[i] = m
<1>2. Kids(n) = upto[Len(doc.kind)]
  BY DEF Kids
<1>3. upto = [k \in 0..Len(doc.kind) |-> IF k = 0 THEN <<>> ELSE WithKid(upto[k - 1], n, k)]
  BY <1>1, UptoExists
<1> HIDE DEF upto
<1>4. \A k \in 0..Len(doc.kind) : upto[k] = IF k = 0 THEN <<>> ELSE WithKid(upto[k - 1], n, k)
  BY <1>3, Zenon
<1> DEFINE S == {k \in Nat : k <= Size => Sorted(upto[k], k)}
<1>5. 0 \in S
  <2>1. upto[0] = <<>>
    BY <1>1, <1>4 DEF Size
  <2>2. <<>> \in Seq(1..0) /\ Len(<<>>) = 0 /\ 1..0 = {}
    OBVIOUS
  <2>3. Sorted(<<>>, 0)
    BY <2>2
  <2>4. QED
    BY <2>1, <2>3
<1>6. ASSUME NEW k \in S PROVE k + 1 \in S
  <2> SUFFICES ASSUME k + 1 <= Size PROVE Sorted(upto[k + 1], k + 1)
    OBVIOUS
  <2>1. k \in Nat /\ k <= Size /\ k + 1 \in 0..Len(doc.kind) /\ k + 1 # 0 /\ k + 1 - 1 = k
    BY <1>1 DEF Size
  <2>2. upto[k + 1] = IF doc.parent[k + 1] = n THEN Append(upto[k], k + 1) ELSE upto[k]
    BY <1>4, <2>1 DEF WithKid
  <2> DEFINE s == upto[k]
             t == upto[k + 1]
  <2>3. Sorted(s, k)
    BY <2>1
  <2>4. s \in Seq(1..(k + 1)) /\ s \in Seq(1..k) /\ Len(s) \in Nat /\ \A i \in 1..Len(s) : s[i] \in 1..k
    BY <2>1, <2>3
  <2>5. CASE doc.parent[k + 1] = n
    <3> DEFINE l == Len(s)
    <3>1. /\ t \in Seq(1..(k + 1)) /\ Len(t) = l + 1 /\ t[l + 1] = k + 1
          /\ \A i \in 1..l : t[i] = s[i]
      BY <2>1, <2>2, <2>4, <2>5
    <3> HIDE DEF s, t, l
    <3>2. \A i \in 1..Len(t) : i \in 1..l \/ i = l + 1
      BY <2>4, <3>1 DEF l
    <3>3. \A i \in 1..Len(t) : doc.parent[t[i]] = n
      BY <2>3, <2>5, <3>1, <3>2 DEF l
    <3>4. ASSUME NEW i \in 1..Len(t), NEW j \in 1..Len(t), i < j
          PROVE  t[i] < t[j]
      <4>1. i \in 1..l
        BY <2>4, <3>1, <3>4 DEF l
      <4>2. CASE j \in 1..l
        BY <2>3, <3>1, <3>4, <4>1, <4>2 DEF l
      <4>3. CASE j = l + 1
        <5>1. s[i] \in 1..k /\ t[i] = s[i] /\ t[j] = k + 1
          BY <2>4, <3>1, <4>1, <4>3 DEF l
        <5>2. QED
          BY <2>1, <5>1
      <4>4. QED
        BY <3>2, <4>2, <4>3
    <3>5. ASSUME NEW m \in 1..(k + 1), doc.parent[m] = n
          PROVE  \E i \in 1..Len(t) : t[i] = m
      <4>1. CASE m = k + 1
        <5>1. l + 1 \in 1..Len(t)
          BY <2>4, <3>1 DEF l
        <5>2. QED
          BY <3>1, <4>1, <5>1
      <4>2. CASE m # k + 1
        <5>1. m \in 1..k
          BY <2>1, <4>2
        <5>2. PICK i \in 1..l : s[i] = m
          BY <2>3, <3>5, <5>1 DEF l
        <5>3. i \in 1..Len(t)
          BY <2>4, <3>1 DEF l
        <5>4. QED
          BY <3>1, <5>2, <5>3
      <4>3. QED
        BY <4>1, <4>2
    <3>6. QED
      BY <3>1, <3>3, <3>4, <3>5 DEF t
  <2>6. CASE doc.parent[k + 1] # n
    <3>1. t = s
      BY <2>2, <2>6
    <3> HIDE DEF s, t
    <3>2. \A m \in 1..(k + 1) : doc.parent[m] = n => m \in 1..k
      BY <2>1, <2>6
    <3>3. QED
      BY <2>3, <2>4, <3>1, <3>2 DEF t
  <2>7. QED
    BY <2>5, <2>6
<1>7. S = Nat
  BY <1>5, <1>6, EveryNumber
<1>8. Sorted(upto[Size], Size)
  BY <1>1, <1>7
<1>9. QED
  BY <1>1, <1>2, <1>8 DEF Size

LEMMA BeforeIs ==
  ASSUME Parsed, NEW n \in DocNodes
  PROVE  /\ Before(n) = {m \in DocNodes : Parent(m) = Parent(n) /\ m < n}
         /\ Before(n) # {} => Highest(Before(n)) \in Before(n) /\ \A m \in Before(n) : m <= Highest(Before(n))
<1>1. Size \in Nat /\ DocNodes = 1..Size /\ \A m \in DocNodes : Parent(m) = doc.parent[m]
  BY TreeFacts
<1>2. Before(n) = {m \in DocNodes : Parent(m) = Parent(n) /\ m < n}
  BY <1>1 DEF Before
<1>3. Before(n) \subseteq 1..Size
  BY <1>1, <1>2
<1>4. QED
  BY <1>1, <1>2, <1>3, HighestIs

\* Only one row opens the body, and only where the table that is left closes it
LEMMA OneSecondRow ==
  ASSUME Parsed, NEW r \in DocNodes, SecondRow(r)
  PROVE  /\ r # 1 /\ Kind(Parent(r)) = "Table" /\ HasBody(Parent(r))
         /\ \A q \in DocNodes : SecondRow(q) /\ Parent(q) = Parent(r) => q = r
<1>1. r # 1 /\ Kind(r) = "TableRow"
  BY TreeFacts DEF SecondRow
<1>2. Kind(Parent(r)) = "Table" /\ Parent(r) \in DocNodes
  BY <1>1, TreeFacts
<1>3. HasBody(Parent(r))
  <2> DEFINE s == Kids(Parent(r))
  <2>1. /\ s \in Seq(DocNodes)
        /\ \A i, j \in 1..Len(s) : i < j => s[i] < s[j]
        /\ \A m \in DocNodes : doc.parent[m] = Parent(r) => \E i \in 1..Len(s) : s[i] = m
    BY KidsAre
  <2>2. PICK m \in DocNodes : Parent(m) = Parent(r) /\ m < r
    BY BeforeIs DEF SecondRow
  <2>3. doc.parent[m] = Parent(r) /\ doc.parent[r] = Parent(r)
    BY <2>2, TreeFacts
  <2> HIDE DEF s
  <2>4. PICK i \in 1..Len(s) : s[i] = m
    BY <2>1, <2>3
  <2>5. PICK j \in 1..Len(s) : s[j] = r
    BY <2>1, <2>3
  <2>6. m # r
    BY <2>2, TreeFacts
  <2>7. Len(s) \in Nat /\ Len(s) > 1 /\ s # <<>>
    BY <2>1, <2>4, <2>5, <2>6
  <2>8. 1 \in 1..Len(s) /\ Len(s) \in 1..Len(s) /\ 1 < Len(s)
    BY <2>7
  <2>9. s[1] < s[Len(s)] /\ s[1] \in DocNodes /\ s[Len(s)] \in DocNodes
    BY <2>1, <2>8
  <2>10. s[1] # s[Len(s)]
    BY <2>9, TreeFacts
  <2>11. QED
    BY <2>7, <2>10 DEF HasBody, Last, s
<1>4. ASSUME NEW q \in DocNodes, NEW p \in DocNodes, SecondRow(q), SecondRow(p), Parent(q) = Parent(p), q < p
      PROVE  FALSE
  <2> DEFINE h == Highest(Before(p))
  <2>1. /\ Before(p) = {m \in DocNodes : Parent(m) = Parent(p) /\ m < p} /\ h \in Before(p)
        /\ \A m \in Before(p) : m <= h
        /\ Kind(h) = "HeaderRow"
    BY <1>4, BeforeIs DEF SecondRow
  <2> HIDE DEF h
  <2>2. h \in DocNodes /\ Parent(h) = Parent(p) /\ q <= h
    BY <1>4, <2>1
  <2>3. PICK m \in DocNodes : Parent(m) = Parent(q) /\ m < q
    BY <1>4, BeforeIs DEF SecondRow
  <2>4. /\ m \in Nat /\ q \in Nat /\ h \in Nat /\ m >= 1
        /\ h # 1 /\ Kind(1) = "Document"
    BY <2>1, TreeFacts
  <2>5. \A k \in 2..(h - 1) : Parent(k) # Parent(h)
    BY <2>1, <2>2, <2>4, TreeFacts
  <2>6. m = 1
    BY <1>4, <2>2, <2>3, <2>4, <2>5
  <2>7. Parent(h) = 0 /\ Parent(h) \in DocNodes
    BY <1>4, <2>2, <2>3, <2>4, <2>6, TreeFacts
  <2>8. QED
    BY <2>7, TreeFacts
<1>5. \A q \in DocNodes : SecondRow(q) /\ Parent(q) = Parent(r) => ~(q < r) /\ ~(r < q)
  BY <1>4
<1>6. \A q \in DocNodes : ~(q < r) /\ ~(r < q) => q = r
  BY TreeFacts
<1>7. QED
  BY <1>1, <1>2, <1>3, <1>5, <1>6

LEMMA BodyHasRow ==
  ASSUME Parsed, NEW t \in DocNodes, Kind(t) = "Table", HasBody(t)
  PROVE  \E i \in 1..Len(Kids(t)) : SecondRow(Kids(t)[i])
<1> DEFINE s == Kids(t)
<1>1. /\ s \in Seq(DocNodes)
      /\ \A i \in 1..Len(s) : doc.parent[s[i]] = t
      /\ \A i, j \in 1..Len(s) : i < j => s[i] < s[j]
      /\ \A m \in DocNodes : doc.parent[m] = t => \E i \in 1..Len(s) : s[i] = m
  BY KidsAre
<1>2. s # <<>> /\ s[Len(s)] # s[1]
  BY DEF HasBody, Last, s
<1> HIDE DEF s
<1>3. Len(s) \in Nat /\ Len(s) > 1 /\ 1 \in 1..Len(s) /\ 2 \in 1..Len(s)
  BY <1>1, <1>2
<1> DEFINE h == s[1]
           r == s[2]
<1>4. h \in DocNodes /\ r \in DocNodes /\ h < r /\ Parent(h) = t /\ Parent(r) = t
  <2>1. h \in DocNodes /\ r \in DocNodes /\ h < r /\ doc.parent[h] = t /\ doc.parent[r] = t
    BY <1>1, <1>3
  <2> HIDE DEF h, r
  <2>2. QED
    BY <2>1, TreeFacts
<1>5. \A i \in 1..Len(s) : i = 1 \/ i = 2 \/ 2 < i
  BY <1>3
<1>6. \A m \in DocNodes : Parent(m) = t => \E i \in 1..Len(s) : s[i] = m
  BY <1>1, TreeFacts
<1>7. ASSUME NEW m \in DocNodes, Parent(m) = t PROVE m = h \/ m = r \/ r < m
  <2>1. PICK i \in 1..Len(s) : s[i] = m
    BY <1>6, <1>7
  <2>2. QED
    BY <1>1, <1>3, <1>5, <2>1
<1> HIDE DEF h, r
<1>8. DocNodes = 1..Size /\ Size \in Nat /\ t # 0 /\ h # 1 /\ r # 1
  BY <1>4, TreeFacts
<1>9. \A m \in 2..(h - 1) : m \in DocNodes /\ m < h
  BY <1>4, <1>8
<1>10. ASSUME NEW m \in 2..(h - 1) PROVE Parent(m) # Parent(h)
  BY <1>4, <1>7, <1>8, <1>9
<1>11. Kind(h) = "HeaderRow"
  BY <1>4, <1>8, <1>10, TreeFacts
<1>12. Kind(r) = "TableRow"
  <2>1. h \in 2..(r - 1)
    BY <1>4, <1>8
  <2>2. Kind(r) # "HeaderRow"
    BY <1>4, <1>8, <2>1, TreeFacts
  <2>3. QED
    BY <1>4, <1>8, <2>2, TreeFacts
<1>13. Before(r) = {h}
  <2>1. Before(r) = {m \in DocNodes : Parent(m) = t /\ m < r}
    BY <1>4, BeforeIs
  <2>2. \A m \in DocNodes : Parent(m) = t /\ m < r => m = h
    BY <1>4, <1>7, <1>8
  <2>3. QED
    BY <1>4, <2>1, <2>2
<1>14. Highest({h}) = h
  BY <1>4, <1>8, <1>13, BeforeIs
<1>15. SecondRow(r)
  BY <1>11, <1>12, <1>13, <1>14 DEF SecondRow
<1>16. QED
  BY <1>3, <1>15 DEF r, s

-----------------------------------------------------------------------------
(***************************************************************************)
(* The stack                                                               *)
(***************************************************************************)
Entry == [node : Nat, rendering : {"HTML", "Plain"}, phase : {"Pre", "Post"}]

LEMMA ChildrenAre ==
  ASSUME Parsed, NEW n, NEW r \in {"HTML", "Plain", "Skip"}, NEW c, c = Children(n, r)
  PROVE  /\ c \in Seq(Entry)
         /\ \A i \in 1..Len(c) : /\ c[i].node \in DocNodes /\ Parent(c[i].node) = n /\ c[i].phase = "Pre"
                                 /\ c[i].rendering = r /\ r # "Skip"
         /\ \A i, j \in 1..Len(c) : i < j => c[i].node # c[j].node
         /\ r # "Skip" => \A k \in 1..Len(Kids(n)) : \E i \in 1..Len(c) : c[i].node = Kids(n)[k]
<1> DEFINE s == Kids(n)
<1>1. /\ s \in Seq(DocNodes) /\ Len(s) \in Nat
      /\ \A i \in 1..Len(s) : doc.parent[s[i]] = n
      /\ \A i, j \in 1..Len(s) : i < j => s[i] < s[j]
  BY KidsAre
<1>2. CASE r = "Skip"
  <2>1. c = <<>>
    BY <1>2 DEF Children
  <2>2. <<>> \in Seq(Entry) /\ Len(<<>>) = 0 /\ 1..0 = {}
    OBVIOUS
  <2>3. QED
    BY <1>2, <2>1, <2>2
<1>3. CASE r # "Skip"
  <2> HIDE DEF s
  <2> DEFINE v == Reverse(s)
  <2>1. v = [i \in 1..Len(s) |-> s[(Len(s) - i) + 1]]
    BY DEF Reverse
  <2>2. DOMAIN v = 1..Len(s) /\ \A i \in 1..Len(s) : v[i] = s[(Len(s) - i) + 1] /\ (Len(s) - i) + 1 \in 1..Len(s)
    BY <1>1, <2>1
  <2> HIDE DEF v
  <2>3. c = [i \in 1..Len(s) |-> [node |-> v[i], rendering |-> r, phase |-> "Pre"]]
    BY <1>3, <2>2 DEF Children, v, s
  <2>4. \A i \in 1..Len(s) : /\ c[i] = [node |-> v[i], rendering |-> r, phase |-> "Pre"]
                             /\ v[i] \in DocNodes /\ doc.parent[v[i]] = n
    BY <1>1, <2>2, <2>3
  <2>5. \A m \in DocNodes : m \in Nat /\ Parent(m) = doc.parent[m]
    BY TreeFacts
  <2>6. ASSUME NEW i \in 1..Len(s)
        PROVE  /\ c[i] \in Entry /\ c[i].node = v[i] /\ c[i].rendering = r /\ c[i].phase = "Pre"
               /\ v[i] \in DocNodes /\ Parent(v[i]) = n
    <3>1. c[i] = [node |-> v[i], rendering |-> r, phase |-> "Pre"] /\ v[i] \in DocNodes /\ doc.parent[v[i]] = n
      BY <2>4
    <3>2. v[i] \in Nat /\ Parent(v[i]) = n /\ r \in {"HTML", "Plain"}
      BY <1>3, <2>5, <3>1
    <3>3. QED
      BY <3>1, <3>2 DEF Entry
  <2>7. c \in Seq(Entry) /\ Len(c) = Len(s)
    BY <1>1, <2>3, <2>6
  <2>8. ASSUME NEW i \in 1..Len(s), NEW j \in 1..Len(s), i < j
        PROVE  c[i].node # c[j].node
    <3>1. v[j] < v[i]
      BY <1>1, <2>2, <2>8
    <3>2. v[i] \in Nat /\ v[j] \in Nat
      BY <2>4, <2>5
    <3>3. QED
      BY <2>6, <3>1, <3>2
  <2>9. ASSUME NEW k \in 1..Len(s) PROVE \E i \in 1..Len(s) : c[i].node = s[k]
    <3> DEFINE i == (Len(s) - k) + 1
    <3>1. i \in 1..Len(s) /\ (Len(s) - i) + 1 = k
      BY <1>1
    <3>2. c[i].node = s[k]
      BY <2>2, <2>6, <3>1
    <3>3. QED
      BY <3>1, <3>2
  <2>10. \A i \in 1..Len(c) : /\ c[i].node \in DocNodes /\ Parent(c[i].node) = n /\ c[i].phase = "Pre"
                               /\ c[i].rendering = r /\ r # "Skip"
    BY <1>3, <2>6, <2>7
  <2>11. \A i, j \in 1..Len(c) : i < j => c[i].node # c[j].node
    BY <2>7, <2>8
  <2>12. \A k \in 1..Len(Kids(n)) : \E i \in 1..Len(c) : c[i].node = Kids(n)[k]
    BY <2>7, <2>9 DEF s
  <2>13. QED
    BY <2>7, <2>10, <2>11, <2>12
<1>4. QED
  BY <1>2, <1>3

-----------------------------------------------------------------------------
(***************************************************************************)
(* What is open below each node                                            *)
(***************************************************************************)
\* open[n] below node n, if ground is open around the root and body are the tables with their body
Nesting(open, ground, body) ==
  /\ open[0] = ground
  /\ \A n \in DocNodes : open[n] = Held(open[Parent(n)], n, n \in body)

LEMMA NestingExists ==
  ASSUME Parsed, NEW ground, NEW body
  PROVE  \E open : Nesting(open, ground, body)
<1> DEFINE Upto(k, o) == o[0] = ground /\ \A n \in 1..k : n \in DocNodes => o[n] = Held(o[Parent(n)], n, n \in body)
           S == {k \in Nat : \E o : Upto(k, o)}
<1>1. 0 \in S
  <2>1. Upto(0, [k \in {0} |-> ground])
    OBVIOUS
  <2>2. QED
    BY <2>1
<1>2. ASSUME NEW k \in S PROVE k + 1 \in S
  <2>1. PICK o : Upto(k, o)
    OBVIOUS
  <2> DEFINE x == Held(o[Parent(k + 1)], k + 1, k + 1 \in body)
             e == [m \in 0..(k + 1) |-> IF m <= k THEN o[m] ELSE x]
  <2>2. k \in Nat /\ \A m \in 0..k : m \in 0..(k + 1) /\ m <= k
    OBVIOUS
  <2>3. e[0] = ground /\ \A m \in 0..k : e[m] = o[m]
    BY <2>1, <2>2
  <2>4. k + 1 \in 0..(k + 1) /\ ~(k + 1 <= k)
    BY <2>2
  <2>5. e[k + 1] = x
    BY <2>4
  <2> HIDE DEF e
  <2>6. ASSUME NEW n \in 1..(k + 1), n \in DocNodes PROVE e[n] = Held(e[Parent(n)], n, n \in body)
    <3>1. Parent(n) \in Nat /\ Parent(n) < n
      BY <2>6, TreeFacts
    <3>2. Parent(n) \in 0..k
      BY <2>2, <3>1
    <3>3. CASE n = k + 1
      BY <2>3, <2>5, <3>2, <3>3
    <3>4. CASE n # k + 1
      <4>1. n \in 1..k /\ n \in 0..k
        BY <2>2, <3>4
      <4>2. QED
        BY <2>1, <2>3, <2>6, <3>2, <4>1
    <3>5. QED
      BY <3>3, <3>4
  <2> HIDE DEF x
  <2>7. Upto(k + 1, e)
    BY <2>3, <2>6
  <2>8. QED
    BY <2>2, <2>7
<1>3. S = Nat
  BY <1>1, <1>2, EveryNumber
<1>4. Size \in Nat /\ DocNodes = 1..Size
  BY TreeFacts
<1>5. PICK o : Upto(Size, o)
  BY <1>3, <1>4
<1>6. QED
  BY <1>4, <1>5 DEF Nesting

Agree(B, C, t) == \A n \in DocNodes : n < t => (n \in B <=> n \in C)

\* Only what is above a node decides
LEMMA NestingAgrees ==
  ASSUME Parsed, NEW o, NEW p, NEW ground, NEW B, NEW C, NEW t \in Nat,
         Nesting(o, ground, B), Nesting(p, ground, C), Agree(B, C, t)
  PROVE  \A n \in 0..Size : n < t => o[n] = p[n]
<1>1. Size \in Nat /\ DocNodes = 1..Size
  BY TreeFacts
<1> DEFINE S == {k \in Nat : \A n \in 0..k : n \in 0..Size /\ n < t => o[n] = p[n]}
<1>2. 0 \in S
  BY DEF Nesting
<1>3. ASSUME NEW k \in S PROVE k + 1 \in S
  <2> SUFFICES ASSUME NEW n \in 0..(k + 1), n \in 0..Size, n < t PROVE o[n] = p[n]
    OBVIOUS
  <2>1. k \in Nat /\ \A m \in 0..k : m \in 0..Size /\ m < t => o[m] = p[m]
    OBVIOUS
  <2>2. CASE n = k + 1
    <3>1. n \in DocNodes /\ n # 0
      BY <1>1, <2>1, <2>2
    <3>2. Parent(n) \in Nat /\ Parent(n) < n
      BY <3>1, TreeFacts
    <3>3. Parent(n) \in 0..k /\ Parent(n) \in 0..Size /\ Parent(n) < t
      BY <1>1, <2>1, <2>2, <3>2
    <3>4. o[Parent(n)] = p[Parent(n)] /\ (n \in B) = (n \in C)
      BY <2>1, <3>1, <3>3 DEF Agree
    <3>5. QED
      BY <3>1, <3>4 DEF Nesting
  <2>3. CASE n # k + 1
    BY <2>1, <2>3
  <2>4. QED
    BY <2>2, <2>3
<1>4. S = Nat
  BY <1>2, <1>3, EveryNumber
<1>5. QED
  BY <1>1, <1>4

LEMMA NestingMarks ==
  ASSUME Parsed, NEW o, NEW ground \in Seq(Mark), NEW B, Nesting(o, ground, B)
  PROVE  \A n \in 0..Size : o[n] \in Seq(Mark)
<1>1. Size \in Nat /\ DocNodes = 1..Size
  BY TreeFacts
<1> DEFINE S == {k \in Nat : \A n \in 0..k : n \in 0..Size => o[n] \in Seq(Mark)}
<1>2. 0 \in S
  BY DEF Nesting
<1>3. ASSUME NEW k \in S PROVE k + 1 \in S
  <2> SUFFICES ASSUME NEW n \in 0..(k + 1), n \in 0..Size PROVE o[n] \in Seq(Mark)
    OBVIOUS
  <2>1. k \in Nat /\ \A m \in 0..k : m \in 0..Size => o[m] \in Seq(Mark)
    OBVIOUS
  <2>2. CASE n = k + 1
    <3>1. n \in DocNodes /\ n # 0
      BY <1>1, <2>1, <2>2
    <3>2. Parent(n) \in Nat /\ Parent(n) < n
      BY <3>1, TreeFacts
    <3>3. Parent(n) \in 0..k /\ Parent(n) \in 0..Size
      BY <1>1, <2>1, <2>2, <3>2
    <3>4. o[Parent(n)] \in Seq(Mark)
      BY <2>1, <3>3
    <3>5. QED
      BY <3>1, <3>4, HeldMarks DEF Nesting
  <2>3. CASE n # k + 1
    BY <2>1, <2>3
  <2>4. QED
    BY <2>2, <2>3
<1>4. S = Nat
  BY <1>2, <1>3, EveryNumber
<1>5. QED
  BY <1>1, <1>4

-----------------------------------------------------------------------------
(***************************************************************************)
(* The stack: the nodes that are entered and not yet left are a path, and  *)
(* what else is on it are children of theirs that are still to come.       *)
(***************************************************************************)
NodeAt(s, j) == IF j = 0 THEN 0 ELSE s[j].node

\* j is the last of the entered nodes below k (0: none is)
Near(s, j, k) ==
  /\ j \in 0..(k - 1)
  /\ j # 0 => s[j].phase = "Post"
  /\ \A i \in (j + 1)..(k - 1) : s[i].phase = "Pre"

Typed(s) ==
  /\ s \in Seq(Entry)
  /\ \A k \in 1..Len(s) : s[k].node \in DocNodes /\ (s[k].phase = "Post" => s[k].rendering = "HTML")

Nested(s) ==
  \A k \in 1..(Len(s) + 1) :
    \E j \in 0..(k - 1) :
      /\ Near(s, j, k)
      /\ k <= Len(s) /\ s[k].rendering = "HTML" =>
           /\ Parent(s[k].node) = NodeAt(s, j)
           /\ j # 0 => formatter_children(s[j].node) = "HTML"

Deeper(s) ==
  \A i, k \in 1..Len(s) :
    i < k /\ s[i].phase = "Post" /\ s[k].rendering = "HTML" => s[i].node < s[k].node

Once(s) ==
  \A i, k \in 1..Len(s) :
    i < k /\ s[i].rendering = "HTML" /\ s[k].rendering = "HTML" => s[i].node # s[k].node

\* There are no blocks in a heading
Flat(s) ==
  \A i, k \in 1..Len(s) :
    i < k /\ s[i].phase = "Post" /\ Kind(s[i].node) = "Heading" /\ s[k].rendering = "HTML" =>
      Kind(s[k].node) \notin Block

\* The heading that is open has its id and text kept
Kept(s, h) ==
  \A k \in 1..Len(s) :
    /\ s[k].phase = "Post" /\ Kind(s[k].node) = "Heading" /\ Kind(s[k].node) # doc.custom.kind
    /\ Has("header_id_prefix")
    => h # 0

\* The tables whose second row is still to come, and those whose body has begun (or is over)
Waits(s, m) ==
  \E k \in 1..Len(s) : /\ s[k].phase = "Pre" /\ s[k].rendering = "HTML"
                       /\ SecondRow(s[k].node) /\ Parent(s[k].node) = m
Begun(s) == {m \in DocNodes : HasBody(m) /\ ~Waits(s, m)}

Stacked(s) == Typed(s) /\ Nested(s) /\ Deeper(s) /\ Once(s) /\ Flat(s)

LEMMA NearOnce ==
  ASSUME NEW s, NEW k \in Nat, NEW i, NEW j, Near(s, i, k), Near(s, j, k)
  PROVE  i = j
<1>1. i \in Nat /\ j \in Nat /\ i < k /\ j < k
  BY DEF Near
<1>2. CASE i < j
  <2>1. j \in (i + 1)..(k - 1) /\ j # 0
    BY <1>1, <1>2
  <2>2. QED
    BY <2>1 DEF Near
<1>3. CASE j < i
  <2>1. i \in (j + 1)..(k - 1) /\ i # 0
    BY <1>1, <1>3
  <2>2. QED
    BY <2>1 DEF Near
<1>4. QED
  BY <1>1, <1>2, <1>3

\* Nodes to be rendered are no place below an image's attribute
LEMMA AllOutside ==
  ASSUME Parsed, NEW s, Typed(s), Nested(s), NEW o, NEW ground, Outside(ground), NEW B, Nesting(o, ground, B)
  PROVE  \A k \in 1..Len(s) : s[k].rendering = "HTML" => Outside(o[Parent(s[k].node)])
<1>1. Len(s) \in Nat
  BY DEF Typed
<1> DEFINE S == {k \in Nat : \A i \in 1..k : i <= Len(s) /\ s[i].rendering = "HTML" => Outside(o[Parent(s[i].node)])}
<1>2. 0 \in S
  OBVIOUS
<1>3. ASSUME NEW k \in S PROVE k + 1 \in S
  <2> SUFFICES ASSUME NEW i \in 1..(k + 1), i <= Len(s), s[i].rendering = "HTML" PROVE Outside(o[Parent(s[i].node)])
    OBVIOUS
  <2>1. k \in Nat /\ \A m \in 1..k : m <= Len(s) /\ s[m].rendering = "HTML" => Outside(o[Parent(s[m].node)])
    OBVIOUS
  <2>2. i \in 1..(Len(s) + 1) /\ i \in 1..Len(s)
    BY <1>1, <2>1
  <2>3. PICK j \in 0..(i - 1) :
          /\ Near(s, j, i) /\ Parent(s[i].node) = NodeAt(s, j)
          /\ j # 0 => formatter_children(s[j].node) = "HTML"
    BY <2>2 DEF Nested
  <2>4. CASE j = 0
    BY <2>3, <2>4 DEF NodeAt, Nesting
  <2>5. CASE j # 0
    <3> DEFINE n == s[j].node
    <3>1. j \in 1..k /\ j <= Len(s) /\ j \in 1..Len(s)
      BY <1>1, <2>1, <2>2, <2>5
    <3>2. s[j].phase = "Post" /\ s[j].rendering = "HTML" /\ n \in DocNodes
      BY <2>3, <2>5, <3>1 DEF Near, Typed
    <3>3. Outside(o[Parent(n)])
      BY <2>1, <3>1, <3>2
    <3>4. Kind(n) = "Image" => Kind(n) = doc.custom.kind
      BY <2>3, <2>5 DEF formatter_children, ChildRendering
    <3>5. o[n] = Held(o[Parent(n)], n, n \in B)
      BY <3>2 DEF Nesting
    <3>6. Outside(o[n])
      BY <3>3, <3>4, <3>5, HeldMarks DEF Outside
    <3>7. QED
      BY <2>3, <2>5, <3>6 DEF NodeAt
  <2>6. QED
    BY <2>4, <2>5
<1>4. S = Nat
  BY <1>2, <1>3, EveryNumber
<1>5. QED
  BY <1>1, <1>4

\* No child of the top node is on the stack before it
LEMMA NoChildBelow ==
  ASSUME Parsed, NEW s, Typed(s), Nested(s), Deeper(s), Len(s) > 0, s[Len(s)].rendering = "HTML"
  PROVE  \A k \in 1..Len(s) : s[k].rendering = "HTML" => Parent(s[k].node) # s[Len(s)].node
<1> SUFFICES ASSUME NEW k \in 1..Len(s), s[k].rendering = "HTML", Parent(s[k].node) = s[Len(s)].node
             PROVE  FALSE
  OBVIOUS
<1>1. Len(s) \in Nat /\ k \in 1..(Len(s) + 1) /\ Len(s) \in 1..Len(s)
  BY DEF Typed
<1>2. PICK j \in 0..(k - 1) : Near(s, j, k) /\ Parent(s[k].node) = NodeAt(s, j)
  BY <1>1 DEF Nested
<1>3. s[Len(s)].node \in DocNodes
  BY <1>1 DEF Typed
<1>4. j # 0
  BY <1>2, <1>3, TreeFacts DEF NodeAt
<1>5. j \in 1..Len(s) /\ j < Len(s) /\ s[j].phase = "Post" /\ s[j].node = s[Len(s)].node
  BY <1>1, <1>2, <1>4 DEF Near, NodeAt
<1>6. s[j].node < s[Len(s)].node
  BY <1>1, <1>5 DEF Deeper
<1>7. QED
  BY <1>3, <1>5, <1>6, TreeFacts

-----------------------------------------------------------------------------
(***************************************************************************)
(* What happens to the stack                                               *)
(***************************************************************************)
\* The top is replaced by nodes that are to be written plainly, or by nothing
Cut(s, t) ==
  /\ t \in Seq(Entry) /\ Len(s) > 0 /\ Len(t) >= Len(s) - 1
  /\ \A k \in 1..(Len(s) - 1) : t[k] = s[k]
  /\ \A k \in Len(s)..Len(t) : t[k].node \in DocNodes /\ t[k].phase = "Pre" /\ t[k].rendering = "Plain"

LEMMA CutStacked ==
  ASSUME Parsed, NEW s, NEW t, Stacked(s), Cut(s, t)
  PROVE  Stacked(t)
<1> DEFINE L == Len(s)
<1>1. L \in Nat /\ L > 0 /\ Len(t) \in Nat /\ Len(t) >= L - 1 /\ s \in Seq(Entry)
  BY DEF Cut, Stacked, Typed
<1>2. \A k \in 1..(L - 1) : k \in 1..L /\ t[k] = s[k]
  BY <1>1 DEF Cut
<1>3. \A k \in L..Len(t) : t[k].node \in DocNodes /\ t[k].phase = "Pre" /\ t[k].rendering = "Plain"
  BY DEF Cut
<1> HIDE DEF L
<1>4. \A k \in 1..Len(t) : k \in 1..(L - 1) \/ k \in L..Len(t)
  BY <1>1
<1>5. Typed(t)
  <2>1. t \in Seq(Entry)
    BY DEF Cut
  <2>2. QED
    BY <1>1, <1>2, <1>3, <1>4, <2>1 DEF Stacked, Typed, L
<1>6. Nested(t)
  <2> SUFFICES ASSUME NEW k \in 1..(Len(t) + 1)
               PROVE  \E j \in 0..(k - 1) :
                        /\ Near(t, j, k)
                        /\ k <= Len(t) /\ t[k].rendering = "HTML" =>
                             /\ Parent(t[k].node) = NodeAt(t, j)
                             /\ j # 0 => formatter_children(t[j].node) = "HTML"
    BY DEF Nested
  <2> DEFINE l == IF k <= L THEN k ELSE L
  <2>1. l \in 1..(Len(s) + 1) /\ l <= L /\ l <= k /\ l \in Nat
    BY <1>1 DEF L
  <2>2. PICK j \in 0..(l - 1) :
          /\ Near(s, j, l)
          /\ l <= Len(s) /\ s[l].rendering = "HTML" =>
               /\ Parent(s[l].node) = NodeAt(s, j)
               /\ j # 0 => formatter_children(s[j].node) = "HTML"
    BY <2>1 DEF Stacked, Nested
  <2>3. j \in 0..(k - 1) /\ (j # 0 => j \in 1..(L - 1))
    BY <1>1, <2>1
  <2>4. ASSUME NEW i \in (j + 1)..(k - 1) PROVE t[i].phase = "Pre"
    <3>1. CASE i < l
      <4>1. i \in (j + 1)..(l - 1) /\ i \in 1..(L - 1)
        BY <1>1, <2>1, <2>3, <3>1
      <4>2. QED
        BY <1>2, <2>2, <4>1 DEF Near
    <3>2. CASE ~(i < l)
      <4>1. i \in L..Len(t)
        BY <1>1, <2>1, <2>3, <3>2
      <4>2. QED
        BY <1>3, <4>1
    <3>3. QED
      BY <3>1, <3>2
  <2>5. Near(t, j, k)
    BY <1>2, <2>2, <2>3, <2>4 DEF Near
  <2>6. CASE k <= Len(t) /\ t[k].rendering = "HTML"
    <3>1. k \in 1..(L - 1) /\ l = k /\ l <= Len(s)
      BY <1>1, <1>3, <1>4, <2>6 DEF L
    <3>2. QED
      BY <1>2, <2>2, <2>3, <2>5, <3>1 DEF NodeAt
  <2>7. QED
    BY <2>3, <2>5, <2>6
<1>7. \A k \in 1..Len(t) : t[k].rendering = "HTML" \/ t[k].phase = "Post" => k \in 1..(L - 1) /\ k \in 1..L /\ t[k] = s[k]
  BY <1>2, <1>3, <1>4
<1>8. Deeper(t)
  BY <1>7 DEF Stacked, Deeper, L
<1>9. Once(t)
  BY <1>7 DEF Stacked, Once, L
<1>10. Flat(t)
  BY <1>7 DEF Stacked, Flat, L
<1>11. QED
  BY <1>5, <1>6, <1>8, <1>9, <1>10 DEF Stacked

\* Such a top was no row that is still to come
LEMMA CutBegun ==
  ASSUME NEW s, NEW t, Typed(s), Cut(s, t),
         s[Len(s)].phase = "Post" \/ s[Len(s)].rendering = "Plain"
  PROVE  Begun(t) = Begun(s)
<1>1. Len(s) \in Nat /\ Len(s) > 0 /\ Len(t) \in Nat /\ Len(t) >= Len(s) - 1
  BY DEF Cut, Typed
<1>2. \A k \in 1..(Len(s) - 1) : k \in 1..Len(s) /\ k \in 1..Len(t) /\ t[k] = s[k]
  BY <1>1 DEF Cut
<1>3. \A k \in 1..Len(t) : k \in 1..(Len(s) - 1) \/ t[k].rendering = "Plain"
  BY <1>1 DEF Cut
<1>4. \A k \in 1..Len(s) : k \in 1..(Len(s) - 1) \/ k = Len(s)
  BY <1>1
<1>5. ASSUME NEW m PROVE Waits(t, m) <=> Waits(s, m)
  <2>1. Waits(t, m) => Waits(s, m)
    BY <1>2, <1>3 DEF Waits
  <2>2. Waits(s, m) => Waits(t, m)
    BY <1>2, <1>4 DEF Waits
  <2>3. QED
    BY <2>1, <2>2
<1>6. QED
  BY <1>5 DEF Begun

LEMMA CutNear ==
  ASSUME NEW s, NEW t, Typed(s), Cut(s, t), NEW j, Near(s, j, Len(s))
  PROVE  Near(t, j, Len(t) + 1) /\ NodeAt(t, j) = NodeAt(s, j)
<1>1. Len(s) \in Nat /\ Len(s) > 0 /\ Len(t) \in Nat /\ Len(t) >= Len(s) - 1
  BY DEF Cut, Typed
<1>2. j \in 0..(Len(s) - 1) /\ j \in 0..Len(t)
  BY <1>1 DEF Near
<1>3. j # 0 => t[j] = s[j] /\ s[j].phase = "Post"
  BY <1>1, <1>2 DEF Cut, Near
<1>4. ASSUME NEW i \in (j + 1)..Len(t) PROVE t[i].phase = "Pre"
  <2>1. CASE i < Len(s)
    <3>1. i \in 1..(Len(s) - 1) /\ i \in (j + 1)..(Len(s) - 1)
      BY <1>1, <1>2, <2>1
    <3>2. QED
      BY <3>1 DEF Cut, Near
  <2>2. CASE ~(i < Len(s))
    <3>1. i \in Len(s)..Len(t)
      BY <1>1, <1>2, <2>2
    <3>2. QED
      BY <3>1 DEF Cut
  <2>3. QED
    BY <2>1, <2>2
<1>5. Len(t) + 1 - 1 = Len(t)
  BY <1>1
<1>6. QED
  BY <1>2, <1>3, <1>4, <1>5 DEF Near, NodeAt

-----------------------------------------------------------------------------
\* The top, n, is entered: it stays, to be left, and its children are above it
Grown(s, t) ==
  LET n == s[Len(s)].node IN
  /\ t \in Seq(Entry) /\ Len(s) > 0 /\ Len(t) >= Len(s)
  /\ s[Len(s)].phase = "Pre" /\ s[Len(s)].rendering = "HTML"
  /\ \A k \in 1..(Len(s) - 1) : t[k] = s[k]
  /\ t[Len(s)].node = n /\ t[Len(s)].phase = "Post" /\ t[Len(s)].rendering = "HTML"
  /\ \A k \in (Len(s) + 1)..Len(t) :
       /\ t[k].node \in DocNodes /\ Parent(t[k].node) = n /\ t[k].phase = "Pre"
       /\ t[k].rendering = formatter_children(n)
  /\ \A i, k \in (Len(s) + 1)..Len(t) : i < k => t[i].node # t[k].node
  /\ formatter_children(n) # "Skip" =>
       \A i \in 1..Len(Kids(n)) : \E k \in (Len(s) + 1)..Len(t) : t[k].node = Kids(n)[i]

LEMMA ChildNotBlock ==
  ASSUME Parsed, NEW c \in DocNodes \ {1}, Kind(Parent(c)) = "Heading" \/ Kind(Parent(c)) \notin Block
  PROVE  Kind(c) \notin Block
<1>1. can_contain_type(Kind(Parent(c)), Kind(c)) /\ Kind(Parent(c)) \in NodeKinds
  BY TreeFacts
<1> DEFINE p == Kind(Parent(c))
           k == Kind(c)
<1> HIDE DEF p, k
<1>2. can_contain_type(p, k) /\ (p = "Heading" \/ p \notin Block)
  BY <1>1 DEF p, k
<1>3. k \notin Block
  BY <1>2 DEF can_contain_type, Holders, Block, Spans
<1>4. QED
  BY <1>3 DEF k

LEMMA GrownStacked ==
  ASSUME Parsed, NEW s, NEW t, Stacked(s), Grown(s, t)
  PROVE  Stacked(t)
<1> DEFINE L == Len(s)
           n == s[L].node
<1>1. L \in Nat /\ L > 0 /\ Len(t) \in Nat /\ Len(t) >= L /\ s \in Seq(Entry) /\ L \in 1..Len(s)
  BY DEF Grown, Stacked, Typed
<1>2. \A k \in 1..(L - 1) : k \in 1..L /\ t[k] = s[k]
  BY <1>1 DEF Grown
<1>3. /\ t[L].node = n /\ t[L].phase = "Post" /\ t[L].rendering = "HTML"
      /\ s[L].phase = "Pre" /\ s[L].rendering = "HTML"
  BY DEF Grown
<1>4. \A k \in (L + 1)..Len(t) : /\ t[k].node \in DocNodes /\ Parent(t[k].node) = n /\ t[k].phase = "Pre"
                                 /\ t[k].rendering = formatter_children(n)
  BY DEF Grown
<1>5. \A i, k \in (L + 1)..Len(t) : i < k => t[i].node # t[k].node
  BY DEF Grown
<1>6. n \in DocNodes /\ \A m \in DocNodes : m \in Nat /\ m > 0 /\ Parent(m) < m
  BY <1>1, TreeFacts DEF Stacked, Typed
<1>7. \A k \in 1..L : s[k].rendering = "HTML" => Parent(s[k].node) # n
  BY <1>1, <1>3, NoChildBelow DEF Stacked
<1> HIDE DEF L, n
<1>8. \A k \in 1..Len(t) : k \in 1..(L - 1) \/ k = L \/ k \in (L + 1)..Len(t)
  BY <1>1
\* as before, but for the phase of the top
<1>9. \A k \in 1..L : /\ k \in 1..Len(s) /\ t[k].node = s[k].node /\ t[k].rendering = s[k].rendering
                      /\ s[k].phase = "Post" => t[k].phase = "Post"
                      /\ t[k].phase = "Post" /\ k # L => s[k].phase = "Post"
  <2> SUFFICES ASSUME NEW k \in 1..L
               PROVE  /\ k \in 1..Len(s) /\ t[k].node = s[k].node /\ t[k].rendering = s[k].rendering
                      /\ s[k].phase = "Post" => t[k].phase = "Post"
                      /\ t[k].phase = "Post" /\ k # L => s[k].phase = "Post"
    OBVIOUS
  <2>1. CASE k = L
    BY <1>1, <1>3, <2>1 DEF L, n
  <2>2. CASE k # L
    <3>1. k \in 1..(L - 1)
      BY <1>1, <2>2
    <3>2. QED
      BY <1>2, <2>2, <3>1 DEF L
  <2>3. QED
    BY <2>1, <2>2
<1>10. Typed(t)
  <2>1. t \in Seq(Entry)
    BY DEF Grown
  <2>2. \A k \in 1..(L - 1) : t[k].node \in DocNodes /\ (t[k].phase = "Post" => t[k].rendering = "HTML")
    BY <1>2 DEF Stacked, Typed, L
  <2>3. QED
    BY <1>3, <1>4, <1>6, <1>8, <2>1, <2>2 DEF Typed
<1>11. Nested(t)
  <2> SUFFICES ASSUME NEW k \in 1..(Len(t) + 1)
               PROVE  \E j \in 0..(k - 1) :
                        /\ Near(t, j, k)
                        /\ k <= Len(t) /\ t[k].rendering = "HTML" =>
                             /\ Parent(t[k].node) = NodeAt(t, j)
                             /\ j # 0 => formatter_children(t[j].node) = "HTML"
    BY DEF Nested
  <2>1. CASE k <= L
    <3>1. k \in 1..(Len(s) + 1) /\ k \in 1..L /\ k <= Len(s)
      BY <1>1, <2>1 DEF L
    <3>2. PICK j \in 0..(k - 1) :
            /\ Near(s, j, k)
            /\ k <= Len(s) /\ s[k].rendering = "HTML" =>
                 /\ Parent(s[k].node) = NodeAt(s, j)
                 /\ j # 0 => formatter_children(s[j].node) = "HTML"
      BY <3>1 DEF Stacked, Nested
    <3>3. (j # 0 => j \in 1..(L - 1)) /\ \A i \in (j + 1)..(k - 1) : i \in 1..(L - 1)
      BY <1>1, <2>1
    <3>4. Near(t, j, k)
      BY <1>2, <3>2, <3>3 DEF Near
    <3>5. t[k].rendering = "HTML" => /\ Parent(t[k].node) = NodeAt(t, j)
                                     /\ j # 0 => formatter_children(t[j].node) = "HTML"
      BY <1>2, <1>9, <3>1, <3>2, <3>3 DEF NodeAt
    <3>6. QED
      BY <3>4, <3>5
  <2>2. CASE ~(k <= L)
    <3>1. L \in 0..(k - 1) /\ L # 0 /\ \A i \in (L + 1)..(k - 1) : i \in (L + 1)..Len(t)
      BY <1>1, <2>2
    <3>2. Near(t, L, k)
      BY <1>3, <1>4, <3>1 DEF Near
    <3>3. k <= Len(t) => k \in (L + 1)..Len(t)
      BY <1>1, <2>2
    <3>4. QED
      BY <1>3, <1>4, <3>1, <3>2, <3>3 DEF NodeAt
  <2>3. QED
    BY <2>1, <2>2
<1>12. Deeper(t)
  <2> SUFFICES ASSUME NEW i \in 1..Len(t), NEW k \in 1..Len(t), i < k, t[i].phase = "Post", t[k].rendering = "HTML"
               PROVE  t[i].node < t[k].node
    BY DEF Deeper
  <2>1. i \in 1..L
    BY <1>1, <1>4, <1>8
  <2>2. CASE k \in 1..L
    <3>1. i # L
      BY <1>1, <2>2
    <3>2. s[i].phase = "Post" /\ s[k].rendering = "HTML" /\ i \in 1..Len(s) /\ k \in 1..Len(s)
      BY <1>9, <2>1, <2>2, <3>1
    <3>3. s[i].node < s[k].node
      BY <3>2 DEF Stacked, Deeper
    <3>4. QED
      BY <1>9, <2>1, <2>2, <3>3
  <2>3. CASE k \in (L + 1)..Len(t)
    <3>1. t[k].node \in DocNodes /\ Parent(t[k].node) = n
      BY <1>4, <2>3
    <3>2. n < t[k].node
      BY <1>6, <3>1
    <3>3. CASE i = L
      BY <1>3, <3>2, <3>3
    <3>4. CASE i # L
      <4>1. s[i].phase = "Post" /\ i \in 1..Len(s) /\ i < L /\ L \in 1..Len(s) /\ t[i].node = s[i].node
        BY <1>1, <1>9, <2>1, <3>4
      <4>2. s[i].node < n /\ s[i].node \in Nat
        BY <1>3, <1>6, <4>1 DEF Stacked, Deeper, Typed, L, n
      <4>3. QED
        BY <1>6, <3>1, <3>2, <4>1, <4>2
    <3>5. QED
      BY <3>3, <3>4
  <2>4. QED
    BY <1>1, <1>8, <2>2, <2>3
<1>13. Once(t)
  <2> SUFFICES ASSUME NEW i \in 1..Len(t), NEW k \in 1..Len(t), i < k, t[i].rendering = "HTML", t[k].rendering = "HTML"
               PROVE  t[i].node # t[k].node
    BY DEF Once
  <2>1. CASE k \in 1..L
    <3>1. i \in 1..L
      BY <1>1, <2>1
    <3>2. QED
      BY <1>9, <2>1, <3>1 DEF Stacked, Once
  <2>2. CASE k \in (L + 1)..Len(t) /\ i \in (L + 1)..Len(t)
    BY <1>5, <2>2
  <2>3. CASE k \in (L + 1)..Len(t) /\ i \in 1..L
    BY <1>4, <1>7, <1>9, <2>3
  <2>4. QED
    BY <1>1, <1>8, <2>1, <2>2, <2>3
<1>14. Flat(t)
  <2> SUFFICES ASSUME NEW i \in 1..Len(t), NEW k \in 1..Len(t), i < k, t[i].phase = "Post",
                      Kind(t[i].node) = "Heading", t[k].rendering = "HTML"
               PROVE  Kind(t[k].node) \notin Block
    BY DEF Flat
  <2>1. i \in 1..L
    BY <1>1, <1>4, <1>8
  <2>2. CASE k \in 1..L
    <3>1. i # L
      BY <1>1, <2>2
    <3>2. QED
      BY <1>9, <2>1, <2>2, <3>1 DEF Stacked, Flat
  <2>3. CASE k \in (L + 1)..Len(t)
    <3>1. t[k].node \in DocNodes /\ Parent(t[k].node) = n /\ t[k].node # 1
      BY <1>4, <1>6, <2>3, TreeFacts
    <3>2. Kind(n) = "Heading" \/ Kind(n) \notin Block
      <4>1. CASE i = L
        BY <1>3, <4>1
      <4>2. CASE i # L
        <5>1. s[i].phase = "Post" /\ i \in 1..Len(s) /\ i < L /\ L \in 1..Len(s) /\ t[i].node = s[i].node
          BY <1>1, <1>9, <2>1, <4>2
        <5>2. QED
          BY <1>3, <5>1 DEF Stacked, Flat, L, n
      <4>3. QED
        BY <4>1, <4>2
    <3>3. QED
      BY <3>1, <3>2, ChildNotBlock
  <2>4. QED
    BY <1>1, <1>8, <2>2, <2>3
<1>15. QED
  BY <1>10, <1>11, <1>12, <1>13, <1>14 DEF Stacked

-----------------------------------------------------------------------------
(***************************************************************************)
(* What is open when a node is entered                                     *)
(***************************************************************************)
LEMMA HeldBody ==
  ASSUME NEW n, NEW a, NEW b, Kind(n) # "Table"
  PROVE  Held(a, n, b) = Held(a, n, FALSE)
BY DEF Held, MarkTag, SpanTag

LEMMA RowsWait ==
  ASSUME Parsed, NEW s, NEW t, Stacked(s), Grown(s, t), NEW m \in DocNodes, m # s[Len(s)].node
  PROVE  /\ Waits(t, m) => Waits(s, m)
         /\ Waits(s, m) /\ ~(SecondRow(s[Len(s)].node) /\ Parent(s[Len(s)].node) = m) => Waits(t, m)
<1> DEFINE L == Len(s)
           n == s[L].node
<1>1. L \in Nat /\ L > 0 /\ Len(t) \in Nat /\ Len(t) >= L
  BY DEF Grown, Stacked, Typed
<1>2. \A k \in 1..(L - 1) : k \in 1..Len(s) /\ k \in 1..Len(t) /\ t[k] = s[k]
  BY <1>1 DEF Grown
<1>3. t[L].phase = "Post" /\ \A k \in (L + 1)..Len(t) : Parent(t[k].node) = n
  BY DEF Grown
<1> HIDE DEF L, n
<1>4. /\ \A k \in 1..Len(t) : k \in 1..(L - 1) \/ k = L \/ k \in (L + 1)..Len(t)
      /\ \A k \in 1..Len(s) : k \in 1..(L - 1) \/ k = L
  BY <1>1 DEF L
<1>5. Waits(t, m) => Waits(s, m)
  BY <1>2, <1>3, <1>4 DEF Waits, n, L
<1>6. Waits(s, m) /\ ~(SecondRow(n) /\ Parent(n) = m) => Waits(t, m)
  BY <1>2, <1>4 DEF Waits, n
<1>7. QED
  BY <1>5, <1>6 DEF n, L

\* Its own second row waits when a table is entered
LEMMA TableWaits ==
  ASSUME Parsed, NEW s, NEW t, Stacked(s), Grown(s, t), Kind(s[Len(s)].node) = "Table"
  PROVE  s[Len(s)].node \notin Begun(t)
<1> DEFINE n == s[Len(s)].node
<1>1. Len(s) \in Nat /\ Len(s) > 0 /\ Len(t) \in Nat /\ Len(t) >= Len(s) /\ n \in DocNodes
  BY DEF Grown, Stacked, Typed
<1>2. formatter_children(n) = "HTML"
  BY DEF Parsed, formatter_children, ChildRendering
<1>3. /\ \A k \in (Len(s) + 1)..Len(t) : /\ t[k].phase = "Pre" /\ Parent(t[k].node) = n
                                         /\ t[k].rendering = formatter_children(n)
      /\ \A i \in 1..Len(Kids(n)) : \E k \in (Len(s) + 1)..Len(t) : t[k].node = Kids(n)[i]
  BY <1>2 DEF Grown
<1> HIDE DEF n
<1>4. ASSUME HasBody(n) PROVE Waits(t, n)
  <2>1. PICK i \in 1..Len(Kids(n)) : SecondRow(Kids(n)[i])
    BY <1>1, <1>4, BodyHasRow DEF n
  <2>2. PICK k \in (Len(s) + 1)..Len(t) : t[k].node = Kids(n)[i]
    BY <1>3
  <2>3. k \in 1..Len(t)
    BY <1>1
  <2>4. QED
    BY <1>2, <1>3, <2>1, <2>2, <2>3 DEF Waits
<1>5. QED
  BY <1>4 DEF Begun, n

Section(f, fin) == IF f > 0 /\ ~fin THEN Append(Append(<<>>, "section"), "ol") ELSE <<>>

LEMMA SectionIs ==
  ASSUME NEW f, NEW fin
  PROVE  Section(f, fin) \in Seq(Mark) /\ Outside(Section(f, fin))
<1>1. "section" \in Tag /\ "ol" \in Tag
  BY DEF Tag
<1>2. Outside(<<>>)
  BY DEF Outside
<1>3. QED
  BY <1>1, <1>2, OpenTag DEF Section, Outside

\* Only a definition, a table's second row and the table itself change what is open around them
LEMMA EnterNesting ==
  ASSUME Parsed, NEW s, NEW t, Stacked(s), Grown(s, t), NEW o, footnote_ix \in Nat,
         Nesting(o, Section(footnote_ix, FALSE), Begun(s)),
         NEW f, f = footnote_ix + (IF Kind(s[Len(s)].node) = "FootnoteDefinition" /\ Kind(s[Len(s)].node) # doc.custom.kind
                                   THEN 1 ELSE 0),
         /\ Kind(s[Len(s)].node) = "FootnoteDefinition" /\ Kind(s[Len(s)].node) # doc.custom.kind /\ footnote_ix = 0
         => Parent(s[Len(s)].node) = 1
  PROVE  \E p : /\ Nesting(p, Section(f, FALSE), Begun(t))
                /\ p[s[Len(s)].node] = Held(Ground(o[Parent(s[Len(s)].node)], s[Len(s)].node), s[Len(s)].node, FALSE)
<1> DEFINE L == Len(s)
           n == s[L].node
           a == o[Parent(n)]
<1>1. L \in Nat /\ L > 0 /\ n \in DocNodes /\ L \in 1..Len(s) /\ s[L].phase = "Pre" /\ s[L].rendering = "HTML"
  BY DEF Grown, Stacked, Typed
<1>2. PICK p : Nesting(p, Section(f, FALSE), Begun(t))
  BY NestingExists
<1>3. n \in Nat /\ n > 0 /\ Parent(n) \in Nat /\ Parent(n) < n /\ Parent(n) \in 0..Size /\ Size \in Nat /\ DocNodes = 1..Size
  BY <1>1, TreeFacts
<1>4. \A m \in DocNodes : m # n /\ ~(SecondRow(n) /\ Parent(n) = m) => (m \in Begun(s) <=> m \in Begun(t))
  BY RowsWait DEF Begun
<1>5. p[n] = Held(p[Parent(n)], n, FALSE)
  <2>1. p[n] = Held(p[Parent(n)], n, n \in Begun(t))
    BY <1>1, <1>2 DEF Nesting
  <2>2. CASE Kind(n) = "Table"
    <3>1. (n \in Begun(t)) = FALSE
      BY <2>2, TableWaits
    <3>2. QED
      BY <2>1, <3>1
  <2>3. CASE Kind(n) # "Table"
    BY <2>1, <2>3, HeldBody
  <2>4. QED
    BY <2>2, <2>3
<1> HIDE DEF L, n
<1>6. p[Parent(n)] = Ground(a, n)
  <2>1. CASE Kind(n) # doc.custom.kind /\ Kind(n) = "FootnoteDefinition" /\ footnote_ix = 0
    <3>1. 1 \in DocNodes /\ Parent(1) = 0
      BY TreeFacts
    <3>2. Parent(n) = 1
      BY <2>1 DEF n, L
    <3>3. \A x, b : Held(x, 1, b) = x
      <4>1. Kind(1) = "Document" /\ doc.custom.kind # "Document"
        BY TreeFacts DEF Parsed
      <4>2. QED
        BY <4>1 DEF Held, MarkTag, SpanTag
    <3>5. o[1] = <<>> /\ p[1] = Append(Append(<<>>, "section"), "ol")
      BY <1>2, <2>1, <3>1, <3>3 DEF Nesting, Section, n, L
    <3>6. QED
      BY <2>1, <3>2, <3>5 DEF Ground
  <2>2. CASE SecondRow(n)
    <3> DEFINE q == Parent(n)
    <3>1. /\ Kind(n) = "TableRow" /\ Kind(n) # doc.custom.kind /\ Kind(q) # doc.custom.kind
          /\ n # 1 /\ Kind(q) = "Table" /\ HasBody(q) /\ q \in DocNodes
          /\ \A r \in DocNodes : SecondRow(r) /\ Parent(r) = q => r = n
      BY <1>1, <2>2, OneSecondRow, TreeFacts DEF Parsed, SecondRow
    <3>2. f = footnote_ix
      BY <3>1 DEF n, L
    <3>3. q \notin Begun(s)
      BY <1>1, <2>2 DEF Begun, Waits, L, n
    <3>4. q \in Begun(t)
      <4> SUFFICES ASSUME Waits(t, q) PROVE FALSE
        BY <3>1 DEF Begun
      <4>1. PICK k \in 1..Len(t) : /\ t[k].phase = "Pre" /\ t[k].rendering = "HTML"
                                   /\ SecondRow(t[k].node) /\ Parent(t[k].node) = q
        BY DEF Waits
      <4>2. Len(t) \in Nat /\ Len(t) >= L
        BY DEF Grown, L
      <4>3. k \in 1..(L - 1)
        <5>1. k # L
          BY <4>1 DEF Grown, L
        <5>2. k \notin (L + 1)..Len(t)
          BY <1>3, <4>1 DEF Grown, L, n
        <5>3. QED
          BY <1>1, <4>2, <5>1, <5>2
      <4>4. t[k] = s[k] /\ k \in 1..Len(s) /\ k < L
        BY <1>1, <4>3 DEF Grown, L
      <4>5. t[k].node \in DocNodes
        BY <4>4 DEF Stacked, Typed
      <4>6. s[k].node = n /\ s[k].rendering = "HTML"
        BY <3>1, <4>1, <4>4, <4>5
      <4>7. QED
        BY <1>1, <4>4, <4>6 DEF Stacked, Once, L, n
    <3>5. Parent(q) \in Nat /\ Parent(q) < q /\ q \in Nat /\ Parent(q) \in 0..Size /\ q < n
      BY <1>3, <3>1, TreeFacts
    <3>6. Agree(Begun(s), Begun(t), q)
      BY <1>3, <1>4, <3>5 DEF Agree
    <3>7. q \in Nat
      BY <3>5
    <3>8. o[Parent(q)] = p[Parent(q)]
      <4>1. Nesting(p, Section(footnote_ix, FALSE), Begun(t))
        BY <1>2, <3>2
      <4>2. \A m \in 0..Size : m < q => o[m] = p[m]
        BY <3>6, <3>7, <4>1, NestingAgrees
      <4>3. QED
        BY <3>5, <4>2
    <3>9. o[q] = Append(o[Parent(q)], "table")
      BY <3>1, <3>3 DEF Nesting, Held, MarkTag, SpanTag
    <3>10. p[q] = Append(Append(p[Parent(q)], "table"), "tbody")
      BY <1>2, <3>1, <3>4 DEF Nesting, Held, MarkTag, SpanTag
    <3>11. Ground(a, n) = Append(a, "tbody")
      BY <2>2, <3>1 DEF Ground
    <3>12. QED
      BY <3>8, <3>9, <3>10, <3>11
  <2>3. CASE /\ ~(Kind(n) # doc.custom.kind /\ Kind(n) = "FootnoteDefinition" /\ footnote_ix = 0)
             /\ ~SecondRow(n)
    <3>1. Ground(a, n) = a
      BY <2>3 DEF Ground
    <3>2. Section(f, FALSE) = Section(footnote_ix, FALSE)
      BY <2>3 DEF Section, n, L
    <3>3. Agree(Begun(s), Begun(t), n)
      BY <1>3, <1>4, <2>3 DEF Agree
    <3>4. n \in Nat
      BY <1>3
    <3>5. o[Parent(n)] = p[Parent(n)]
      <4>1. Nesting(p, Section(footnote_ix, FALSE), Begun(t))
        BY <1>2, <3>2
      <4>2. \A m \in 0..Size : m < n => o[m] = p[m]
        BY <3>3, <3>4, <4>1, NestingAgrees
      <4>3. QED
        BY <1>3, <4>2
    <3>6. QED
      BY <3>1, <3>5
  <2>4. QED
    BY <2>1, <2>2, <2>3
<1>7. p[n] = Held(Ground(a, n), n, FALSE)
  BY <1>5, <1>6
<1>8. QED
  BY <1>2, <1>7 DEF n, L

-----------------------------------------------------------------------------
(***************************************************************************)
(* The steps                                                               *)
(***************************************************************************)
LEMMA FrontIs ==
  ASSUME NEW s \in Seq(Entry), Len(s) > 0
  PROVE  /\ Front(s) \in Seq(Entry) /\ Len(s) \in Nat /\ Len(Front(s)) = Len(s) - 1
         /\ \A k \in 1..(Len(s) - 1) : Front(s)[k] = s[k]
         /\ Last(s) = s[Len(s)] /\ s[Len(s)] \in Entry
<1>1. Len(s) \in Nat /\ Len(s) \in 1..Len(s) /\ Len(s) - 1 \in Nat
  OBVIOUS
<1>2. Front(s) = SubSeq(s, 1, Len(s) - 1)
  BY DEF Front
<1>3. \A k \in 1..(Len(s) - 1) : k \in 1..Len(s) /\ s[k] \in Entry
  BY <1>1
<1> DEFINE g == [k \in 1..(Len(s) - 1) |-> s[k]]
<1>4. SubSeq(s, 1, Len(s) - 1) = g
  BY <1>1
<1>5. g \in Seq(Entry) /\ Len(g) = Len(s) - 1 /\ \A k \in 1..(Len(s) - 1) : g[k] = s[k]
  BY <1>1, <1>3
<1> HIDE DEF g
<1>6. QED
  BY <1>1, <1>2, <1>4, <1>5 DEF Last

LEMMA JoinedAt ==
  ASSUME NEW s \in Seq(Entry), NEW t \in Seq(Entry)
  PROVE  /\ s \o t \in Seq(Entry) /\ Len(s \o t) = Len(s) + Len(t)
         /\ \A k \in 1..Len(s) : (s \o t)[k] = s[k]
         /\ \A k \in (Len(s) + 1)..Len(s \o t) : (s \o t)[k] = t[k - Len(s)] /\ k - Len(s) \in 1..Len(t)
         /\ \A k \in 1..Len(t) : (s \o t)[Len(s) + k] = t[k]
<1> DEFINE m == Len(s)
           u == s \o t
<1>1. IsSeq(s) /\ IsSeq(t)
  BY DEF IsSeq
<1>2. /\ m \in Nat /\ Len(t) \in Nat /\ Len(u) = m + Len(t) /\ u \in Seq(Entry)
      /\ \A k \in 1..m : u[k] = s[k]
      /\ \A k \in 1..Len(t) : u[m + k] = t[k]
  BY <1>1, JoinedSeq
<1> HIDE DEF m, u
<1>3. \A k \in (m + 1)..Len(u) : k - m \in 1..Len(t) /\ m + (k - m) = k
  BY <1>2
<1>4. \A k \in (m + 1)..Len(u) : u[k] = t[k - m]
  BY <1>2, <1>3
<1>5. QED
  BY <1>2, <1>3, <1>4 DEF m, u

LEMMA LeaveCuts ==
  ASSUME NEW s \in Seq(Entry), Len(s) > 0
  PROVE  Cut(s, Front(s))
<1>1. /\ Front(s) \in Seq(Entry) /\ Len(s) \in Nat /\ Len(Front(s)) = Len(s) - 1
      /\ \A k \in 1..(Len(s) - 1) : Front(s)[k] = s[k]
  BY FrontIs
<1>2. Len(s)..Len(Front(s)) = {} /\ Len(Front(s)) >= Len(s) - 1
  BY <1>1
<1>3. QED
  BY <1>1, <1>2 DEF Cut

LEMMA PlainCuts ==
  ASSUME Parsed, NEW s \in Seq(Entry), Len(s) > 0, NEW n
  PROVE  Cut(s, Front(s) \o Children(n, "Plain"))
<1> DEFINE f == Front(s)
           c == Children(n, "Plain")
           t == f \o c
           L == Len(s)
<1>1. f \in Seq(Entry) /\ L \in Nat /\ L > 0 /\ Len(f) = L - 1 /\ \A k \in 1..(L - 1) : f[k] = s[k]
  BY FrontIs
<1>2. /\ c \in Seq(Entry) /\ Len(c) \in Nat
      /\ \A i \in 1..Len(c) : c[i].node \in DocNodes /\ c[i].phase = "Pre" /\ c[i].rendering = "Plain"
  <2>1. c = Children(n, "Plain")
    OBVIOUS
  <2> HIDE DEF c
  <2>2. QED
    BY <2>1, ChildrenAre
<1> HIDE DEF f, c, L
<1>3. /\ t \in Seq(Entry) /\ Len(t) = L - 1 + Len(c)
      /\ \A k \in 1..(L - 1) : t[k] = f[k]
      /\ \A k \in L..Len(t) : t[k] = c[k - (L - 1)] /\ k - (L - 1) \in 1..Len(c)
  <2>1. /\ t \in Seq(Entry) /\ Len(t) = Len(f) + Len(c)
        /\ \A k \in 1..Len(f) : t[k] = f[k]
        /\ \A k \in (Len(f) + 1)..Len(t) : t[k] = c[k - Len(f)] /\ k - Len(f) \in 1..Len(c)
    BY <1>1, <1>2, JoinedAt
  <2> HIDE DEF t
  <2>2. Len(f) + 1 = L
    BY <1>1
  <2>3. QED
    BY <1>1, <2>1, <2>2
<1> HIDE DEF t
<1>4. Len(t) >= L - 1
  BY <1>1, <1>2, <1>3
<1>5. \A k \in L..Len(t) : t[k].node \in DocNodes /\ t[k].phase = "Pre" /\ t[k].rendering = "Plain"
  BY <1>2, <1>3
<1>6. Cut(s, t)
  BY <1>1, <1>3, <1>4, <1>5 DEF Cut, L
<1>7. QED
  BY <1>6 DEF t, f, c

LEMMA EnterGrows ==
  ASSUME Parsed, NEW s, Typed(s), Len(s) > 0, s[Len(s)].phase = "Pre", s[Len(s)].rendering = "HTML",
         NEW n, n = s[Len(s)].node
  PROVE  Grown(s, Front(s) \o <<[s[Len(s)] EXCEPT !.phase = "Post"]>> \o Children(n, formatter_children(n)))
<1> DEFINE L == Len(s)
           x == s[L]
           y == [x EXCEPT !.phase = "Post"]
           f == Front(s)
           r == formatter_children(n)
           c == Children(n, r)
           t == f \o <<y>> \o c
<1>1. /\ f \in Seq(Entry) /\ L \in Nat /\ L > 0 /\ Len(f) = L - 1 /\ \A k \in 1..(L - 1) : f[k] = s[k]
      /\ x \in Entry /\ x.phase = "Pre" /\ x.rendering = "HTML" /\ x.node = n
  BY FrontIs DEF Typed
<1>2. y \in Entry /\ y.node = n /\ y.phase = "Post" /\ y.rendering = "HTML"
  BY <1>1 DEF Entry
<1>3. r \in {"HTML", "Plain", "Skip"}
  BY DEF formatter_children, ChildRendering, Parsed
<1> HIDE DEF r
<1>4. /\ c \in Seq(Entry) /\ Len(c) \in Nat
      /\ \A i \in 1..Len(c) : /\ c[i].node \in DocNodes /\ Parent(c[i].node) = n /\ c[i].phase = "Pre"
                              /\ c[i].rendering = r
      /\ \A i, j \in 1..Len(c) : i < j => c[i].node # c[j].node
      /\ r # "Skip" => \A k \in 1..Len(Kids(n)) : \E i \in 1..Len(c) : c[i].node = Kids(n)[k]
  <2>1. c = Children(n, r)
    OBVIOUS
  <2> HIDE DEF c
  <2>2. c \in Seq(Entry) /\ Len(c) \in Nat
    BY <1>3, <2>1, ChildrenAre
  <2>3. \A i \in 1..Len(c) : /\ c[i].node \in DocNodes /\ Parent(c[i].node) = n /\ c[i].phase = "Pre"
                              /\ c[i].rendering = r
    BY <1>3, <2>1, ChildrenAre
  <2>4. \A i, j \in 1..Len(c) : i < j => c[i].node # c[j].node
    BY <1>3, <2>1, ChildrenAre
  <2>5. r # "Skip" => \A k \in 1..Len(Kids(n)) : \E i \in 1..Len(c) : c[i].node = Kids(n)[k]
    BY <1>3, <2>1, ChildrenAre
  <2>6. QED
    BY <2>2, <2>3, <2>4, <2>5
<1> HIDE DEF L, f, c, y
<1> DEFINE u == f \o <<y>>
<1>5. u \in Seq(Entry) /\ Len(u) = L /\ u[L] = y /\ \A k \in 1..(L - 1) : u[k] = f[k]
  BY <1>1, <1>2
<1> HIDE DEF u
<1>6. /\ t \in Seq(Entry) /\ Len(t) = L + Len(c)
      /\ \A k \in 1..L : t[k] = u[k]
      /\ \A k \in (L + 1)..Len(t) : t[k] = c[k - L] /\ k - L \in 1..Len(c)
      /\ \A i \in 1..Len(c) : t[L + i] = c[i] /\ L + i \in (L + 1)..Len(t)
  <2>1. /\ t \in Seq(Entry) /\ Len(t) = Len(u) + Len(c)
        /\ \A k \in 1..Len(u) : t[k] = u[k]
        /\ \A k \in (Len(u) + 1)..Len(t) : t[k] = c[k - Len(u)] /\ k - Len(u) \in 1..Len(c)
        /\ \A k \in 1..Len(c) : t[Len(u) + k] = c[k]
    BY <1>4, <1>5, JoinedAt DEF u
  <2> HIDE DEF t
  <2>2. \A i \in 1..Len(c) : L + i \in (L + 1)..Len(t)
    BY <1>1, <1>4, <1>5, <2>1
  <2>3. QED
    BY <1>5, <2>1, <2>2
<1> HIDE DEF t
<1>7. Len(t) >= L /\ L \in 1..L /\ \A k \in 1..(L - 1) : k \in 1..L
  BY <1>1, <1>4, <1>6
<1>8. t[L] = y /\ \A k \in 1..(L - 1) : t[k] = s[k]
  BY <1>1, <1>5, <1>6, <1>7
<1>9. \A k \in (L + 1)..Len(t) : /\ t[k].node \in DocNodes /\ Parent(t[k].node) = n /\ t[k].phase = "Pre"
                                 /\ t[k].rendering = r
  BY <1>4, <1>6
<1>10. ASSUME NEW i \in (L + 1)..Len(t), NEW k \in (L + 1)..Len(t), i < k PROVE t[i].node # t[k].node
  <2>1. i - L < k - L
    BY <1>1, <1>10
  <2>2. t[i] = c[i - L] /\ i - L \in 1..Len(c) /\ t[k] = c[k - L] /\ k - L \in 1..Len(c)
    BY <1>6
  <2>3. c[i - L].node # c[k - L].node
    BY <1>4, <2>1, <2>2
  <2>4. QED
    BY <2>2, <2>3
<1>11. r # "Skip" => \A i \in 1..Len(Kids(n)) : \E k \in (L + 1)..Len(t) : t[k].node = Kids(n)[i]
  <2> SUFFICES ASSUME r # "Skip", NEW i \in 1..Len(Kids(n)) PROVE \E k \in (L + 1)..Len(t) : t[k].node = Kids(n)[i]
    OBVIOUS
  <2>1. PICK j \in 1..Len(c) : c[j].node = Kids(n)[i]
    BY <1>4
  <2>2. L + j \in (L + 1)..Len(t) /\ t[L + j] = c[j]
    BY <1>6
  <2>3. QED
    BY <2>1, <2>2
<1>12. s[L].node = n /\ s[L].phase = "Pre" /\ s[L].rendering = "HTML"
  BY <1>1
<1>13. Grown(s, t)
  BY <1>1, <1>2, <1>6, <1>7, <1>8, <1>9, <1>10, <1>11, <1>12 DEF Grown, L, r
<1>14. QED
  BY <1>13 DEF t, u, f, y, c, r, L

-----------------------------------------------------------------------------
(***************************************************************************)
(* The invariant                                                           *)
(***************************************************************************)
\* What the stack is, whatever has been written
Walk(s, w, f, h, fin) ==
  /\ Stacked(s) /\ Kept(s, h)
  /\ f \in Nat /\ fin \in BOOLEAN /\ (fin => s = <<>>)
  /\ Clean(w)

\* What has been written leads to what is open below the last node that was entered
Nests(s, w, f, fin) ==
  \E open, j : /\ Nesting(open, Section(f, fin), Begun(s))
               /\ Near(s, j, Len(s) + 1)
               /\ Leads(<<>>, w, open[NodeAt(s, j)])

\* No definition has been visited before the first is counted
Counted(f, v) == IsSeq(v) /\ (f = 0 => \A k \in DOMAIN v : ~Opens(v[k]))

RenderInv ==
  /\ Parsed
  /\ Counted(footnote_ix, visits)
  /\ \E s, w, f, h, fin :
       /\ stack = s /\ out = w /\ footnote_ix = f /\ heading = h /\ finished = fin
       /\ Walk(s, w, f, h, fin)
       /\ ~SectionInBlock => Nests(s, w, f, fin)

LEMMA InRowIs ==
  ASSUME Parsed, NEW n \in DocNodes
  PROVE  Kind(n) \in NodeKinds /\ InRow(n)
<1>1. Kind(n) \in NodeKinds
  BY TreeFacts
<1>2. ASSUME Kind(n) = "TableCell"
      PROVE  Kind(Parent(n)) \in {"HeaderRow", "TableRow"} /\ Kind(Parent(Parent(n))) = "Table"
  <2>1. n # 1 /\ Kind(Parent(n)) \in {"HeaderRow", "TableRow"} /\ Parent(n) \in DocNodes
    BY <1>2, TreeFacts
  <2>2. Parent(n) # 1
    BY <2>1, TreeFacts
  <2>3. QED
    BY <2>1, <2>2, TreeFacts
<1>3. QED
  BY <1>1, <1>2 DEF InRow

LEMMA PlainWalks ==
  ASSUME Parsed, Walk(stack, out, footnote_ix, heading, finished), Plain
  PROVE  \E t, w : /\ stack' = t /\ out' = w /\ Walk(t, w, footnote_ix, heading, finished)
                   /\ Nests(stack, out, footnote_ix, finished) => Nests(t, w, footnote_ix, finished)
<1> DEFINE s == stack
           n == StackTop.node
           t == Front(s) \o Children(n, "Plain")
           w == Written(PlainText(n))
<1>1. /\ Stacked(s) /\ Kept(s, heading) /\ footnote_ix \in Nat /\ finished \in BOOLEAN /\ (finished => s = <<>>)
      /\ Clean(out) /\ s \in Seq(Entry)
  BY DEF Walk, Stacked, Typed
<1>2. /\ s # <<>> /\ StackTop.phase = "Pre" /\ StackTop.rendering = "Plain"
      /\ stack' = t /\ out' = w
  BY DEF Plain, StackRest
<1>3. Len(s) \in Nat /\ Len(s) > 0 /\ StackTop = s[Len(s)]
  BY <1>1, <1>2 DEF StackTop, Last
<1>4. Cut(s, t)
  BY <1>1, <1>3, PlainCuts
<1>7. Stacked(t)
  BY <1>1, <1>4, CutStacked
<1>8. Begun(t) = Begun(s)
  BY <1>1, <1>2, <1>3, <1>4, CutBegun DEF Stacked
<1>10. Kept(t, heading)
  <2>1. \A k \in 1..Len(t) : t[k].phase = "Post" => k \in 1..Len(s) /\ t[k] = s[k]
    <3> SUFFICES ASSUME NEW k \in 1..Len(t), t[k].phase = "Post" PROVE k \in 1..Len(s) /\ t[k] = s[k]
      OBVIOUS
    <3>1. Len(t) \in Nat /\ \A i \in Len(s)..Len(t) : t[i].phase = "Pre"
      BY <1>4 DEF Cut
    <3>2. k \in 1..(Len(s) - 1)
      BY <1>3, <3>1
    <3>3. QED
      BY <1>3, <1>4, <3>2 DEF Cut
  <2>2. QED
    BY <1>1, <2>1 DEF Kept
<1>11. PlainText(n) = <<Word(n)>> \/ PlainText(n) = <<Void("space")>> \/ PlainText(n) = <<>>
  BY DEF PlainText
<1>12. Clean(w)
  <2>1. IsSeq(PlainText(n))
    BY <1>11, NoTokens, OneToken DEF Leads
  <2>2. QED
    BY <1>1, <2>1, WrittenClean
<1>13. finished => t = <<>>
  BY <1>1, <1>2
<1>14. ASSUME Nests(stack, out, footnote_ix, finished) PROVE Nests(t, w, footnote_ix, finished)
  <2>1. PICK open, j : /\ Nesting(open, Section(footnote_ix, finished), Begun(s))
                       /\ Near(s, j, Len(s) + 1)
                       /\ Leads(<<>>, out, open[NodeAt(s, j)])
    BY <1>14 DEF Nests
  <2>2. Near(s, j, Len(s))
    <3>1. j \in 0..Len(s) /\ (j # 0 => s[j].phase = "Post") /\ \A i \in (j + 1)..Len(s) : s[i].phase = "Pre"
      BY <1>3, <2>1 DEF Near
    <3>2. j # Len(s)
      BY <1>2, <1>3, <3>1
    <3>3. j \in 0..(Len(s) - 1) /\ \A i \in (j + 1)..(Len(s) - 1) : i \in (j + 1)..Len(s)
      BY <1>3, <3>1, <3>2
    <3>4. QED
      BY <3>1, <3>3 DEF Near
  <2>3. Near(t, j, Len(t) + 1) /\ NodeAt(t, j) = NodeAt(s, j)
    BY <1>1, <1>4, <2>2, CutNear DEF Stacked
  <2>4. open[NodeAt(s, j)] \in Seq(Mark)
    <3>1. \A m \in 0..Size : open[m] \in Seq(Mark)
      BY <2>1, SectionIs, NestingMarks
    <3>2. NodeAt(s, j) \in 0..Size
      <4>1. j \in 0..Len(s)
        BY <1>3, <2>1 DEF Near
      <4>2. Size \in Nat /\ DocNodes = 1..Size
        BY TreeFacts
      <4>3. j # 0 => s[j].node \in DocNodes
        BY <1>1, <1>3, <4>1 DEF Stacked, Typed
      <4>4. QED
        BY <4>2, <4>3 DEF NodeAt
    <3>3. QED
      BY <3>1, <3>2
  <2>5. Leads(open[NodeAt(s, j)], PlainText(n), open[NodeAt(s, j)])
    BY <1>11, <2>4, QuietToken, VoidToken, NoTokens DEF Quiet
  <2>6. Leads(<<>>, w, open[NodeAt(s, j)])
    BY <1>1, <2>1, <2>5, WrittenLeads
  <2> HIDE DEF t, w
  <2>7. QED
    BY <1>8, <2>1, <2>3, <2>6 DEF Nests
<1> HIDE DEF s, t, w, n
<1>15. Walk(t, w, footnote_ix, heading, finished)
  BY <1>1, <1>7, <1>10, <1>12, <1>13 DEF Walk
<1>16. QED
  BY <1>2, <1>14, <1>15

LEMMA NodeAtIs ==
  ASSUME Parsed, NEW s, Typed(s), NEW k \in 1..(Len(s) + 1), NEW j, Near(s, j, k)
  PROVE  NodeAt(s, j) \in 0..Size
<1>1. Len(s) \in Nat /\ j \in 0..(k - 1) /\ j \in 0..Len(s)
  BY DEF Typed, Near
<1>2. Size \in Nat /\ DocNodes = 1..Size
  BY TreeFacts
<1>3. j # 0 => s[j].node \in DocNodes
  BY <1>1 DEF Typed
<1>4. QED
  BY <1>2, <1>3 DEF NodeAt

LEMMA TokensAre ==
  ASSUME Parsed, NEW n \in DocNodes
  PROVE  /\ IsSeq(formatter(n, TRUE))
         /\ (Kind(n) = "Heading" /\ Kind(n) # doc.custom.kind /\ Has("header_id_prefix") => heading # 0)
            => IsSeq(formatter(n, FALSE))
<1>1. Outside(<<>>)
  BY DEF Outside
<1>2. QED
  BY <1>1, InRowIs, EnterLeads, LeaveLeads DEF Leads

LEMMA EnterWalks ==
  ASSUME Parsed, Walk(stack, out, footnote_ix, heading, finished), Enter
  PROVE  \E t, w, f, h : /\ stack' = t /\ out' = w /\ footnote_ix' = f /\ heading' = h
                         /\ Walk(t, w, f, h, finished)
                         /\ /\ Nests(stack, out, footnote_ix, finished)
                            /\ Is("FootnoteDefinition") /\ footnote_ix = 0 => Parent(StackTop.node) = 1
                            => Nests(t, w, f, finished)
<1> DEFINE s == stack
           L == Len(s)
           n == StackTop.node
           t == Front(s) \o <<[s[L] EXCEPT !.phase = "Post"]>> \o Children(n, formatter_children(n))
           w == Written(formatter(n, TRUE))
           f == footnote_ix + (IF Is("FootnoteDefinition") THEN 1 ELSE 0)
           h == IF Is("Heading") /\ Has("header_id_prefix") THEN n ELSE heading
<1>1. /\ Stacked(s) /\ Kept(s, heading) /\ footnote_ix \in Nat /\ finished \in BOOLEAN /\ (finished => s = <<>>)
      /\ Clean(out) /\ s \in Seq(Entry) /\ Typed(s)
  BY DEF Walk, Stacked, Typed
<1>2. s # <<>> /\ StackTop.phase = "Pre" /\ StackTop.rendering = "HTML"
  BY DEF Enter
<1>3. L \in Nat /\ L > 0 /\ StackTop = s[L] /\ L \in 1..L /\ L \in 1..(L + 1)
  BY <1>1, <1>2 DEF StackTop, Last
<1>4. stack' = t /\ out' = w /\ footnote_ix' = f /\ heading' = h
  BY <1>3 DEF Enter, StackRest
<1>5. Grown(s, t)
  BY <1>1, <1>2, <1>3, EnterGrows
<1>6. finished = FALSE
  BY <1>1, <1>2
<1>7. n = s[L].node /\ n \in DocNodes /\ n # 0 /\ n \in Nat
  BY <1>1, <1>3, TreeFacts DEF Typed
<1>8. Clean(w)
  BY <1>1, <1>7, TokensAre, WrittenClean
<1> HIDE DEF s, L, n, t, w, f, h
<1>16. Stacked(t)
  BY <1>1, <1>5, GrownStacked
<1>17. Near(t, L, Len(t) + 1) /\ NodeAt(t, L) = n
  <2>1. /\ Len(t) \in Nat /\ Len(t) >= L /\ t[L].phase = "Post" /\ t[L].node = n
        /\ \A k \in (L + 1)..Len(t) : t[k].phase = "Pre"
    BY <1>5, <1>7 DEF Grown, L
  <2>2. Len(t) + 1 - 1 = Len(t) /\ L \in 0..Len(t) /\ L # 0
    BY <1>3, <2>1
  <2>3. QED
    BY <2>1, <2>2 DEF Near, NodeAt
<1>18. Kept(t, h)
  <2> SUFFICES ASSUME NEW k \in 1..Len(t), t[k].phase = "Post", Kind(t[k].node) = "Heading",
                      Kind(t[k].node) # doc.custom.kind, Has("header_id_prefix")
               PROVE  h # 0
    BY DEF Kept
  <2>1. Len(t) \in Nat /\ Len(t) >= L /\ \A i \in (L + 1)..Len(t) : t[i].phase = "Pre"
    BY <1>5 DEF Grown, L
  <2>2. k \in 1..L
    BY <1>3, <2>1
  <2>3. CASE k = L
    <3>1. t[k].node = n
      BY <1>5, <1>7, <2>3 DEF Grown, L
    <3>2. Is("Heading")
      BY <3>1 DEF Is, n
    <3>3. QED
      BY <1>7, <3>2 DEF h
  <2>4. CASE k # L
    <3>1. k \in 1..(Len(s) - 1) /\ k \in 1..Len(s)
      BY <1>3, <2>2, <2>4 DEF L
    <3>2. t[k] = s[k]
      BY <1>5, <3>1 DEF Grown
    <3>3. heading # 0
      BY <1>1, <3>1, <3>2 DEF Kept
    <3>4. QED
      BY <1>7, <3>3 DEF h
  <2>5. QED
    BY <2>3, <2>4
<1>19. f \in Nat
  BY <1>1 DEF f
<1>20. Walk(t, w, f, h, finished)
  BY <1>1, <1>6, <1>8, <1>16, <1>18, <1>19 DEF Walk
<1>21. ASSUME Nests(stack, out, footnote_ix, finished),
              Is("FootnoteDefinition") /\ footnote_ix = 0 => Parent(StackTop.node) = 1
       PROVE  Nests(t, w, f, finished)
  <2>1. PICK open, j : /\ Nesting(open, Section(footnote_ix, FALSE), Begun(s))
                       /\ Near(s, j, L + 1)
                       /\ Leads(<<>>, out, open[NodeAt(s, j)])
    BY <1>6, <1>21 DEF Nests, s, L
  <2> DEFINE a == open[Parent(n)]
  <2>2. Parent(n) = NodeAt(s, j)
    <3>1. PICK i \in 0..(L - 1) : Near(s, i, L) /\ Parent(n) = NodeAt(s, i)
      BY <1>1, <1>2, <1>3, <1>7 DEF Stacked, Nested, L
    <3>2. Near(s, i, L + 1)
      <4>1. i \in 0..(L + 1 - 1) /\ \A k \in (i + 1)..(L + 1 - 1) : k \in (i + 1)..(L - 1) \/ k = L
        BY <1>3
      <4>2. QED
        BY <1>2, <1>3, <3>1, <4>1 DEF Near
    <3>3. L + 1 \in Nat
      BY <1>3
    <3>4. i = j
      BY <2>1, <3>2, <3>3, NearOnce
    <3>5. QED
      BY <3>1, <3>4
  <2>3. Outside(a)
    BY <1>1, <1>2, <1>3, <1>7, <2>1, AllOutside, SectionIs DEF Stacked, L
  <2>4. f = footnote_ix + (IF Kind(s[Len(s)].node) = "FootnoteDefinition" /\ Kind(s[Len(s)].node) # doc.custom.kind
                           THEN 1 ELSE 0)
    BY <1>3 DEF f, Is, L
  <2>5. /\ Kind(s[Len(s)].node) = "FootnoteDefinition" /\ Kind(s[Len(s)].node) # doc.custom.kind /\ footnote_ix = 0
        => Parent(s[Len(s)].node) = 1
    BY <1>3, <1>21 DEF Is, L
  <2>6. PICK p : /\ Nesting(p, Section(f, FALSE), Begun(t))
                 /\ p[s[Len(s)].node] = Held(Ground(open[Parent(s[Len(s)].node)], s[Len(s)].node), s[Len(s)].node, FALSE)
    BY <1>1, <1>5, <2>1, <2>4, <2>5, EnterNesting
  <2>7. p[n] = Held(Ground(a, n), n, FALSE)
    BY <1>7, <2>6 DEF L
  <2>8. Leads(a, formatter(n, TRUE), p[n])
    BY <1>7, <2>3, <2>7, InRowIs, EnterLeads
  <2>9. Leads(<<>>, w, p[n])
    BY <1>1, <2>1, <2>2, <2>8, WrittenLeads DEF w
  <2>10. QED
    BY <1>6, <1>17, <2>6, <2>9 DEF Nests
<1>22. QED
  BY <1>4, <1>20, <1>21

LEMMA LeaveWalks ==
  ASSUME Parsed, Walk(stack, out, footnote_ix, heading, finished), Leave
  PROVE  \E t, w, h : /\ stack' = t /\ out' = w /\ heading' = h
                      /\ Walk(t, w, footnote_ix, h, finished)
                      /\ Nests(stack, out, footnote_ix, finished) => Nests(t, w, footnote_ix, finished)
<1> DEFINE s == stack
           L == Len(s)
           n == StackTop.node
           t == Front(s)
           w == Written(formatter(n, FALSE))
           h == IF Is("Heading") THEN 0 ELSE heading
<1>1. /\ Stacked(s) /\ Kept(s, heading) /\ footnote_ix \in Nat /\ finished \in BOOLEAN /\ (finished => s = <<>>)
      /\ Clean(out) /\ s \in Seq(Entry) /\ Typed(s)
  BY DEF Walk, Stacked, Typed
<1>2. s # <<>> /\ StackTop.phase = "Post"
  BY DEF Leave
<1>3. L \in Nat /\ L > 0 /\ StackTop = s[L] /\ L \in 1..L /\ L \in 1..(L + 1)
  BY <1>1, <1>2 DEF StackTop, Last
<1>4. stack' = t /\ out' = w /\ heading' = h
  BY DEF Leave, StackRest
<1>5. Cut(s, t)
  BY <1>1, <1>3, LeaveCuts
<1>6. finished = FALSE
  BY <1>1, <1>2
<1>7. n = s[L].node /\ n \in DocNodes /\ s[L].rendering = "HTML"
  BY <1>1, <1>2, <1>3 DEF Typed
<1>8. Kind(n) = "Heading" /\ Kind(n) # doc.custom.kind /\ Has("header_id_prefix") => heading # 0
  BY <1>1, <1>2, <1>3, <1>7 DEF Kept
<1>9. Clean(w)
  BY <1>1, <1>7, <1>8, TokensAre, WrittenClean
<1>10. PICK i \in 0..(L - 1) : Near(s, i, L) /\ Parent(n) = NodeAt(s, i)
  BY <1>1, <1>3, <1>7 DEF Stacked, Nested
<1>11. ~Waits(s, n)
  <2>1. \A k \in 1..L : s[k].rendering = "HTML" => Parent(s[k].node) # n
    BY <1>1, <1>3, <1>7, NoChildBelow DEF Stacked
  <2>2. QED
    BY <2>1 DEF Waits
<1> HIDE DEF s, n, t, w, h
<1>19. Stacked(t)
  BY <1>1, <1>5, CutStacked
<1>22. Kept(t, h)
  <2> SUFFICES ASSUME NEW k \in 1..Len(t), t[k].phase = "Post", Kind(t[k].node) = "Heading",
                      Kind(t[k].node) # doc.custom.kind, Has("header_id_prefix")
               PROVE  h # 0
    BY DEF Kept
  <2>1. Len(t) = L - 1
    BY <1>1, <1>3, FrontIs DEF t
  <2>2. k \in 1..(Len(s) - 1) /\ k \in 1..Len(s) /\ k < L /\ L \in 1..Len(s)
    BY <1>3, <2>1
  <2>3. t[k] = s[k]
    BY <1>5, <2>2 DEF Cut
  <2>4. heading # 0
    BY <1>1, <2>2, <2>3 DEF Kept
  <2>5. Kind(n) \notin Block
    BY <1>1, <1>7, <2>2, <2>3 DEF Stacked, Flat
  <2>6. ~Is("Heading")
    BY <2>5 DEF Is, n, Block
  <2>7. QED
    BY <2>4, <2>6 DEF h
<1>23. Walk(t, w, footnote_ix, h, finished)
  BY <1>1, <1>6, <1>9, <1>19, <1>22 DEF Walk
<1>24. ASSUME Nests(stack, out, footnote_ix, finished) PROVE Nests(t, w, footnote_ix, finished)
  <2>1. PICK open, j : /\ Nesting(open, Section(footnote_ix, FALSE), Begun(s))
                       /\ Near(s, j, L + 1)
                       /\ Leads(<<>>, out, open[NodeAt(s, j)])
    BY <1>6, <1>24 DEF Nests, s
  <2> DEFINE a == open[Parent(n)]
  <2>2. Near(s, L, L + 1)
    <3>1. L \in 0..(L + 1 - 1) /\ (L + 1)..(L + 1 - 1) = {}
      BY <1>3
    <3>2. QED
      BY <1>2, <1>3, <3>1 DEF Near
  <2>3. NodeAt(s, j) = n
    <3>1. L + 1 \in Nat
      BY <1>3
    <3>2. j = L
      BY <2>1, <2>2, <3>1, NearOnce
    <3>3. QED
      BY <1>3, <1>7, <3>2 DEF NodeAt
  <2>4. Outside(a)
    BY <1>1, <1>3, <1>7, <2>1, AllOutside, SectionIs DEF Stacked
  <2>5. (n \in Begun(s)) = HasBody(n)
    BY <1>7, <1>11 DEF Begun, HasBody
  <2>6. open[n] = Held(a, n, HasBody(n))
    BY <1>7, <2>1, <2>5 DEF Nesting
  <2>7. Leads(open[n], formatter(n, FALSE), a)
    BY <1>7, <1>8, <2>4, <2>6, InRowIs, LeaveLeads
  <2>8. Leads(<<>>, w, a)
    BY <1>1, <2>1, <2>3, <2>7, WrittenLeads DEF w
  <2>9. Begun(t) = Begun(s)
    BY <1>1, <1>2, <1>3, <1>5, CutBegun
  <2>10. Near(t, i, Len(t) + 1) /\ NodeAt(t, i) = Parent(n)
    BY <1>1, <1>5, <1>10, CutNear
  <2>11. QED
    BY <1>6, <2>1, <2>8, <2>9, <2>10 DEF Nests
<1>25. QED
  BY <1>4, <1>23, <1>24

LEMMA FinishWalks ==
  ASSUME Parsed, Walk(stack, out, footnote_ix, heading, finished), Finish
  PROVE  \E w : /\ out' = w /\ finished' = TRUE /\ Walk(stack, w, footnote_ix, heading, TRUE)
                /\ Nests(stack, out, footnote_ix, finished) => Nests(stack, w, footnote_ix, TRUE)
<1> DEFINE end == If(footnote_ix > 0, <<Close("ol"), Lf, Close("section"), Lf>>)
           w == Written(end)
<1>1. /\ Stacked(stack) /\ Kept(stack, heading) /\ footnote_ix \in Nat /\ Clean(out)
      /\ stack = <<>> /\ Len(stack) = 0 /\ finished = FALSE /\ out' = w /\ finished' = TRUE
  BY DEF Walk, Finish
<1>2. Leads(Section(footnote_ix, FALSE), end, <<>>)
  <2> DEFINE b == Append(<<>>, "section")
             c == Append(b, "ol")
  <2>1. {"section", "ol"} \subseteq Tag /\ Outside(<<>>)
    BY DEF Tag, Outside
  <2>2. Outside(b) /\ Outside(c)
    BY <2>1, OpenTag
  <2>3. Leads(c, <<Close("ol")>>, b) /\ Leads(b, <<Lf>>, b) /\ Leads(b, <<Close("section"), Lf>>, <<>>)
    BY <2>1, <2>2, CloseTag, QuietToken, TagLines DEF Outside, Quiet
  <2> HIDE DEF b, c
  <2>4. Leads(b, <<Lf, Close("section"), Lf>>, <<>>)
    BY <2>3, ThreeTokens
  <2>5. Leads(c, <<Close("ol"), Lf, Close("section"), Lf>>, <<>>)
    BY <2>3, <2>4, FourTokens
  <2>6. QED
    BY <2>5, NoTokens DEF Section, If, b, c
<1> HIDE DEF end
<1>3. Clean(w)
  BY <1>1, <1>2, WrittenClean DEF Leads
<1> HIDE DEF w
<1>4. Walk(stack, w, footnote_ix, heading, TRUE)
  BY <1>1, <1>3 DEF Walk
<1>5. ASSUME Nests(stack, out, footnote_ix, finished) PROVE Nests(stack, w, footnote_ix, TRUE)
  <2>1. PICK open, j : /\ Nesting(open, Section(footnote_ix, FALSE), Begun(stack))
                       /\ Near(stack, j, Len(stack) + 1)
                       /\ Leads(<<>>, out, open[NodeAt(stack, j)])
    BY <1>1, <1>5 DEF Nests
  <2>2. j = 0 /\ NodeAt(stack, j) = 0
    BY <1>1, <2>1 DEF Near, NodeAt
  <2>3. Leads(<<>>, out, Section(footnote_ix, FALSE))
    BY <2>1, <2>2 DEF Nesting
  <2>4. Leads(<<>>, w, <<>>)
    BY <1>1, <1>2, <2>3, WrittenLeads DEF w
  <2>5. PICK p : Nesting(p, <<>>, Begun(stack))
    BY NestingExists
  <2>6. p[NodeAt(stack, j)] = <<>> /\ Section(footnote_ix, TRUE) = <<>>
    BY <2>2, <2>5 DEF Nesting, Section
  <2>7. QED
    BY <2>1, <2>4, <2>5, <2>6 DEF Nests
<1>6. QED
  BY <1>1, <1>4, <1>5

-----------------------------------------------------------------------------
\* The document is not changed while it is rendered
LEMMA WalkSame ==
  ASSUME doc' = doc, NEW s, NEW w, NEW f, NEW h, NEW fin, Walk(s, w, f, h, fin)
  PROVE  Walk(s, w, f, h, fin)'
<1>1. \A n : /\ Kids(n)' = Kids(n) /\ Kind(n)' = Kind(n) /\ Parent(n)' = Parent(n) /\ Before(n)' = Before(n)
      BY DEF Kids, WithKid, Kind, Parent, Before, DocNodes
<1>2. DocNodes' = DocNodes
  BY DEF DocNodes
<1>3. Stacked(s)'
  <2>1. Typed(s)'
    BY <1>2 DEF Walk, Stacked, Typed
  <2>2. Nested(s)'
    BY <1>1 DEF Walk, Stacked, Nested, formatter_children, ChildRendering, Kind, Parent
  <2>3. Deeper(s)' /\ Once(s)'
    BY DEF Walk, Stacked, Deeper, Once
  <2>4. Flat(s)'
    BY DEF Walk, Stacked, Flat, Kind
  <2>5. QED
    BY <2>1, <2>2, <2>3, <2>4 DEF Stacked
<1>4. Kept(s, h)'
  BY DEF Walk, Kept, Kind, Has
<1>5. Walk(s, w, f, h, fin)'
  BY <1>3, <1>4 DEF Walk
<1>6. QED
  BY <1>5

LEMMA NestsSame ==
  ASSUME doc' = doc, NEW s, NEW w, NEW f, NEW fin, Nests(s, w, f, fin)
  PROVE  Nests(s, w, f, fin)'
<1>1. \A n : Parent(n)' = Parent(n)
  BY DEF Parent
<1>2. DocNodes' = DocNodes
  BY DEF DocNodes
<1>3. Begun(s)' = Begun(s)
  BY DEF Begun, Waits, HasBody, SecondRow, Kids, WithKid, Kind, Parent, Before, DocNodes
<1>4. \A n, a, b : Held(a, n, b)' = Held(a, n, b)
  BY DEF Held, Kind, Parent, Has, Tight, MarkTag, SpanTag
<1>5. PICK open, j : /\ Nesting(open, Section(f, fin), Begun(s))
                     /\ Near(s, j, Len(s) + 1)
                     /\ Leads(<<>>, w, open[NodeAt(s, j)])
  BY DEF Nests
<1>6. Nesting(open, Section(f, fin), Begun(s))'
  BY <1>1, <1>2, <1>3, <1>4, <1>5 DEF Nesting
<1>7. QED
  BY <1>5, <1>6 DEF Nests

\* A definition that is the first to be entered, but is no child of the root, opens the section in a block
LEMMA StillCounted ==
  ASSUME doc' = doc, Counted(footnote_ix, visits), NEW n, NEW e, visits' = Append(visits, <<n, e>>),
         footnote_ix \in Nat,
         footnote_ix' = footnote_ix + (IF Opens(<<n, e>>) THEN 1 ELSE 0)
  PROVE  /\ Counted(footnote_ix, visits)'
         /\ ~SectionInBlock' => ~SectionInBlock /\ (Opens(<<n, e>>) /\ footnote_ix = 0 => Parent(n) = 1)
<1>1. PICK T : visits \in Seq(T)
  BY DEF Counted, IsSeq
<1> DEFINE U == T \cup {<<n, e>>}
           x == <<n, e>>
           v == visits'
<1>2. visits \in Seq(U) /\ x \in U
  BY <1>1
<1> HIDE DEF U, x
<1>3. /\ v \in Seq(U) /\ Len(visits) \in Nat /\ DOMAIN visits = 1..Len(visits)
      /\ DOMAIN v = 1..(Len(visits) + 1)
      /\ \A k \in 1..Len(visits) : v[k] = visits[k]
      /\ v[Len(visits) + 1] = x
  BY <1>2 DEF x
<1>4. /\ \A u : Opens(u)' <=> Opens(u)
      /\ \A m : Parent(m)' = Parent(m)
  BY DEF Opens, Kind, Parent
<1> HIDE DEF v
<1>5. \A k \in DOMAIN v : (k \in DOMAIN visits /\ v[k] = visits[k]) \/ (k = Len(visits) + 1 /\ v[k] = x)
  BY <1>3
<1>6. \A k \in DOMAIN visits : k \in DOMAIN v /\ k <= Len(visits) + 1 /\ k \in Nat
  BY <1>3
<1>7. Counted(footnote_ix, visits)'
  <2>1. IsSeq(v)
    BY <1>3 DEF IsSeq
  <2>2. ASSUME footnote_ix' = 0, NEW k \in DOMAIN v PROVE ~Opens(v[k])
    <3>1. footnote_ix = 0 /\ ~Opens(x)
      BY <2>2 DEF x
    <3>2. QED
      BY <1>5, <3>1 DEF Counted
  <2>3. QED
    BY <1>4, <2>1, <2>2 DEF Counted, v
<1>8. ASSUME SectionInBlock PROVE SectionInBlock'
  <2>1. PICK k \in DOMAIN visits : /\ Opens(visits[k]) /\ Parent(visits[k][1]) # 1
                                   /\ \A j \in DOMAIN visits : Opens(visits[j]) => k <= j
    BY <1>8 DEF SectionInBlock
  <2>2. k \in DOMAIN v /\ v[k] = visits[k] /\ \A j \in DOMAIN v : Opens(v[j]) => k <= j
    BY <1>3, <1>5, <1>6, <2>1
  <2>3. QED
    BY <1>4, <2>1, <2>2 DEF SectionInBlock, v
<1>9. ASSUME Opens(x), footnote_ix = 0, Parent(n) # 1 PROVE SectionInBlock'
  <2> DEFINE k == Len(visits) + 1
  <2>1. k \in DOMAIN v /\ v[k] = x /\ k <= k /\ x[1] = n
    BY <1>3 DEF x
  <2> HIDE DEF k
  <2>2. \A j \in DOMAIN v : Opens(v[j]) => j = k
    BY <1>5, <1>9 DEF Counted, k
  <2>3. QED
    BY <1>4, <1>9, <2>1, <2>2 DEF SectionInBlock, v
<1>10. QED
  BY <1>7, <1>8, <1>9 DEF x

LEMMA RenderInvInit ==
  ASSUME RenderInit
  PROVE  RenderInv
<1>1. PICK d \in Documents : \E t \in d.trees, o \in d.options, c \in d.customs : Format(t, o, c)
  BY DEF RenderInit
<1>2. PICK t \in d.trees, o \in d.options, c \in d.customs : Format(t, o, c)
  BY <1>1
<1>3. /\ doc = [kind |-> t.kind, parent |-> t.parent, options |-> o, custom |-> c]
      /\ stack = <<[node |-> 1, rendering |-> "HTML", phase |-> "Pre"]>>
      /\ out = <<>> /\ footnote_ix = 0 /\ heading = 0 /\ finished = FALSE
  BY <1>2 DEF Format
<1>4. IsDocument(t) /\ c.kind \notin {"Document", "Table", "TableRow"} /\ c.children \in {"HTML", "Plain", "Skip"}
  BY <1>1, <1>2, DocumentsAreParsed
<1>5. doc.kind = t.kind /\ doc.parent = t.parent /\ doc.custom = c
  BY <1>3
<1>6. Parsed
  BY <1>4, <1>5 DEF Parsed, IsDocument
<1>7. 1 \in DocNodes /\ Parent(1) = 0
  BY <1>6, TreeFacts
<1> DEFINE x == [node |-> 1, rendering |-> "HTML", phase |-> "Pre"]
           s == <<x>>
<1>8. x \in Entry /\ x.node = 1 /\ x.rendering = "HTML" /\ x.phase = "Pre"
  BY DEF Entry
<1>9. s \in Seq(Entry) /\ Len(s) = 1 /\ s[1] = x /\ 1..1 = {1} /\ 1..2 = {1, 2}
  BY <1>8
<1> HIDE DEF s, x
<1>10. Near(s, 0, 1) /\ Near(s, 0, 2) /\ NodeAt(s, 0) = 0
  BY <1>8, <1>9 DEF Near, NodeAt
<1>11. Typed(s) /\ Deeper(s) /\ Once(s) /\ Flat(s) /\ Kept(s, 0)
  BY <1>7, <1>8, <1>9 DEF Typed, Deeper, Once, Flat, Kept
<1>12. Nested(s)
  <2>1. /\ 0 \in 0..(1 - 1) /\ 0 \in 0..(2 - 1) /\ Len(s) + 1 = 2 /\ ~(2 <= Len(s))
        /\ Parent(s[1].node) = NodeAt(s, 0)
    BY <1>7, <1>8, <1>9, <1>10
  <2>2. QED
    BY <1>9, <1>10, <2>1 DEF Nested
<1>13. PICK open : Nesting(open, Section(0, FALSE), Begun(s))
  BY <1>6, NestingExists
<1>14. open[NodeAt(s, 0)] = <<>>
  BY <1>10, <1>13 DEF Nesting, Section
<1>15. Clean(<<>>) /\ Leads(<<>>, <<>>, <<>>)
  <2>1. <<>> \in Seq({}) /\ Len(<<>>) = 0 /\ 1..0 = {}
    OBVIOUS
  <2>2. QED
    BY <2>1, NoTokens DEF Clean, IsSeq
<1>16. Near(s, 0, Len(s) + 1) /\ Leads(<<>>, <<>>, open[NodeAt(s, 0)])
  BY <1>9, <1>10, <1>14, <1>15
<1>17. Stacked(s)
  BY <1>11, <1>12 DEF Stacked
<1>18. Walk(s, <<>>, 0, 0, FALSE)
  BY <1>11, <1>15, <1>17 DEF Walk
<1>19. Nests(s, <<>>, 0, FALSE)
  BY <1>13, <1>16 DEF Nests
<1>20. Counted(footnote_ix, visits)
  <2>1. visits = <<>> /\ <<>> \in Seq({}) /\ DOMAIN <<>> = {}
    BY <1>2 DEF Format
  <2>2. QED
    BY <2>1 DEF Counted, IsSeq
<1>21. QED
  BY <1>3, <1>6, <1>18, <1>19, <1>20 DEF RenderInv, s, x

LEMMA RenderInvNext ==
  ASSUME RenderInv, [RenderNext]_renderVars
  PROVE  RenderInv'
<1>1. /\ Parsed /\ Counted(footnote_ix, visits) /\ Walk(stack, out, footnote_ix, heading, finished)
      /\ ~SectionInBlock => Nests(stack, out, footnote_ix, finished)
  BY DEF RenderInv
<1>2. footnote_ix \in Nat
  BY <1>1 DEF Walk
<1>3. /\ doc' = doc /\ Counted(footnote_ix, visits)'
      /\ \E s, w, f, h, fin : /\ stack' = s /\ out' = w /\ footnote_ix' = f /\ heading' = h /\ finished' = fin
                              /\ Walk(s, w, f, h, fin)
                              /\ ~SectionInBlock' => Nests(s, w, f, fin)
  <2>1. CASE Plain
    <3>1. doc' = doc /\ visits' = Append(visits, <<StackTop.node, "plain">>) /\ footnote_ix' = footnote_ix + 0
      BY <1>2, <2>1 DEF Plain
    <3>2. ~Opens(<<StackTop.node, "plain">>)
      BY DEF Opens
    <3>3. Counted(footnote_ix, visits)' /\ (~SectionInBlock' => ~SectionInBlock)
      BY <1>1, <1>2, <3>1, <3>2, StillCounted
    <3>4. QED
      BY <1>1, <2>1, <3>1, <3>3, PlainWalks DEF Plain
  <2>2. CASE Enter
    <3>1. /\ doc' = doc /\ visits' = Append(visits, <<StackTop.node, "enter">>) /\ finished' = finished
          /\ footnote_ix' = footnote_ix + (IF Is("FootnoteDefinition") THEN 1 ELSE 0)
      BY <2>2 DEF Enter
    <3>2. Opens(<<StackTop.node, "enter">>) <=> Is("FootnoteDefinition")
      BY DEF Opens, Is
    <3>3. /\ Counted(footnote_ix, visits)'
          /\ ~SectionInBlock' => ~SectionInBlock /\ (Is("FootnoteDefinition") /\ footnote_ix = 0 => Parent(StackTop.node) = 1)
      BY <1>1, <1>2, <3>1, <3>2, StillCounted
    <3>4. QED
      BY <1>1, <2>2, <3>1, <3>3, EnterWalks
  <2>3. CASE Leave
    <3>1. doc' = doc /\ visits' = Append(visits, <<StackTop.node, "leave">>) /\ footnote_ix' = footnote_ix + 0
      BY <1>2, <2>3 DEF Leave
    <3>2. ~Opens(<<StackTop.node, "leave">>)
      BY DEF Opens
    <3>3. Counted(footnote_ix, visits)' /\ (~SectionInBlock' => ~SectionInBlock)
      BY <1>1, <1>2, <3>1, <3>2, StillCounted
    <3>4. QED
      BY <1>1, <2>3, <3>1, <3>3, LeaveWalks DEF Leave
  <2>4. CASE UNCHANGED <<doc, footnote_ix, visits>>
    <3>1. Counted(footnote_ix, visits)' /\ (SectionInBlock' <=> SectionInBlock)
      BY <1>1, <2>4 DEF Counted, SectionInBlock, Opens, Kind, Parent
    <3>2. CASE Finish
      BY <1>1, <2>4, <3>1, <3>2, FinishWalks DEF Finish
    <3>3. CASE UNCHANGED renderVars
      BY <1>1, <2>4, <3>1, <3>3 DEF renderVars
    <3>4. QED
      BY <2>1, <2>2, <2>3, <3>2, <3>3 DEF RenderNext, RenderDone
  <2>5. QED
    BY <2>1, <2>2, <2>3, <2>4 DEF RenderNext, RenderDone, Finish, renderVars
<1>4. Parsed'
  BY <1>1, <1>3 DEF Parsed
<1>5. PICK s, w, f, h, fin : /\ stack' = s /\ out' = w /\ footnote_ix' = f /\ heading' = h /\ finished' = fin
                             /\ Walk(s, w, f, h, fin)
                             /\ ~SectionInBlock' => Nests(s, w, f, fin)
  BY <1>3
<1>6. Walk(s, w, f, h, fin)'
  BY <1>3, <1>5, WalkSame
<1>7. Nests(s, w, f, fin) => Nests(s, w, f, fin)'
  BY <1>3, NestsSame
<1>8. QED
  BY <1>3, <1>4, <1>5, <1>6, <1>7 DEF RenderInv

LEMMA RenderInvNests ==
  ASSUME RenderInv
  PROVE  WellNested
<1> SUFFICES ASSUME ~SectionInBlock PROVE TagsNest
  BY DEF WellNested
<1>1. Parsed /\ Walk(stack, out, footnote_ix, heading, finished) /\ Nests(stack, out, footnote_ix, finished)
  BY DEF RenderInv
<1>2. PICK open, j : /\ Nesting(open, Section(footnote_ix, finished), Begun(stack))
                     /\ Near(stack, j, Len(stack) + 1)
                     /\ Leads(<<>>, out, open[NodeAt(stack, j)])
  BY <1>1 DEF Nests
<1> DEFINE a == open[NodeAt(stack, j)]
<1>3. Typed(stack) /\ Clean(out) /\ Len(stack) \in Nat /\ (finished => stack = <<>>)
  BY <1>1 DEF Walk, Stacked, Typed
<1>4. a \in Seq(Mark)
  <2>1. Len(stack) + 1 \in 1..(Len(stack) + 1)
    BY <1>3
  <2>2. NodeAt(stack, j) \in 0..Size
    BY <1>1, <1>2, <1>3, <2>1, NodeAtIs
  <2>3. QED
    BY <1>1, <1>2, <2>2, SectionIs, NestingMarks
<1>5. a # <<>> => Last(a) # "wrong"
  BY <1>4 DEF Last, Mark, Tag
<1>6. finished => a = <<>>
  <2> SUFFICES ASSUME finished PROVE a = <<>>
    OBVIOUS
  <2>1. Len(stack) = 0 /\ j = 0
    BY <1>2, <1>3 DEF Near
  <2>2. QED
    BY <1>2, <2>1 DEF Nesting, NodeAt, Section
<1> HIDE DEF a
<1>7. QED
  BY <1>2, <1>3, <1>5, <1>6, OpenIs DEF a

\* Every document, under every combination of options and with any formatter of the embedder's that
\* leaves the root and the tables alone, is written with tags that nest: whatever a node looks at
\* when it is left, it closes what it opened when it was entered, and in the end nothing is open.
\* Definitions may be left anywhere, but the first that is rendered must be a child of the root.
THEOREM TagsAlwaysNest == RenderSpec => []WellNested
<1>1. RenderInit => RenderInv
  BY RenderInvInit
<1>2. RenderInv /\ [RenderNext]_renderVars => RenderInv'
  BY RenderInvNext
<1>3. RenderInv => WellNested
  BY RenderInvNests
<1>4. QED
  BY <1>1, <1>2, <1>3, PTL DEF RenderSpec

-----------------------------------------------------------------------------
(***************************************************************************)
(* Sequences of sequences                                                  *)
(***************************************************************************)
Plus(x, y) == x \o y

\* What is flattened after each of the sequences
Flattens(f, q, T) ==
  /\ f[0] = <<>>
  /\ \A i \in 1..Len(q) : f[i] = Plus(f[i - 1], q[i])
  /\ \A i \in 0..Len(q) : f[i] \in Seq(T)
  /\ f[Len(q)] = FlattenSeq(q)

LEMMA FlattenIs ==
  ASSUME NEW T, NEW q \in Seq(Seq(T))
  PROVE  \E f : Flattens(f, q, T)
<1> DEFINE N == Len(q)
           Upto(m, g) == g[0] = <<>> /\ \A k \in 1..m : g[k] = Plus(g[k - 1], q[k])
           S == {m \in Nat : \E g : Upto(m, g)}
<1> HIDE DEF N
<1>1. 0 \in S
  <2>1. Upto(0, [k \in {0} |-> <<>>])
    OBVIOUS
  <2>2. QED
    BY <2>1
<1>2. ASSUME NEW m \in S PROVE m + 1 \in S
  <2>1. PICK g : Upto(m, g)
    OBVIOUS
  <2> DEFINE e == [k \in 0..(m + 1) |-> IF k <= m THEN g[k] ELSE Plus(g[m], q[m + 1])]
  <2>2. m \in Nat /\ e[0] = <<>>
    BY <2>1
  <2>3. ASSUME NEW k \in 1..(m + 1) PROVE e[k] = Plus(e[k - 1], q[k])
    <3>1. k - 1 \in 0..(m + 1) /\ k - 1 <= m /\ k \in 0..(m + 1) /\ e[k - 1] = g[k - 1]
      BY <2>2
    <3>2. CASE k <= m
      <4>1. k \in 1..m /\ e[k] = g[k]
        BY <2>2, <3>1, <3>2
      <4>2. QED
        BY <2>1, <3>1, <4>1
    <3>3. CASE k = m + 1
      <4>1. ~(k <= m) /\ k - 1 = m
        BY <2>2, <3>3
      <4>2. e[k] = Plus(g[m], q[m + 1])
        BY <3>1, <4>1
      <4>3. QED
        BY <3>1, <3>3, <4>1, <4>2
    <3>4. QED
      BY <2>2, <3>2, <3>3
  <2> HIDE DEF e
  <2>4. QED
    BY <2>2, <2>3
<1>3. S = Nat /\ N \in Nat
  <2>1. N \in Nat
    BY DEF N
  <2>2. S = Nat
    BY <1>1, <1>2, EveryNumber
  <2>3. QED
    BY <2>1, <2>2
<1>4. PICK g : Upto(N, g)
  BY <1>3
<1> DEFINE P == {k \in Nat : k <= N => g[k] \in Seq(T)}
<1>5. 0 \in P
  <2>1. <<>> \in Seq(T)
    OBVIOUS
  <2>2. g[0] \in Seq(T)
    BY <1>4, <2>1
  <2>3. QED
    BY <2>2
<1>6. ASSUME NEW k \in P PROVE k + 1 \in P
  <2> SUFFICES ASSUME k + 1 <= N PROVE g[k + 1] \in Seq(T)
    OBVIOUS
  <2>1. k + 1 \in 1..N /\ k <= N /\ k + 1 - 1 = k
    BY <1>3
  <2>2. q[k + 1] \in Seq(T) /\ g[k] \in Seq(T)
    BY <2>1 DEF N
  <2>3. g[k + 1] = Plus(g[k], q[k + 1])
    BY <1>4, <2>1
  <2>4. QED
    BY <2>2, <2>3 DEF Plus
<1>7. P = Nat
  BY <1>5, <1>6, EveryNumber
<1>8. \A k \in 0..N : g[k] \in Seq(T)
  BY <1>3, <1>7
<1>9. g[N] = FlattenSeq(q)
  <2>1. CASE N = 0
    <3>1. q = <<>>
      BY <2>1 DEF N
    <3>2. FlattenSeq(q) = q
      BY <2>1 DEF FlattenSeq, N
    <3>3. QED
      BY <1>4, <2>1, <3>1, <3>2
  <2>2. CASE N # 0
    <3> DEFINE h == [k \in 1..N |-> g[k]]
               flatten[i \in 1..N] == IF i = 1 THEN q[i] ELSE Plus(flatten[i - 1], q[i])
    <3>1. ASSUME NEW k \in 1..N
          PROVE  h[k] = IF k = 1 THEN q[k] ELSE Plus(h[k - 1], q[k])
      <4>1. g[k] = Plus(g[k - 1], q[k]) /\ h[k] = g[k]
        BY <1>4
      <4>2. CASE k = 1
        <5>1. g[k - 1] = <<>> /\ q[k] \in Seq(T)
          BY <1>4, <4>2 DEF N
        <5>2. QED
          BY <4>1, <4>2, <5>1, ConcatEmptySeq DEF Plus
      <4>3. CASE k # 1
        <5>1. k - 1 \in 1..N
          BY <1>3, <4>3
        <5>2. QED
          BY <4>1, <4>3, <5>1
      <4>4. QED
        BY <4>2, <4>3
    <3>2. h = [i \in 1..N |-> IF i = 1 THEN q[i] ELSE Plus(h[i - 1], q[i])]
      <4>1. h = [i \in 1..N |-> h[i]]
        OBVIOUS
      <4> HIDE DEF h
      <4>2. QED
        BY <3>1, <4>1
    <3>3. flatten = [i \in 1..N |-> IF i = 1 THEN q[i] ELSE Plus(flatten[i - 1], q[i])]
      BY <3>2
    <3>4. FlattenSeq(q) = flatten[N]
      BY <2>2 DEF FlattenSeq, N, Plus
    <3> HIDE DEF h, flatten
    <3>5. \A i \in 1..N : flatten[i] = IF i = 1 THEN q[i] ELSE Plus(flatten[i - 1], q[i])
      BY <3>3, Zenon
    <3> DEFINE R == {k \in Nat : k + 1 <= N => flatten[k + 1] = g[k + 1]}
    <3>6. 0 \in R
      <4>1. 1 \in 1..N /\ 1 - 1 = 0 /\ q[1] \in Seq(T)
        BY <1>3, <2>2 DEF N
      <4>2. g[1] = Plus(<<>>, q[1]) /\ flatten[1] = q[1]
        BY <1>4, <3>5, <4>1
      <4>3. QED
        BY <4>1, <4>2, ConcatEmptySeq DEF Plus
    <3>7. ASSUME NEW k \in R PROVE k + 1 \in R
      <4> SUFFICES ASSUME k + 1 + 1 <= N PROVE flatten[k + 1 + 1] = g[k + 1 + 1]
        OBVIOUS
      <4> DEFINE j == k + 1 + 1
      <4>1. j \in 1..N /\ j # 1 /\ j - 1 = k + 1 /\ k + 1 <= N
        BY <1>3
      <4> HIDE DEF j
      <4>2. flatten[j] = Plus(flatten[j - 1], q[j]) /\ g[j] = Plus(g[j - 1], q[j])
        BY <1>4, <3>5, <4>1
      <4>3. flatten[k + 1] = g[k + 1]
        BY <4>1
      <4>4. QED
        BY <4>1, <4>2, <4>3 DEF j
    <3>8. R = Nat
      BY <3>6, <3>7, EveryNumber
    <3>9. N - 1 \in Nat /\ N - 1 + 1 = N
      BY <1>3, <2>2
    <3>10. N - 1 \in R
      <4> HIDE DEF R
      <4>1. QED
        BY <3>8, <3>9
    <3>11. flatten[N] = g[N]
      BY <1>3, <3>9, <3>10
    <3>12. QED
      BY <3>4, <3>11
  <2>3. QED
    BY <2>1, <2>2
<1>10. QED
  BY <1>4, <1>8, <1>9 DEF Flattens, N

LEMMA Joined ==
  ASSUME NEW T, NEW x \in Seq(T), NEW y \in Seq(T), NEW z \in Seq(T)
  PROVE  Plus(x, y) \in Seq(T) /\ Plus(Plus(x, y), z) = Plus(x, Plus(y, z))
BY ConcatAssociative DEF Plus

LEMMA NothingJoined ==
  ASSUME NEW T, NEW x \in Seq(T)
  PROVE  Plus(<<>>, x) = x /\ Plus(x, <<>>) = x
BY ConcatEmptySeq DEF Plus

\* The same from behind
LEMMA FlattenBackwards ==
  ASSUME NEW T, NEW q \in Seq(Seq(T)), NEW x \in Seq(T), NEW g,
         g[0] = x, \A i \in 1..Len(q) : g[i] = Plus(q[Len(q) + 1 - i], g[i - 1])
  PROVE  g[Len(q)] = Plus(FlattenSeq(q), x) /\ FlattenSeq(q) \in Seq(T)
<1> DEFINE N == Len(q)
<1>1. PICK f : Flattens(f, q, T)
  BY FlattenIs
<1>2. N \in Nat /\ \A i \in 1..N : q[i] \in Seq(T)
  OBVIOUS
<1>3. g[0] = x /\ \A i \in 1..N : g[i] = Plus(q[N + 1 - i], g[i - 1])
  OBVIOUS
<1> HIDE DEF N
<1> DEFINE S == {k \in Nat : k <= N => g[k] \in Seq(T) /\ Plus(f[N - k], g[k]) = Plus(f[N], x)}
<1>4. 0 \in S
  BY <1>2
<1>5. ASSUME NEW k \in S PROVE k + 1 \in S
  <2> SUFFICES ASSUME k + 1 <= N
               PROVE  g[k + 1] \in Seq(T) /\ Plus(f[N - (k + 1)], g[k + 1]) = Plus(f[N], x)
    OBVIOUS
  <2> DEFINE j == N - k
  <2>1. /\ k + 1 \in 1..N /\ k <= N /\ k + 1 - 1 = k /\ N + 1 - (k + 1) = j /\ j \in 1..N
        /\ j - 1 = N - (k + 1) /\ j - 1 \in 0..N
    BY <1>2
  <2>2. g[k] \in Seq(T) /\ Plus(f[j], g[k]) = Plus(f[N], x)
    BY <2>1
  <2> HIDE DEF j
  <2>3. g[k + 1] = Plus(q[j], g[k])
    BY <1>3, <2>1
  <2>4. f[j] = Plus(f[j - 1], q[j]) /\ f[j - 1] \in Seq(T) /\ q[j] \in Seq(T)
    BY <1>1, <1>2, <2>1 DEF Flattens, N
  <2>5. Plus(Plus(f[j - 1], q[j]), g[k]) = Plus(f[j - 1], Plus(q[j], g[k])) /\ Plus(q[j], g[k]) \in Seq(T)
    <3> DEFINE before == f[j - 1]
               piece == q[j]
               after == g[k]
    <3>1. before \in Seq(T) /\ piece \in Seq(T) /\ after \in Seq(T)
      BY <2>2, <2>4
    <3> HIDE DEF S, before, piece, after
    <3>2. Plus(Plus(before, piece), after) = Plus(before, Plus(piece, after)) /\ Plus(piece, after) \in Seq(T)
      BY <3>1, Joined
    <3>3. QED
      BY <3>2 DEF before, piece, after
  <2>6. QED
    BY <2>1, <2>2, <2>3, <2>4, <2>5
<1>6. S = Nat
  BY <1>4, <1>5, EveryNumber
<1>7. g[N] \in Seq(T) /\ Plus(f[0], g[N]) = Plus(f[N], x)
  <2>1. N \in S /\ N - N = 0
    <3> HIDE DEF S
    <3>1. QED
      BY <1>2, <1>6
  <2>2. QED
    BY <1>2, <2>1
<1>8. f[0] = <<>> /\ f[N] = FlattenSeq(q) /\ f[N] \in Seq(T)
  BY <1>1, <1>2 DEF Flattens, N
<1>9. QED
  BY <1>7, <1>8, NothingJoined DEF N

-----------------------------------------------------------------------------
(***************************************************************************)
(* The recursion over the tree                                             *)
(***************************************************************************)
Visit == DocNodes \X {"plain", "enter", "leave"}

\* What the recursion does with node n, given what it does with those below it
Turn(all, f, n) ==
  IF all THEN <<<<n, "enter">>>> \o Below(f, n) \o <<<<n, "leave">>>> ELSE <<<<n, "plain">>>> \o Each(f, n)

Recursion(all, f) == f = [n \in DocNodes |-> Turn(all, f, n)]

LEMMA KidsBelow ==
  ASSUME Parsed, NEW n
  PROVE  /\ DOMAIN Kids(n) = 1..Len(Kids(n)) /\ Len(Kids(n)) \in Nat
         /\ n \in DocNodes => \A i \in 1..Len(Kids(n)) : Kids(n)[i] \in DocNodes /\ Kids(n)[i] > n
<1> DEFINE s == Kids(n)
<1>1. s \in Seq(DocNodes) /\ \A i \in 1..Len(s) : doc.parent[s[i]] = n
  BY KidsAre
<1> HIDE DEF s
<1>2. DOMAIN s = 1..Len(s) /\ Len(s) \in Nat /\ \A i \in 1..Len(s) : s[i] \in DocNodes
  BY <1>1
<1>3. \A m \in DocNodes : m \in Nat /\ doc.parent[m] = Parent(m) /\ Parent(m) \in Nat /\ Parent(m) < m
  BY TreeFacts
<1>4. \A i \in 1..Len(s) : s[i] > n
  BY <1>1, <1>2, <1>3
<1>5. QED
  BY <1>2, <1>4 DEF s

\* Only what is below a node decides
LEMMA TurnSame ==
  ASSUME Parsed, NEW all, NEW f, NEW g, NEW n \in DocNodes, \A m \in DocNodes : m > n => f[m] = g[m]
  PROVE  Turn(all, f, n) = Turn(all, g, n)
<1> DEFINE s == Kids(n)
<1>1. DOMAIN s = 1..Len(s) /\ \A i \in 1..Len(s) : s[i] \in DocNodes /\ s[i] > n
  BY KidsBelow
<1> HIDE DEF s
<1>2. [i \in DOMAIN s |-> f[s[i]]] = [i \in DOMAIN s |-> g[s[i]]]
  BY <1>1
<1>3. Each(f, n) = Each(g, n)
  BY <1>2 DEF Each, s
<1>4. QED
  BY <1>3 DEF Turn, Below

LEMMA RecursionExists ==
  ASSUME Parsed, NEW all
  PROVE  \E f : Recursion(all, f)
<1> DEFINE Down(k, f) == \A n \in DocNodes : n > Size - k => f[n] = Turn(all, f, n)
           S == {k \in Nat : \E f : Down(k, f)}
<1>1. Size \in Nat /\ DocNodes = 1..Size
  BY TreeFacts
<1>2. 0 \in S
  <2>1. Down(0, <<>>)
    BY <1>1
  <2>2. QED
    BY <2>1
<1>3. ASSUME NEW k \in S PROVE k + 1 \in S
  <2>1. PICK f : Down(k, f)
    OBVIOUS
  <2> DEFINE t == Size - k
             g == [n \in DocNodes |-> IF n = t THEN Turn(all, f, n) ELSE f[n]]
  <2>2. k \in Nat /\ \A n \in DocNodes : n > Size - (k + 1) => n = t \/ n > t
    BY <1>1
  <2>3. \A n \in DocNodes : n > t => n # t
    BY <1>1, <2>2
  <2>4. \A n \in DocNodes : n > t => g[n] = f[n] /\ g[n] = Turn(all, f, n)
    BY <2>1, <2>3
  <2>5. t \in DocNodes => g[t] = Turn(all, f, t)
    OBVIOUS
  <2> HIDE DEF g
  <2>6. ASSUME NEW n \in DocNodes, n > Size - (k + 1) PROVE g[n] = Turn(all, g, n)
    <3>1. n = t \/ n > t
      BY <2>2, <2>6
    <3>2. \A m \in DocNodes : m > n => m > t
      BY <1>1, <2>2, <3>1
    <3>3. \A m \in DocNodes : m > n => f[m] = g[m]
      BY <2>4, <3>2
    <3>4. g[n] = Turn(all, f, n)
      BY <2>4, <2>5, <3>1
    <3> HIDE DEF t
    <3>5. Turn(all, f, n) = Turn(all, g, n)
      BY <3>3, TurnSame
    <3>6. QED
      BY <3>4, <3>5
  <2>7. QED
    BY <2>2, <2>6
<1>4. S = Nat
  BY <1>2, <1>3, EveryNumber
<1>5. PICK f : Down(Size, f)
  BY <1>1, <1>4
<1> DEFINE h == [n \in DocNodes |-> f[n]]
<1>6. ASSUME NEW n \in DocNodes PROVE h[n] = Turn(all, h, n)
  <2>1. n > Size - Size
    BY <1>1
  <2>2. f[n] = Turn(all, f, n)
    BY <1>5, <2>1
  <2>3. \A m \in DocNodes : m > n => f[m] = h[m]
    OBVIOUS
  <2>4. h[n] = f[n]
    OBVIOUS
  <2> HIDE DEF h
  <2>5. Turn(all, f, n) = Turn(all, h, n)
    BY <2>3, TurnSame
  <2>6. QED
    BY <2>2, <2>4, <2>5
<1>7. h = [n \in DocNodes |-> h[n]]
  OBVIOUS
<1> HIDE DEF h
<1>8. h = [n \in DocNodes |-> Turn(all, h, n)]
  BY <1>6, <1>7
<1>9. QED
  BY <1>8 DEF Recursion

LEMMA ToursAre ==
  ASSUME Parsed
  PROVE  Recursion(FALSE, PlainTour) /\ Recursion(TRUE, FullTour)
<1>1. Recursion(FALSE, PlainTour)
  <2> DEFINE plain[n \in DocNodes] == <<<<n, "plain">>>> \o Each(plain, n)
  <2>1. PlainTour = plain
    BY DEF PlainTour
  <2>2. \E f : f = [n \in DocNodes |-> <<<<n, "plain">>>> \o Each(f, n)]
    BY RecursionExists DEF Recursion, Turn
  <2>3. plain = [n \in DocNodes |-> <<<<n, "plain">>>> \o Each(plain, n)]
    BY <2>2
  <2> HIDE DEF plain
  <2>4. QED
    BY <2>1, <2>3 DEF Recursion, Turn
<1>2. Recursion(TRUE, FullTour)
  <2> DEFINE full[n \in DocNodes] == <<<<n, "enter">>>> \o Below(full, n) \o <<<<n, "leave">>>>
  <2>1. FullTour = full
    BY DEF FullTour
  <2>2. \E f : f = [n \in DocNodes |-> <<<<n, "enter">>>> \o Below(f, n) \o <<<<n, "leave">>>>]
    BY RecursionExists DEF Recursion, Turn
  <2>3. full = [n \in DocNodes |-> <<<<n, "enter">>>> \o Below(full, n) \o <<<<n, "leave">>>>]
    BY <2>2
  <2> HIDE DEF full
  <2>4. QED
    BY <2>1, <2>3 DEF Recursion, Turn
<1>3. QED
  BY <1>1, <1>2

LEMMA EachTyped ==
  ASSUME Parsed, NEW f, NEW n \in DocNodes, \A m \in DocNodes : m > n => f[m] \in Seq(Visit),
         NEW q, q = [i \in DOMAIN Kids(n) |-> f[Kids(n)[i]]]
  PROVE  /\ q \in Seq(Seq(Visit)) /\ Len(q) = Len(Kids(n)) /\ Each(f, n) = FlattenSeq(q) /\ Each(f, n) \in Seq(Visit)
         /\ \A i \in 1..Len(q) : q[i] = f[Kids(n)[i]]
<1> DEFINE s == Kids(n)
           N == Len(s)
<1>1. DOMAIN s = 1..N /\ N \in Nat /\ \A i \in 1..N : s[i] \in DocNodes /\ s[i] > n
  BY KidsBelow
<1>2. q = [i \in DOMAIN s |-> f[s[i]]]
  OBVIOUS
<1>3. Each(f, n) = FlattenSeq(q)
  BY DEF Each
<1> HIDE DEF N, s
<1>4. q = [i \in 1..N |-> f[s[i]]]
  BY <1>1, <1>2
<1>5. \A i \in 1..N : f[s[i]] \in Seq(Visit)
  BY <1>1
<1>6. q \in Seq(Seq(Visit)) /\ Len(q) = N /\ \A i \in 1..N : q[i] = f[s[i]]
  BY <1>1, <1>4, <1>5
<1>7. PICK g : Flattens(g, q, Visit)
  BY <1>6, FlattenIs
<1>8. FlattenSeq(q) \in Seq(Visit)
  <2>1. Len(q) \in 0..Len(q)
    BY <1>1, <1>6
  <2>2. QED
    BY <1>7, <2>1 DEF Flattens
<1>9. QED
  BY <1>3, <1>6, <1>8 DEF N, s

LEMMA VisitsTyped ==
  ASSUME NEW n \in DocNodes, NEW v \in {"plain", "enter", "leave"}
  PROVE  <<<<n, v>>>> \in Seq(Visit)
<1>1. <<n, v>> \in Visit
  BY DEF Visit
<1>2. QED
  BY <1>1

LEMMA TurnTyped ==
  ASSUME Parsed, NEW all, NEW f, NEW n \in DocNodes, \A m \in DocNodes : m > n => f[m] \in Seq(Visit),
         all => \A m \in DocNodes : PlainTour[m] \in Seq(Visit)
  PROVE  Turn(all, f, n) \in Seq(Visit)
<1>1. Each(f, n) \in Seq(Visit) /\ (all => Each(PlainTour, n) \in Seq(Visit))
  BY EachTyped
<1>2. <<<<n, "enter">>>> \in Seq(Visit) /\ <<<<n, "leave">>>> \in Seq(Visit) /\ <<<<n, "plain">>>> \in Seq(Visit)
  BY VisitsTyped
<1>3. CASE all
  <2>1. Below(f, n) \in Seq(Visit)
    BY <1>1, <1>3 DEF Below
  <2>2. QED
    BY <1>2, <1>3, <2>1 DEF Turn
<1>4. CASE ~all
  BY <1>1, <1>2, <1>4 DEF Turn
<1>5. QED
  BY <1>3, <1>4

LEMMA RecursionTyped ==
  ASSUME Parsed, NEW all, NEW f, Recursion(all, f), all => \A m \in DocNodes : PlainTour[m] \in Seq(Visit)
  PROVE  \A n \in DocNodes : f[n] \in Seq(Visit)
<1> DEFINE S == {k \in Nat : \A n \in DocNodes : n > Size - k => f[n] \in Seq(Visit)}
<1>1. Size \in Nat /\ DocNodes = 1..Size
  BY TreeFacts
<1>2. 0 \in S
  BY <1>1
<1>3. ASSUME NEW k \in S PROVE k + 1 \in S
  <2> SUFFICES ASSUME NEW n \in DocNodes, n > Size - (k + 1) PROVE f[n] \in Seq(Visit)
    OBVIOUS
  <2>1. \A m \in DocNodes : m > n => m > Size - k
    BY <1>1
  <2>2. \A m \in DocNodes : m > n => f[m] \in Seq(Visit)
    BY <2>1
  <2>3. f[n] = Turn(all, f, n)
    BY DEF Recursion
  <2> HIDE DEF S
  <2>4. QED
    BY <2>2, <2>3, TurnTyped
<1>4. S = Nat
  BY <1>2, <1>3, EveryNumber
<1>5. \A n \in DocNodes : n > Size - Size
  BY <1>1
<1>6. QED
  BY <1>1, <1>4, <1>5

LEMMA ToursTyped ==
  ASSUME Parsed
  PROVE  \A n \in DocNodes : PlainTour[n] \in Seq(Visit) /\ FullTour[n] \in Seq(Visit)
<1>1. \A n \in DocNodes : PlainTour[n] \in Seq(Visit)
  BY ToursAre, RecursionTyped
<1>2. QED
  BY <1>1, ToursAre, RecursionTyped

-----------------------------------------------------------------------------
(***************************************************************************)
(* What the stack stands for                                               *)
(***************************************************************************)
\* What an entry on the stack will do before the entry below it has its turn
Ahead(e) ==
  IF e.phase = "Post" THEN <<<<e.node, "leave">>>>
  ELSE IF e.rendering = "HTML" THEN FullTour[e.node]
  ELSE PlainTour[e.node]

Lays(r, s, x) == r[0] = x /\ \A k \in 1..Len(s) : r[k] = Plus(Ahead(s[k]), r[k - 1])

\* The entries of s do y before what is below them does x
Covers(s, x, y) == \E r : Lays(r, s, x) /\ r[Len(s)] = y

LEMMA AheadTyped ==
  ASSUME Parsed, NEW e \in Entry, e.node \in DocNodes
  PROVE  Ahead(e) \in Seq(Visit)
BY ToursTyped, VisitsTyped DEF Ahead

LEMMA LaysExist ==
  ASSUME NEW s, Len(s) \in Nat, NEW x
  PROVE  \E r : Lays(r, s, x)
<1> DEFINE Upto(m, r) == r[0] = x /\ \A k \in 1..m : r[k] = Plus(Ahead(s[k]), r[k - 1])
           S == {m \in Nat : \E r : Upto(m, r)}
<1>1. 0 \in S
  <2>1. Upto(0, [k \in {0} |-> x])
    OBVIOUS
  <2>2. QED
    BY <2>1
<1>2. ASSUME NEW m \in S PROVE m + 1 \in S
  <2>1. PICK g : Upto(m, g)
    OBVIOUS
  <2> DEFINE e == [k \in 0..(m + 1) |-> IF k <= m THEN g[k] ELSE Plus(Ahead(s[m + 1]), g[m])]
  <2>2. m \in Nat /\ e[0] = x
    BY <2>1
  <2>3. ASSUME NEW k \in 1..(m + 1) PROVE e[k] = Plus(Ahead(s[k]), e[k - 1])
    <3>1. k - 1 \in 0..(m + 1) /\ k - 1 <= m /\ k \in 0..(m + 1) /\ e[k - 1] = g[k - 1]
      BY <2>2
    <3>2. CASE k <= m
      <4>1. k \in 1..m /\ e[k] = g[k]
        BY <2>2, <3>1, <3>2
      <4>2. QED
        BY <2>1, <3>1, <4>1
    <3>3. CASE k = m + 1
      <4>1. ~(k <= m) /\ k - 1 = m
        BY <2>2, <3>3
      <4>2. e[k] = Plus(Ahead(s[m + 1]), g[m])
        BY <3>1, <4>1
      <4>3. QED
        BY <3>1, <3>3, <4>1, <4>2
    <3>4. QED
      BY <2>2, <3>2, <3>3
  <2> HIDE DEF e
  <2>4. QED
    BY <2>2, <2>3
<1>3. S = Nat
  BY <1>1, <1>2, EveryNumber
<1>4. QED
  BY <1>3 DEF Lays

LEMMA CoversTyped ==
  ASSUME Parsed, NEW s, Typed(s), NEW x \in Seq(Visit), NEW y, Covers(s, x, y)
  PROVE  y \in Seq(Visit)
<1>1. PICK r : Lays(r, s, x) /\ r[Len(s)] = y
  BY DEF Covers
<1>2. Len(s) \in Nat /\ \A k \in 1..Len(s) : Ahead(s[k]) \in Seq(Visit)
  BY AheadTyped DEF Typed
<1> DEFINE S == {k \in Nat : k <= Len(s) => r[k] \in Seq(Visit)}
<1>3. 0 \in S
  BY <1>1 DEF Lays
<1>4. ASSUME NEW k \in S PROVE k + 1 \in S
  <2> SUFFICES ASSUME k + 1 <= Len(s) PROVE r[k + 1] \in Seq(Visit)
    OBVIOUS
  <2>1. k + 1 \in 1..Len(s) /\ k <= Len(s) /\ k + 1 - 1 = k
    BY <1>2
  <2>2. r[k + 1] = Plus(Ahead(s[k + 1]), r[k]) /\ r[k] \in Seq(Visit) /\ Ahead(s[k + 1]) \in Seq(Visit)
    BY <1>1, <1>2, <2>1 DEF Lays
  <2> HIDE DEF S
  <2>3. QED
    BY <2>2 DEF Plus
<1>5. S = Nat
  BY <1>3, <1>4, EveryNumber
<1>6. QED
  BY <1>1, <1>2, <1>5

LEMMA CoversJoined ==
  ASSUME NEW s \in Seq(Entry), NEW t \in Seq(Entry), NEW x, NEW y, NEW z, Covers(s, x, y), Covers(t, y, z)
  PROVE  Covers(s \o t, x, z)
<1> DEFINE m == Len(s)
           n == Len(t)
           u == s \o t
<1>1. PICK f : Lays(f, s, x) /\ f[m] = y
  BY DEF Covers
<1>2. PICK g : Lays(g, t, y) /\ g[n] = z
  BY DEF Covers
<1>3. /\ f[0] = x /\ \A k \in 1..m : f[k] = Plus(Ahead(s[k]), f[k - 1])
      /\ g[0] = y /\ \A k \in 1..n : g[k] = Plus(Ahead(t[k]), g[k - 1])
  BY <1>1, <1>2 DEF Lays
<1>4. /\ m \in Nat /\ n \in Nat /\ Len(u) = m + n
      /\ \A k \in 1..m : u[k] = s[k]
      /\ \A k \in 1..n : u[m + k] = t[k]
  BY JoinedAt
<1> HIDE DEF m, n, u
<1> DEFINE r == [k \in 0..(m + n) |-> IF k <= m THEN f[k] ELSE g[k - m]]
<1>5. r[0] = x
  BY <1>3, <1>4
<1>6. \A k \in 0..n : r[m + k] = g[k]
  <2> SUFFICES ASSUME NEW k \in 0..n PROVE r[m + k] = g[k]
    OBVIOUS
  <2>1. m + k \in 0..(m + n) /\ m + k - m = k /\ (m + k <= m => k = 0)
    BY <1>4
  <2>2. CASE k = 0
    <3>1. m + k = m /\ m <= m /\ m \in 0..(m + n)
      BY <1>4, <2>2
    <3>2. r[m + k] = f[m]
      BY <3>1
    <3>3. QED
      BY <1>1, <1>3, <2>2, <3>2
  <2>3. CASE k # 0
    <3> DEFINE p == m + k
    <3>1. ~(p <= m) /\ p \in 0..(m + n) /\ p - m = k
      BY <1>4, <2>1, <2>3
    <3> HIDE DEF p
    <3>2. r[p] = g[k]
      BY <3>1
    <3>3. QED
      BY <3>2 DEF p
  <2>4. QED
    BY <2>2, <2>3
<1>7. \A k \in 0..m : r[k] = f[k]
  BY <1>4
<1> HIDE DEF r
<1>8. ASSUME NEW k \in 1..(m + n) PROVE r[k] = Plus(Ahead(u[k]), r[k - 1])
  <2>1. CASE k <= m
    <3>1. k \in 1..m /\ k \in 0..m /\ k - 1 \in 0..m
      BY <1>4, <2>1
    <3>2. QED
      BY <1>3, <1>4, <1>7, <3>1
  <2>2. CASE ~(k <= m)
    <3> DEFINE j == k - m
    <3>1. j \in 1..n /\ j \in 0..n /\ j - 1 \in 0..n /\ m + j = k /\ m + (j - 1) = k - 1
      BY <1>4, <2>2
    <3> HIDE DEF j
    <3>2. r[m + j] = g[j] /\ r[m + (j - 1)] = g[j - 1] /\ u[m + j] = t[j]
      BY <1>4, <1>6, <3>1
    <3>3. QED
      BY <1>3, <3>1, <3>2
  <2>3. QED
    BY <2>1, <2>2
<1>9. r[m + n] = z
  BY <1>2, <1>4, <1>6
<1>10. QED
  BY <1>4, <1>5, <1>8, <1>9 DEF Covers, Lays, u

LEMMA CoversTop ==
  ASSUME Parsed, NEW s, Typed(s), Len(s) > 0, NEW y, Covers(s, <<>>, y)
  PROVE  \E x \in Seq(Visit) : Covers(Front(s), <<>>, x) /\ y = Plus(Ahead(s[Len(s)]), x)
<1> DEFINE t == Front(s)
           L == Len(s)
<1>1. /\ t \in Seq(Entry) /\ L \in Nat /\ Len(t) = L - 1 /\ s \in Seq(Entry)
      /\ \A k \in 1..(L - 1) : t[k] = s[k]
  BY FrontIs DEF Typed
<1> HIDE DEF t, L
<1>2. PICK r : Lays(r, s, <<>>) /\ r[L] = y
  BY DEF Covers, L
<1>3. r[0] = <<>> /\ \A k \in 1..L : r[k] = Plus(Ahead(s[k]), r[k - 1])
  BY <1>2 DEF Lays, L
<1>4. \A k \in 1..Len(t) : k \in 1..L /\ t[k] = s[k]
  BY <1>1
<1>5. Lays(r, t, <<>>)
  BY <1>3, <1>4 DEF Lays
<1>6. Covers(t, <<>>, r[L - 1])
  BY <1>1, <1>5 DEF Covers
<1>7. Typed(t)
  BY <1>1, <1>4 DEF Typed, L
<1>8. r[L - 1] \in Seq(Visit)
  <2>1. <<>> \in Seq(Visit)
    OBVIOUS
  <2>2. QED
    BY <1>6, <1>7, <2>1, CoversTyped
<1>9. y = Plus(Ahead(s[L]), r[L - 1])
  <2>1. L \in 1..L
    BY <1>1 DEF L
  <2>2. QED
    BY <1>2, <1>3, <2>1
<1>10. QED
  BY <1>6, <1>8, <1>9 DEF t, L

LEMMA CoversOne ==
  ASSUME NEW e \in Entry, NEW x
  PROVE  Covers(<<e>>, x, Plus(Ahead(e), x))
<1> DEFINE s == <<e>>
<1>1. Len(s) = 1 /\ s[1] = e
  OBVIOUS
<1> HIDE DEF s
<1>2. PICK r : Lays(r, s, x)
  BY <1>1, LaysExist
<1>3. 1 \in 1..Len(s) /\ 1 - 1 = 0
  BY <1>1
<1>4. r[1] = Plus(Ahead(e), x)
  BY <1>1, <1>2, <1>3 DEF Lays
<1>5. QED
  BY <1>1, <1>2, <1>4 DEF Covers, s

\* The children, pushed in reverse, do what the recursion does with them in order
LEMMA CoversKids ==
  ASSUME Parsed, NEW n \in DocNodes, NEW rend \in {"HTML", "Plain", "Skip"}, NEW x \in Seq(Visit)
  PROVE  Covers(Children(n, rend), x,
                Plus(CASE rend = "Skip" -> <<>> [] rend = "Plain" -> Each(PlainTour, n) [] OTHER -> Each(FullTour, n), x))
<1> DEFINE c == Children(n, rend)
           s == Kids(n)
           N == Len(s)
           tour == IF rend = "HTML" THEN FullTour ELSE PlainTour
           q == [i \in DOMAIN s |-> tour[s[i]]]
<1>1. CASE rend = "Skip"
  <2>1. c = <<>>
    BY <1>1 DEF Children
  <2>2. PICK r : Lays(r, <<>>, x)
    BY LaysExist
  <2>3. r[Len(<<>>)] = x
    BY <2>2 DEF Lays
  <2>4. Covers(<<>>, x, x)
    BY <2>2, <2>3 DEF Covers
  <2>5. QED
    BY <1>1, <2>1, <2>4, NothingJoined
<1>2. CASE rend # "Skip"
  <2>1. \A m \in DocNodes : tour[m] \in Seq(Visit)
    BY ToursTyped
  <2>2. c = Children(n, rend) /\ q = [i \in DOMAIN Kids(n) |-> tour[Kids(n)[i]]]
    OBVIOUS
  <2>3. /\ s \in Seq(DocNodes) /\ DOMAIN s = 1..N /\ N \in Nat
    BY KidsAre, KidsBelow
  <2> HIDE DEF tour
  <2>4. /\ q \in Seq(Seq(Visit)) /\ Len(q) = N /\ Each(tour, n) = FlattenSeq(q)
        /\ \A i \in 1..Len(q) : q[i] = tour[s[i]]
    BY <2>1, <2>2, EachTyped
  <2>5. c \in Seq(Entry)
    BY <2>2, ChildrenAre
  <2> HIDE DEF q
  <2>6. c = [i \in DOMAIN Reverse(s) |-> [node |-> Reverse(s)[i], rendering |-> rend, phase |-> "Pre"]]
    BY <1>2 DEF Children
  <2>7. Reverse(s) = [i \in 1..N |-> s[(N - i) + 1]]
    BY DEF Reverse
  <2> HIDE DEF c, s, N
  <2>8. DOMAIN Reverse(s) = 1..N /\ \A i \in 1..N : Reverse(s)[i] = s[(N - i) + 1]
    BY <2>7
  <2>9. /\ DOMAIN c = 1..N
        /\ \A i \in 1..N : c[i] = [node |-> s[(N - i) + 1], rendering |-> rend, phase |-> "Pre"]
    BY <2>6, <2>8
  <2>10. Len(c) = N
    BY <2>3, <2>5, <2>9
  <2>11. \A i \in 1..N : Ahead(c[i]) = tour[s[(N - i) + 1]]
    BY <1>2, <2>9 DEF Ahead, tour
  <2>12. \A i \in 1..N : N + 1 - i \in 1..N /\ (N - i) + 1 = N + 1 - i
    BY <2>3
  <2>13. ASSUME NEW i \in 1..N PROVE Ahead(c[i]) = q[N + 1 - i]
    <3> DEFINE j == N + 1 - i
    <3>1. j \in 1..N /\ (N - i) + 1 = j
      BY <2>12
    <3>2. Ahead(c[i]) = tour[s[j]]
      BY <2>11, <3>1
    <3> HIDE DEF j
    <3>3. j \in 1..Len(q)
      BY <2>4, <3>1
    <3>4. q[j] = tour[s[j]]
      BY <2>4, <3>3
    <3>5. QED
      BY <3>2, <3>4 DEF j
  <2>14. PICK r : Lays(r, c, x)
    BY <2>3, <2>10, LaysExist
  <2>15. r[0] = x /\ \A i \in 1..Len(q) : r[i] = Plus(q[Len(q) + 1 - i], r[i - 1])
    BY <2>4, <2>10, <2>13, <2>14 DEF Lays
  <2>16. r[Len(q)] = Plus(FlattenSeq(q), x)
    BY <2>4, <2>15, FlattenBackwards
  <2>17. Covers(c, x, Plus(Each(tour, n), x))
    BY <2>4, <2>10, <2>14, <2>16 DEF Covers
  <2>18. QED
    BY <1>2, <2>17 DEF c, tour
<1>3. QED
  BY <1>1, <1>2

-----------------------------------------------------------------------------
(***************************************************************************)
(* What has been done                                                      *)
(***************************************************************************)
\* What has been done, and what the stack stands for, is the recursion
Toured(s, v, fin) ==
  /\ v \in Seq(Visit)
  /\ fin => s = <<>>
  /\ \E y \in Seq(Visit) : Covers(s, <<>>, y) /\ Plus(v, y) = Tour

LEMMA Appended ==
  ASSUME NEW T, NEW s \in Seq(T), NEW e \in T
  PROVE  Append(s, e) = Plus(s, <<e>>)
<1>1. Append(s, e) = s \o <<e>>
  BY AppendIsConcat, Zenon
<1>2. QED
  BY <1>1 DEF Plus

LEMMA Visited ==
  ASSUME NEW s \in Seq(Visit), NEW n \in DocNodes, NEW k \in {"plain", "enter", "leave"}
  PROVE  Append(s, <<n, k>>) = Plus(s, <<<<n, k>>>>)
<1>1. <<n, k>> \in Visit
  BY DEF Visit
<1>2. QED
  BY <1>1, Appended

LEMMA PlainTours ==
  ASSUME Parsed, Typed(stack), Toured(stack, visits, finished), Plain
  PROVE  \E t, v : stack' = t /\ visits' = v /\ Toured(t, v, finished)
<1> DEFINE s == stack
           L == Len(s)
           n == s[L].node
           u == Front(s)
           c == Children(n, "Plain")
           t == u \o c
           v == Append(visits, <<n, "plain">>)
<1>1. s # <<>> /\ s \in Seq(Entry) /\ L \in Nat /\ L > 0 /\ StackTop = s[L] /\ StackRest = u
  BY DEF Plain, Typed, StackTop, StackRest, Last
<1>2. s[L].phase = "Pre" /\ s[L].rendering = "Plain" /\ stack' = t /\ visits' = v
  BY <1>1 DEF Plain
<1>3. n \in DocNodes /\ u \in Seq(Entry)
  BY <1>1, FrontIs DEF Typed
<1>4. PICK y \in Seq(Visit) : Covers(s, <<>>, y) /\ Plus(visits, y) = Tour
  BY DEF Toured
<1>5. PICK x \in Seq(Visit) : Covers(u, <<>>, x) /\ y = Plus(Ahead(s[L]), x)
  BY <1>1, <1>4, CoversTop
<1> DEFINE b == Each(PlainTour, n)
           h == <<<<n, "plain">>>>
<1>6. Ahead(s[L]) = Plus(h, b)
  <2>1. Ahead(s[L]) = PlainTour[n]
    BY <1>2 DEF Ahead
  <2>2. PlainTour[n] = Turn(FALSE, PlainTour, n)
    BY <1>3, ToursAre DEF Recursion
  <2>3. QED
    BY <2>1, <2>2 DEF Turn, Plus
<1>7. b \in Seq(Visit) /\ h \in Seq(Visit) /\ visits \in Seq(Visit)
  BY <1>3, ToursTyped, EachTyped, VisitsTyped DEF Toured
<1>8. c \in Seq(Entry)
  BY ChildrenAre
<1>9. Covers(c, x, Plus(b, x))
  BY <1>3, <1>5, CoversKids
<1>10. v = Plus(visits, h)
  BY <1>3, <1>7, Visited
<1> HIDE DEF s, L, n, u, c, v, b, h
<1>11. Covers(t, <<>>, Plus(b, x))
  BY <1>3, <1>5, <1>8, <1>9, CoversJoined
<1>12. Plus(b, x) \in Seq(Visit) /\ Plus(Plus(h, b), x) = Plus(h, Plus(b, x))
  BY <1>5, <1>7, Joined
<1>13. v \in Seq(Visit) /\ Plus(v, Plus(b, x)) = Plus(visits, Plus(h, Plus(b, x)))
  BY <1>7, <1>10, <1>12, Joined
<1>14. ~finished
  BY <1>1 DEF Toured, s
<1>15. Toured(t, v, finished)
  BY <1>4, <1>5, <1>6, <1>11, <1>12, <1>13, <1>14 DEF Toured
<1>16. QED
  BY <1>2, <1>15

LEMMA EnterTours ==
  ASSUME Parsed, Typed(stack), Toured(stack, visits, finished), Enter
  PROVE  \E t, v : stack' = t /\ visits' = v /\ Toured(t, v, finished)
<1> DEFINE s == stack
           L == Len(s)
           n == s[L].node
           u == Front(s)
           e == [s[L] EXCEPT !.phase = "Post"]
           c == Children(n, formatter_children(n))
           w == u \o <<e>>
           t == w \o c
           v == Append(visits, <<n, "enter">>)
<1>1. s # <<>> /\ s \in Seq(Entry) /\ L \in Nat /\ L > 0 /\ StackTop = s[L] /\ StackRest = u
  BY DEF Enter, Typed, StackTop, StackRest, Last
<1>2. s[L].phase = "Pre" /\ s[L].rendering = "HTML" /\ stack' = t /\ visits' = v
  BY <1>1 DEF Enter
<1>3. n \in DocNodes /\ u \in Seq(Entry) /\ s[L] \in Entry
  BY <1>1, FrontIs DEF Typed
<1>4. PICK y \in Seq(Visit) : Covers(s, <<>>, y) /\ Plus(visits, y) = Tour
  BY DEF Toured
<1>5. PICK x \in Seq(Visit) : Covers(u, <<>>, x) /\ y = Plus(Ahead(s[L]), x)
  BY <1>1, <1>4, CoversTop
<1> DEFINE b == Below(FullTour, n)
           h == <<<<n, "enter">>>>
           l == <<<<n, "leave">>>>
<1>6. formatter_children(n) \in {"HTML", "Plain", "Skip"}
  BY DEF formatter_children, ChildRendering, Parsed
<1>7. b \in Seq(Visit) /\ h \in Seq(Visit) /\ l \in Seq(Visit) /\ visits \in Seq(Visit)
  <2>1. Each(PlainTour, n) \in Seq(Visit) /\ Each(FullTour, n) \in Seq(Visit)
    BY <1>3, ToursTyped, EachTyped
  <2>2. b \in Seq(Visit)
    BY <2>1 DEF Below
  <2>3. h \in Seq(Visit) /\ l \in Seq(Visit)
    BY <1>3, VisitsTyped
  <2>4. QED
    BY <2>2, <2>3 DEF Toured
<1>8. Ahead(s[L]) = Plus(Plus(h, b), l)
  <2>1. Ahead(s[L]) = FullTour[n]
    BY <1>2 DEF Ahead
  <2>2. FullTour[n] = Turn(TRUE, FullTour, n)
    BY <1>3, ToursAre DEF Recursion
  <2>3. QED
    BY <2>1, <2>2 DEF Turn, Plus
<1>9. c \in Seq(Entry) /\ e \in Entry /\ Ahead(e) = l
  <2>1. e.phase = "Post" /\ e.node = n /\ e \in Entry
    BY <1>3 DEF Entry
  <2>2. QED
    BY <1>6, <2>1, ChildrenAre DEF Ahead
<1> HIDE DEF e, l
<1>10. Covers(<<e>>, x, Plus(l, x)) /\ <<e>> \in Seq(Entry)
  <2>1. Covers(<<e>>, x, Plus(Ahead(e), x)) /\ <<e>> \in Seq(Entry)
    BY <1>9, CoversOne
  <2>2. QED
    BY <1>9, <2>1
<1>11. Plus(l, x) \in Seq(Visit)
  BY <1>5, <1>7, Joined
<1>12. Covers(c, Plus(l, x), Plus(b, Plus(l, x)))
  BY <1>3, <1>6, <1>11, CoversKids DEF Below
<1>13. v = Plus(visits, h)
  BY <1>3, <1>7, Visited
<1> HIDE DEF s, L, n, u, e, c, v, b, h, l
<1>14. Covers(w, <<>>, Plus(l, x)) /\ w \in Seq(Entry)
  <2>1. w \in Seq(Entry)
    BY <1>3, <1>10
  <2>2. QED
    BY <1>3, <1>5, <1>10, <2>1, CoversJoined
<1> HIDE DEF w
<1>15. Covers(t, <<>>, Plus(b, Plus(l, x)))
  BY <1>9, <1>12, <1>14, CoversJoined
<1>16. /\ Plus(h, b) \in Seq(Visit) /\ Plus(b, Plus(l, x)) \in Seq(Visit)
       /\ Plus(Plus(Plus(h, b), l), x) = Plus(Plus(h, b), Plus(l, x))
       /\ Plus(Plus(h, b), Plus(l, x)) = Plus(h, Plus(b, Plus(l, x)))
  <2> DEFINE rest == Plus(l, x)
             first == Plus(h, b)
  <2>1. first \in Seq(Visit) /\ Plus(first, rest) = Plus(h, Plus(b, rest))
    BY <1>7, <1>11, Joined
  <2>2. Plus(b, rest) \in Seq(Visit)
    BY <1>7, <1>11, Joined
  <2>3. Plus(Plus(first, l), x) = Plus(first, rest)
    <3> HIDE DEF first
    <3>1. QED
      BY <1>5, <1>7, <2>1, Joined
  <2>4. QED
    BY <2>1, <2>2, <2>3
<1>17. v \in Seq(Visit) /\ Plus(v, Plus(b, Plus(l, x))) = Plus(visits, Plus(h, Plus(b, Plus(l, x))))
  BY <1>7, <1>13, <1>16, Joined
<1>18. ~finished
  BY <1>1 DEF Toured, s
<1>19. Toured(t, v, finished)
  BY <1>4, <1>5, <1>8, <1>15, <1>16, <1>17, <1>18 DEF Toured
<1>20. QED
  BY <1>2, <1>19

LEMMA LeaveTours ==
  ASSUME Parsed, Typed(stack), Toured(stack, visits, finished), Leave
  PROVE  \E t, v : stack' = t /\ visits' = v /\ Toured(t, v, finished)
<1> DEFINE s == stack
           L == Len(s)
           n == s[L].node
           u == Front(s)
           v == Append(visits, <<n, "leave">>)
<1>1. s # <<>> /\ s \in Seq(Entry) /\ L \in Nat /\ L > 0 /\ StackTop = s[L] /\ StackRest = u
  BY DEF Leave, Typed, StackTop, StackRest, Last
<1>2. s[L].phase = "Post" /\ stack' = u /\ visits' = v
  BY <1>1 DEF Leave
<1>3. n \in DocNodes
  BY <1>1 DEF Typed
<1>4. PICK y \in Seq(Visit) : Covers(s, <<>>, y) /\ Plus(visits, y) = Tour
  BY DEF Toured
<1>5. PICK x \in Seq(Visit) : Covers(u, <<>>, x) /\ y = Plus(Ahead(s[L]), x)
  BY <1>1, <1>4, CoversTop
<1> DEFINE l == <<<<n, "leave">>>>
<1>6. Ahead(s[L]) = l
  BY <1>2 DEF Ahead
<1>7. l \in Seq(Visit) /\ visits \in Seq(Visit)
  BY <1>3, VisitsTyped DEF Toured
<1>8. v = Plus(visits, l)
  BY <1>3, <1>7, Visited
<1> HIDE DEF s, L, n, u, v, l
<1>9. v \in Seq(Visit) /\ Plus(v, x) = Plus(visits, Plus(l, x))
  BY <1>5, <1>7, <1>8, Joined
<1>10. ~finished
  BY <1>1 DEF Toured, s
<1>11. Toured(u, v, finished)
  BY <1>4, <1>5, <1>6, <1>9, <1>10 DEF Toured
<1>12. QED
  BY <1>2, <1>11

LEMMA TouredSame ==
  ASSUME doc' = doc, NEW s, NEW v, NEW fin, Toured(s, v, fin)
  PROVE  Toured(s, v, fin)'
<1>1. \A n : Kids(n)' = Kids(n) /\ formatter_children(n)' = formatter_children(n)
  BY DEF Kids, WithKid, Kind, DocNodes, formatter_children, ChildRendering
<1>2. DocNodes' = DocNodes
  BY DEF DocNodes
<1>3. PlainTour' = PlainTour
  BY DEF PlainTour, Each, Kids, WithKid, DocNodes
<1>4. FullTour' = FullTour
  BY DEF FullTour, Below, PlainTour, Each, Kids, WithKid, DocNodes, formatter_children, ChildRendering, Kind
<1>5. Tour' = Tour /\ Visit' = Visit
  BY <1>2, <1>4 DEF Tour, Visit
<1>6. PICK y \in Seq(Visit) : Covers(s, <<>>, y) /\ Plus(v, y) = Tour
  BY DEF Toured
<1>7. Covers(s, <<>>, y)'
  BY <1>3, <1>4, <1>6 DEF Covers, Lays, Ahead, Plus
<1>8. QED
  BY <1>5, <1>6, <1>7 DEF Toured, Plus

LEMMA InitTours ==
  ASSUME RenderInit
  PROVE  Toured(stack, visits, finished)
<1>1. Parsed /\ Typed(stack)
  BY RenderInvInit DEF RenderInv, Walk, Stacked
<1> DEFINE x == [node |-> 1, rendering |-> "HTML", phase |-> "Pre"]
<1>2. stack = <<x>> /\ visits = <<>> /\ finished = FALSE
  BY DEF RenderInit, Format
<1>3. x \in Entry /\ x.node = 1 /\ x.rendering = "HTML" /\ x.phase = "Pre" /\ 1 \in DocNodes
  BY <1>1, TreeFacts DEF Entry
<1> HIDE DEF x
<1>4. Ahead(x) = Tour /\ Tour \in Seq(Visit)
  BY <1>1, <1>3, ToursTyped DEF Ahead, Tour
<1>5. Covers(<<x>>, <<>>, Plus(Tour, <<>>))
  BY <1>3, <1>4, CoversOne
<1>6. Plus(Tour, <<>>) = Tour /\ Plus(<<>>, Tour) = Tour /\ <<>> \in Seq(Visit)
  BY <1>4, NothingJoined
<1>7. Covers(stack, <<>>, Tour) /\ Plus(visits, Tour) = Tour
  BY <1>2, <1>5, <1>6
<1>8. QED
  BY <1>2, <1>4, <1>6, <1>7 DEF Toured

RenderTours == RenderInv /\ Toured(stack, visits, finished)

LEMMA RenderToursNext ==
  ASSUME RenderTours, [RenderNext]_renderVars
  PROVE  RenderTours'
<1>1. RenderInv' /\ Toured(stack, visits, finished) /\ Parsed /\ Typed(stack)
  BY RenderInvNext DEF RenderTours, RenderInv, Walk, Stacked
<1>2. doc' = doc /\ \E t, v, fin : stack' = t /\ visits' = v /\ finished' = fin /\ Toured(t, v, fin)
  <2>1. CASE Plain
    BY <1>1, <2>1, PlainTours DEF Plain
  <2>2. CASE Enter
    BY <1>1, <2>2, EnterTours DEF Enter
  <2>3. CASE Leave
    BY <1>1, <2>3, LeaveTours DEF Leave
  <2>4. CASE Finish
    <3>1. Toured(stack, visits, TRUE)
      BY <1>1, <2>4 DEF Finish, Toured
    <3>2. QED
      BY <2>4, <3>1 DEF Finish
  <2>5. CASE RenderDone
    BY <1>1, <2>5 DEF RenderDone, renderVars
  <2>6. CASE UNCHANGED renderVars
    BY <1>1, <2>6 DEF renderVars
  <2>7. QED
    BY <2>1, <2>2, <2>3, <2>4, <2>5, <2>6 DEF RenderNext
<1>3. PICK t, v, fin : stack' = t /\ visits' = v /\ finished' = fin /\ Toured(t, v, fin)
  BY <1>2
<1>4. Toured(t, v, fin)'
  BY <1>2, <1>3, TouredSame
<1>5. Toured(stack, visits, finished)'
  BY <1>3, <1>4 DEF Toured
<1>6. QED
  BY <1>1, <1>5 DEF RenderTours

LEMMA RenderToursVisits ==
  ASSUME RenderTours
  PROVE  VisitsAsRecursion
<1>1. visits \in Seq(Visit) /\ (finished => stack = <<>>)
  BY DEF RenderTours, Toured
<1>2. PICK y \in Seq(Visit) : Covers(stack, <<>>, y) /\ Plus(visits, y) = Tour
  BY DEF RenderTours, Toured
<1>3. IsPrefix(visits, Tour)
  BY <1>1, <1>2 DEF Plus, IsPrefix
<1>4. ASSUME finished PROVE visits = Tour
  <2>1. y = <<>>
    BY <1>1, <1>2, <1>4 DEF Covers, Lays
  <2>2. QED
    BY <1>1, <1>2, <2>1, NothingJoined
<1>5. QED
  BY <1>3, <1>4 DEF VisitsAsRecursion

\* The explicit stack does what a recursion over the tree would, in the same order and all of it:
\* every node is entered before what is below it and left after it, the children of an image are
\* written plainly, and those of a comment (or of what the embedder skips) not at all.
THEOREM VisitsFollowTheTree == RenderSpec => []VisitsAsRecursion
<1>1. RenderInit => RenderTours
  BY RenderInvInit, InitTours DEF RenderTours
<1>2. RenderTours /\ [RenderNext]_renderVars => RenderTours'
  BY RenderToursNext
<1>3. RenderTours => VisitsAsRecursion
  BY RenderToursVisits
<1>4. QED
  BY <1>1, <1>2, <1>3, PTL DEF RenderSpec

-----------------------------------------------------------------------------
(***************************************************************************)
(* Words since the last thing that separates                               *)
(***************************************************************************)
IsWord(token) == token[1] = "word"

\* The words of two blocks are apart, and those since the last separation are of blocks of B
Parted(w) ==
  \A i, j \in 1..Len(w) :
    i < j /\ IsWord(w[i]) /\ IsWord(w[j]) /\ BlockOf(w[i][2]) # BlockOf(w[j][2])
    => \E k \in i..j : Separates(w[k])

Since(w, B) ==
  \A i \in 1..Len(w) : IsWord(w[i]) => BlockOf(w[i][2]) \in B \/ \E k \in i..Len(w) : Separates(w[k])

Apart(w, B) == IsSeq(w) /\ Parted(w) /\ Since(w, B)

\* What separates when it is written: the context's newlines too, if it writes any
Bars(token) == Separates(token) \/ (token \in {Cr, Lf} /\ ~Has("compact_html"))

Turns(B, x, C) ==
  \/ ~IsWord(x) /\ (B \subseteq C \/ Bars(x))
  \/ \E n : x = Word(n) /\ B \subseteq {BlockOf(n)} /\ BlockOf(n) \in C

LEMMA ApartMore ==
  ASSUME NEW w, NEW B, NEW C, Apart(w, B), B \subseteq C
  PROVE  Apart(w, C)
BY DEF Apart, Since

LEMMA OneApart ==
  ASSUME NEW w, NEW B, NEW x, NEW C, Apart(w, B),
         \/ ~IsWord(x) /\ (B \subseteq C \/ Separates(x))
         \/ \E n : x = Word(n) /\ B \subseteq {BlockOf(n)} /\ BlockOf(n) \in C
  PROVE  Apart(Append(w, x), C)
<1>1. PICK T : w \in Seq(T)
  BY DEF Apart, IsSeq
<1> DEFINE U == T \cup {x}
           u == Append(w, x)
           L == Len(w)
<1>2. w \in Seq(U) /\ x \in U
  BY <1>1
<1> HIDE DEF U
<1>3. /\ u \in Seq(U) /\ L \in Nat /\ Len(u) = L + 1 /\ u[L + 1] = x
      /\ \A k \in 1..L : u[k] = w[k]
  BY <1>2
<1> HIDE DEF u, L
<1>4. \A k \in 1..Len(u) : k \in 1..L \/ k = L + 1
  BY <1>3
<1>5. \A i \in 1..L : i \in 1..Len(u) /\ L + 1 \in i..Len(u) /\ \A k \in i..L : k \in i..(L + 1) /\ k \in 1..L
  BY <1>3
<1>6. Parted(w) /\ Since(w, B)
  BY DEF Apart
<1>7. ~Separates(x) \/ ~IsWord(x)
  BY DEF Separates, IsWord, Newline, Void
<1>8. IsWord(x) => B \subseteq {BlockOf(x[2])} /\ BlockOf(x[2]) \in C
  BY DEF IsWord, Word
<1>9. Parted(u)
  <2> SUFFICES ASSUME NEW i \in 1..Len(u), NEW j \in 1..Len(u), i < j, IsWord(u[i]), IsWord(u[j]),
                      BlockOf(u[i][2]) # BlockOf(u[j][2])
               PROVE  \E k \in i..j : Separates(u[k])
    BY DEF Parted
  <2>1. i \in 1..L /\ u[i] = w[i]
    BY <1>3, <1>4
  <2>2. CASE j \in 1..L
    <3>1. PICK k \in i..j : Separates(w[k])
      BY <1>3, <1>6, <2>1, <2>2 DEF Parted, L
    <3>2. k \in 1..L
      BY <1>3, <2>1, <2>2
    <3>3. QED
      BY <1>3, <3>1, <3>2
  <2>3. CASE j = L + 1
    <3>1. BlockOf(w[i][2]) \notin B
      BY <1>3, <1>8, <2>1, <2>3
    <3>2. PICK k \in i..L : Separates(w[k])
      BY <1>6, <2>1, <3>1 DEF Since, L
    <3>3. k \in i..j /\ k \in 1..L
      BY <1>5, <2>1, <2>3
    <3>4. QED
      BY <1>3, <3>2, <3>3
  <2>4. QED
    BY <1>4, <2>2, <2>3
<1>10. Since(u, C)
  <2> SUFFICES ASSUME NEW i \in 1..Len(u), IsWord(u[i])
               PROVE  BlockOf(u[i][2]) \in C \/ \E k \in i..Len(u) : Separates(u[k])
    BY DEF Since
  <2>1. CASE i \in 1..L
    <3>1. u[i] = w[i] /\ L + 1 \in i..Len(u)
      BY <1>3, <1>5, <2>1
    <3>2. CASE Separates(x)
      BY <1>3, <3>1, <3>2
    <3>3. CASE ~Separates(x) /\ BlockOf(w[i][2]) \in B
      BY <1>8, <3>1, <3>3
    <3>4. CASE ~(BlockOf(w[i][2]) \in B)
      <4>1. PICK k \in i..L : Separates(w[k])
        BY <1>6, <2>1, <3>1, <3>4 DEF Since, L
      <4>2. k \in i..Len(u) /\ k \in 1..L
        BY <1>3, <1>5, <2>1
      <4>3. QED
        BY <1>3, <4>1, <4>2
    <3>5. QED
      BY <3>2, <3>3, <3>4
  <2>2. CASE i = L + 1
    BY <1>3, <1>8, <2>2
  <2>3. QED
    BY <1>4, <2>1, <2>2
<1>11. QED
  BY <1>3, <1>9, <1>10 DEF Apart, IsSeq, u

\* As the context writes it
LEMMA WriteApart ==
  ASSUME NEW w, NEW B, NEW x, NEW C, Apart(w, B), Turns(B, x, C)
  PROVE  Apart(Write(w, x), C)
<1>1. CASE x \notin {Cr, Lf}
  <2>1. Write(w, x) = Append(w, x)
    BY <1>1 DEF Write
  <2>2. QED
    BY <1>1, <2>1, OneApart DEF Turns, Bars
<1>2. CASE x \in {Cr, Lf}
  <2>1. ~IsWord(x) /\ \A n : x # Word(n)
    BY <1>2 DEF IsWord, Word, Cr, Lf
  <2>2. ~Separates(x)
    BY <1>2 DEF Separates, Cr, Lf, Newline, Void
  <2>3. Separates(Newline) /\ ~IsWord(Newline)
    BY DEF Separates, Newline, IsWord
  <2>4. B \subseteq C \/ ~Has("compact_html")
    BY <2>1, <2>2 DEF Turns, Bars
  <2>5. CASE Write(w, x) = Append(w, Newline)
    BY <2>3, <2>5, OneApart
  <2>6. CASE Write(w, x) = w /\ B \subseteq C
    BY <2>6, ApartMore
  <2>7. CASE w = <<>> /\ Write(w, x) = w
    BY <2>7 DEF Apart, Since
  <2>8. CASE w # <<>> /\ Last(w) = Newline /\ Write(w, x) = w
    <3>1. PICK T : w \in Seq(T)
      BY DEF Apart, IsSeq
    <3>2. Len(w) \in Nat /\ Separates(w[Len(w)])
      BY <2>3, <2>8, <3>1 DEF Last
    <3>3. \A i \in 1..Len(w) : Len(w) \in i..Len(w)
      BY <3>2
    <3>4. Since(w, C)
      BY <3>2, <3>3 DEF Since
    <3>5. QED
      BY <2>8, <3>4 DEF Apart
  <2>9. QED
    BY <1>2, <2>4, <2>5, <2>6, <2>7, <2>8 DEF Write
<1>3. QED
  BY <1>1, <1>2

LEMMA WrittenApart ==
  ASSUME NEW s, IsSeq(s), NEW f, Apart(out, f[0]), \A k \in 1..Len(s) : Turns(f[k - 1], s[k], f[k])
  PROVE  Apart(Written(s), f[Len(s)])
<1>1. Len(s) \in Nat
  BY DEF IsSeq
<1> DEFINE text[k \in 0..Len(s)] == IF k = 0 THEN out ELSE Write(text[k - 1], s[k])
<1>3. Written(s) = text[Len(s)]
  BY DEF Written
<1>4. text = [k \in 0..Len(s) |-> IF k = 0 THEN out ELSE Write(text[k - 1], s[k])]
  BY <1>1, TextsExist
<1> HIDE DEF text
<1> DEFINE S == {k \in Nat : k <= Len(s) => Apart(text[k], f[k])}
<1>5. \A k \in 0..Len(s) : text[k] = IF k = 0 THEN out ELSE Write(text[k - 1], s[k])
  BY <1>4, Zenon
<1>6. 0 \in S
  <2>1. 0 \in 0..Len(s)
    BY <1>1
  <2>2. text[0] = out
    BY <1>5, <2>1
  <2>3. QED
    BY <2>2
<1>7. ASSUME NEW k \in S PROVE k + 1 \in S
  <2> SUFFICES ASSUME k + 1 <= Len(s) PROVE Apart(text[k + 1], f[k + 1])
    OBVIOUS
  <2>1. k + 1 \in 0..Len(s) /\ k + 1 # 0 /\ k + 1 - 1 = k /\ k + 1 \in 1..Len(s) /\ k <= Len(s)
    BY <1>1
  <2>2. text[k + 1] = Write(text[k], s[k + 1])
    BY <1>5, <2>1
  <2>3. Apart(text[k], f[k])
    BY <2>1
  <2>4. Turns(f[k], s[k + 1], f[k + 1])
    BY <2>1
  <2>5. QED
    BY <2>2, <2>3, <2>4, WriteApart
<1>8. S = Nat
  BY <1>6, <1>7, EveryNumber
<1>9. QED
  BY <1>1, <1>3, <1>8

-----------------------------------------------------------------------------
(***************************************************************************)
(* What each entry of the stack relies on                                  *)
(***************************************************************************)
\* A document that can have been read, with the renderer's own tags for its blocks: a raw node is
\* only put in a tree by a program, and the parser puts a described item only in a list of them
Ours ==
  /\ \A n \in DocNodes : /\ Kind(n) # "Raw"
                         /\ Kind(n) = "DescriptionItem" => Kind(Parent(n)) = "DescriptionList"
  /\ doc.custom.kind \notin Block

\* The newlines around raw HTML are written
Spaced == ~(Has("compact_html") /\ \E n \in DocNodes : Kind(n) \in {"HtmlBlock", "HeexBlock"})

InText(n) == Kind(n) \notin Block \cup {"FrontMatter"}

\* A tight paragraph after another: between the two stands a newline
Loud(n) == AfterParagraph(n) /\ Tight(n)

\* Blocks that may write nothing when they are entered, and when they are left
Silent == {"Paragraph", "MultilineComment", "Document", "DescriptionItem", "FrontMatter"}
Ended == {"CodeBlock", "HtmlBlock", "HeexBlock", "ThematicBreak", "Document", "DescriptionItem", "FrontMatter"}

\* No word may stand between the last separation and what is done next
Clear(e) ==
  IF e.phase = "Pre" THEN Kind(e.node) \in Silent /\ ~Loud(e.node)
  ELSE \/ Kind(e.node) \in Ended
       \/ Kind(e.node) = "TaskItem" /\ Kind(Parent(e.node)) # "List"
       \/ Kind(e.node) = "MultilineComment" /\ ~Loud(e.node)

Ready(e, w) ==
  /\ InText(e.node) => Apart(w, {BlockOf(e.node)})
  /\ Clear(e) => Apart(w, {})

\* What is below an entry: its parent that is still to be left, its next sibling, or, in an
\* attribute, what is of the same block
Follows(e, f) ==
  \/ e.phase = "Post" /\ e.node = Parent(f.node)
  \/ e.phase = "Pre" /\ Before(e.node) # {} /\ Highest(Before(e.node)) = f.node
  \/ f.rendering = "Plain" /\ InText(e.node) /\ BlockOf(e.node) = BlockOf(f.node)

Lined(s) == \A k \in 2..Len(s) : Follows(s[k - 1], s[k])
Quoted(s) == \A k \in 1..Len(s) : s[k].rendering = "Plain" => s[k].node # 1 /\ InText(Parent(s[k].node))

Spoken(s, w) == (\E B : Apart(w, B)) /\ (s # <<>> => Ready(s[Len(s)], w))

(***************************************************************************)
(* What a sequence of tokens does to the words                             *)
(***************************************************************************)
Names == {"raw", "comment", "br", "hr", "input", "space"}
Marks == {Cr, Lf, Newline, Quote, Unquote, Panic}
           \cup {Open(t) : t \in Tag} \cup {Close(t) : t \in Tag} \cup {Void(v) : v \in Names}
Says(n) == Marks \cup {Word(n)}

\* No words at all, with something that separates
Wall(s) == s \in Seq(Marks) /\ \E k \in 1..Len(s) : Bars(s[k])

\* Words of n, with something that separates before the first and after the last
Walled(s, n) ==
  /\ s \in Seq(Says(n))
  /\ \E k \in 1..Len(s) : Bars(s[k]) /\ \A i \in 1..(k - 1) : ~IsWord(s[i])
  /\ \E k \in 1..Len(s) : Bars(s[k]) /\ \A i \in (k + 1)..Len(s) : ~IsWord(s[i])

LEMMA MarksAre ==
  /\ \A t \in Tag : Open(t) \in Marks /\ Close(t) \in Marks
  /\ \A v \in Names : Void(v) \in Marks
  /\ Cr \in Marks /\ Lf \in Marks /\ Newline \in Marks /\ Quote \in Marks /\ Unquote \in Marks /\ Panic \in Marks
  /\ \A x \in Marks : ~IsWord(x)
  /\ \A n : IsWord(Word(n)) /\ Word(n) \in Says(n) /\ Marks \subseteq Says(n)
  /\ \A n : \A x \in Says(n) : IsWord(x) => x = Word(n)
  /\ \A x : Bars(x) => ~IsWord(x)
<1>1. \A t \in Tag : Open(t) \in Marks /\ Close(t) \in Marks
  BY DEF Marks
<1>2. \A v \in Names : Void(v) \in Marks
  BY DEF Marks
<1>3. Cr \in Marks /\ Lf \in Marks /\ Newline \in Marks /\ Quote \in Marks /\ Unquote \in Marks /\ Panic \in Marks
  BY DEF Marks
<1>4. ASSUME NEW x \in Marks PROVE ~IsWord(x)
  <2>1. \A t : ~IsWord(Open(t)) /\ ~IsWord(Close(t)) /\ ~IsWord(Void(t))
    BY DEF IsWord, Open, Close, Void
  <2>2. ~IsWord(Cr) /\ ~IsWord(Lf) /\ ~IsWord(Newline) /\ ~IsWord(Quote) /\ ~IsWord(Unquote) /\ ~IsWord(Panic)
    BY DEF IsWord, Cr, Lf, Newline, Quote, Unquote, Panic
  <2>3. QED
    BY <2>1, <2>2 DEF Marks
<1>5. \A n : IsWord(Word(n)) /\ Word(n) \in Says(n) /\ Marks \subseteq Says(n)
  BY DEF IsWord, Word, Says
<1>6. \A n : \A x \in Says(n) : IsWord(x) => x = Word(n)
  BY <1>4 DEF Says
<1>7. ASSUME NEW x, Bars(x) PROVE ~IsWord(x)
  BY <1>7 DEF Bars, Separates, IsWord, Cr, Lf, Newline, Void
<1>8. QED
  BY <1>1, <1>2, <1>3, <1>4, <1>5, <1>6, <1>7

\* Tokens that may be written where nothing need separate
LEMMA StillApart ==
  ASSUME NEW s \in Seq(Marks), NEW B, Apart(out, B)
  PROVE  Apart(Written(s), B)
<1> DEFINE f == [k \in 0..Len(s) |-> B]
<1>1. Len(s) \in Nat /\ \A k \in 1..Len(s) : s[k] \in Marks
  OBVIOUS
<1>2. f[0] = B /\ f[Len(s)] = B /\ \A k \in 1..Len(s) : f[k] = B /\ f[k - 1] = B
  BY <1>1
<1> HIDE DEF f
<1>3. \A k \in 1..Len(s) : Turns(f[k - 1], s[k], f[k])
  BY <1>1, <1>2, MarksAre DEF Turns
<1>4. IsSeq(s)
  BY DEF IsSeq
<1>5. QED
  BY <1>2, <1>3, <1>4, WrittenApart

LEMMA OwnApart ==
  ASSUME NEW n, NEW s \in Seq(Says(n)), Apart(out, {BlockOf(n)})
  PROVE  Apart(Written(s), {BlockOf(n)})
<1> DEFINE B == {BlockOf(n)}
           f == [k \in 0..Len(s) |-> B]
<1>1. Len(s) \in Nat /\ \A k \in 1..Len(s) : s[k] \in Says(n)
  OBVIOUS
<1>2. f[0] = B /\ f[Len(s)] = B /\ \A k \in 1..Len(s) : f[k] = B /\ f[k - 1] = B
  BY <1>1
<1> HIDE DEF f
<1>3. ASSUME NEW k \in 1..Len(s) PROVE Turns(f[k - 1], s[k], f[k])
  <2>1. s[k] \in Marks \/ s[k] = Word(n)
    BY <1>1 DEF Says
  <2>2. CASE s[k] \in Marks
    BY <1>2, <2>2, MarksAre DEF Turns
  <2>3. CASE s[k] = Word(n)
    BY <1>2, <2>3 DEF Turns
  <2>4. QED
    BY <2>1, <2>2, <2>3
<1>4. IsSeq(s)
  BY DEF IsSeq
<1>5. QED
  BY <1>2, <1>3, <1>4, WrittenApart

LEMMA WalledApart ==
  ASSUME NEW n, NEW s, Walled(s, n), NEW B, Apart(out, B)
  PROVE  Apart(Written(s), {})
<1>1. s \in Seq(Says(n)) /\ Len(s) \in Nat /\ \A k \in 1..Len(s) : s[k] \in Says(n)
  BY DEF Walled
<1>2. PICK a \in 1..Len(s) : Bars(s[a]) /\ \A i \in 1..(a - 1) : ~IsWord(s[i])
  BY DEF Walled
<1>3. PICK b \in 1..Len(s) : Bars(s[b]) /\ \A i \in (b + 1)..Len(s) : ~IsWord(s[i])
  BY DEF Walled
<1> DEFINE f == [k \in 0..Len(s) |-> IF k < a THEN B ELSE IF k < b THEN {BlockOf(n)} ELSE {}]
<1>4. f[0] = B /\ f[Len(s)] = {}
  <2>1. 0 \in 0..Len(s) /\ Len(s) \in 0..Len(s) /\ 0 < a /\ ~(Len(s) < a) /\ ~(Len(s) < b)
    BY <1>1
  <2>2. QED
    BY <2>1
<1>5. \A k \in 1..Len(s) : /\ f[k] = IF k < a THEN B ELSE IF k < b THEN {BlockOf(n)} ELSE {}
                           /\ f[k - 1] = IF k - 1 < a THEN B ELSE IF k - 1 < b THEN {BlockOf(n)} ELSE {}
  <2>1. \A k \in 1..Len(s) : k \in 0..Len(s) /\ k - 1 \in 0..Len(s)
    BY <1>1
  <2>2. QED
    BY <2>1
<1> HIDE DEF f
<1>6. ASSUME NEW k \in 1..Len(s) PROVE Turns(f[k - 1], s[k], f[k])
  <2>1. s[k] \in Says(n) /\ (IsWord(s[k]) => s[k] = Word(n))
    BY <1>1, MarksAre
  <2>2. CASE k < a
    <3>1. k \in 1..(a - 1) /\ k - 1 < a
      BY <2>2
    <3>2. f[k] = B /\ f[k - 1] = B /\ ~IsWord(s[k])
      BY <1>2, <1>5, <2>2, <3>1
    <3>3. QED
      BY <3>2 DEF Turns
  <2>3. CASE k = a \/ k = b
    <3>1. Bars(s[k]) /\ ~IsWord(s[k])
      BY <1>2, <1>3, <2>3, MarksAre
    <3>2. QED
      BY <3>1 DEF Turns
  <2>4. CASE k > a /\ k < b
    <3>1. ~(k < a) /\ ~(k - 1 < a) /\ k - 1 < b
      BY <2>4
    <3>2. f[k] = {BlockOf(n)} /\ f[k - 1] = {BlockOf(n)}
      BY <1>5, <2>4, <3>1
    <3>3. QED
      BY <2>1, <3>2 DEF Turns
  <2>5. CASE k > a /\ k > b
    <3>1. ~(k < a) /\ ~(k - 1 < a) /\ ~(k < b) /\ ~(k - 1 < b) /\ k \in (b + 1)..Len(s)
      BY <1>1, <2>5
    <3>2. f[k] = {} /\ f[k - 1] = {} /\ ~IsWord(s[k])
      BY <1>3, <1>5, <3>1
    <3>3. QED
      BY <3>2 DEF Turns
  <2>6. QED
    BY <2>2, <2>3, <2>4, <2>5
<1>7. IsSeq(s)
  BY <1>1 DEF IsSeq
<1>8. QED
  BY <1>4, <1>6, <1>7, WrittenApart

\* How walls are built
LEMMA WallIsWalled ==
  ASSUME NEW s, Wall(s), NEW n
  PROVE  Walled(s, n)
<1>1. s \in Seq(Marks) /\ Len(s) \in Nat /\ \A k \in 1..Len(s) : s[k] \in Marks /\ ~IsWord(s[k])
  BY MarksAre DEF Wall
<1>2. s \in Seq(Says(n))
  BY <1>1, MarksAre
<1>3. PICK k \in 1..Len(s) : Bars(s[k])
  BY DEF Wall
<1>4. (\A i \in 1..(k - 1) : i \in 1..Len(s)) /\ (\A i \in (k + 1)..Len(s) : i \in 1..Len(s))
  BY <1>1
<1>5. QED
  BY <1>1, <1>2, <1>3, <1>4 DEF Walled

LEMMA WalledWithin ==
  ASSUME NEW n, NEW s \in Seq(Marks), NEW t, Walled(t, n), NEW u \in Seq(Marks)
  PROVE  Walled(s \o t, n) /\ Walled(t \o u, n)
<1> DEFINE v == s \o t
           w == t \o u
           L == Len(s)
           M == Len(t)
           N == Len(u)
<1>1. /\ t \in Seq(Says(n)) /\ s \in Seq(Says(n)) /\ u \in Seq(Says(n))
      /\ \A k \in 1..Len(s) : ~IsWord(s[k])
      /\ \A k \in 1..Len(u) : ~IsWord(u[k])
  <2>1. Marks \subseteq Says(n) /\ \A x \in Marks : ~IsWord(x)
    BY MarksAre
  <2>2. QED
    BY <2>1 DEF Walled
<1>2. /\ v \in Seq(Says(n)) /\ L \in Nat /\ M \in Nat /\ Len(v) = L + M
      /\ \A k \in 1..L : v[k] = s[k]
      /\ \A k \in 1..M : v[L + k] = t[k]
  BY <1>1
<1>3. /\ w \in Seq(Says(n)) /\ N \in Nat /\ Len(w) = M + N
      /\ \A k \in 1..M : w[k] = t[k]
      /\ \A k \in 1..N : w[M + k] = u[k]
  BY <1>1
<1>4. PICK a \in 1..M : Bars(t[a]) /\ \A i \in 1..(a - 1) : ~IsWord(t[i])
  BY DEF Walled
<1>5. PICK b \in 1..M : Bars(t[b]) /\ \A i \in (b + 1)..M : ~IsWord(t[i])
  BY DEF Walled
<1> HIDE DEF v, w, L, M, N
<1>6. Walled(v, n)
  <2> DEFINE A == L + a
             C == L + b
  <2>1. A \in 1..Len(v) /\ C \in 1..Len(v) /\ Bars(v[A]) /\ Bars(v[C])
    BY <1>2, <1>4, <1>5
  <2>2. ASSUME NEW i \in 1..(A - 1) PROVE ~IsWord(v[i])
    <3>1. CASE i \in 1..L
      BY <1>1, <1>2, <3>1 DEF L
    <3>2. CASE i \notin 1..L
      <4>1. i - L \in 1..(a - 1) /\ i - L \in 1..M /\ L + (i - L) = i
        BY <1>2, <3>2
      <4>2. v[i] = t[i - L]
        BY <1>2, <4>1
      <4>3. QED
        BY <1>4, <4>1, <4>2
    <3>3. QED
      BY <3>1, <3>2
  <2>3. ASSUME NEW i \in (C + 1)..Len(v) PROVE ~IsWord(v[i])
    <3>1. i - L \in (b + 1)..M /\ i - L \in 1..M /\ L + (i - L) = i
      BY <1>2
    <3>2. v[i] = t[i - L]
      BY <1>2, <3>1
    <3>3. QED
      BY <1>5, <3>1, <3>2
  <2> HIDE DEF A, C
  <2>4. QED
    BY <1>2, <2>1, <2>2, <2>3 DEF Walled
<1>7. Walled(w, n)
  <2>1. a \in 1..Len(w) /\ b \in 1..Len(w) /\ Bars(w[a]) /\ Bars(w[b])
    BY <1>2, <1>3, <1>4, <1>5
  <2>2. ASSUME NEW i \in 1..(a - 1) PROVE ~IsWord(w[i])
    <3>1. i \in 1..M
      BY <1>2
    <3>2. QED
      BY <1>3, <1>4, <3>1
  <2>3. ASSUME NEW i \in (b + 1)..Len(w) PROVE ~IsWord(w[i])
    <3>1. CASE i \in 1..M
      <4>1. i \in (b + 1)..M
        BY <3>1
      <4>2. QED
        BY <1>3, <1>5, <3>1, <4>1
    <3>2. CASE i \notin 1..M
      <4>1. i - M \in 1..N /\ M + (i - M) = i
        BY <1>2, <1>3, <3>2
      <4>2. w[i] = u[i - M]
        BY <1>3, <4>1
      <4>3. QED
        BY <1>1, <4>1, <4>2 DEF N
    <3>3. QED
      BY <3>1, <3>2
  <2>4. QED
    BY <1>3, <2>1, <2>2, <2>3 DEF Walled
<1>8. QED
  BY <1>6, <1>7 DEF v, w

LEMMA WallWithin ==
  ASSUME NEW s \in Seq(Marks), NEW t, Wall(t), NEW u \in Seq(Marks)
  PROVE  Wall(s \o t) /\ Wall(t \o u)
<1> DEFINE v == s \o t
           w == t \o u
<1>1. /\ t \in Seq(Marks) /\ Len(s) \in Nat /\ Len(t) \in Nat /\ Len(u) \in Nat
      /\ v \in Seq(Marks) /\ Len(v) = Len(s) + Len(t) /\ \A k \in 1..Len(t) : v[Len(s) + k] = t[k]
      /\ w \in Seq(Marks) /\ Len(w) = Len(t) + Len(u) /\ \A k \in 1..Len(t) : w[k] = t[k]
  BY DEF Wall
<1> HIDE DEF v, w
<1>2. PICK k \in 1..Len(t) : Bars(t[k])
  BY DEF Wall
<1>3. Len(s) + k \in 1..Len(v) /\ k \in 1..Len(w)
  BY <1>1
<1>4. QED
  BY <1>1, <1>2, <1>3 DEF Wall, v, w

(***************************************************************************)
(* What each kind of node writes                                           *)
(***************************************************************************)
LEMMA BarsAre ==
  /\ \A t \in Tag \ Inline : Bars(Open(t)) /\ Bars(Close(t))
  /\ Bars(Newline) /\ Bars(Void("hr")) /\ Bars(Void("input"))
  /\ ~Has("compact_html") => Bars(Cr)
<1>1. \A t : t \notin Inline => Separates(Open(t)) /\ Separates(Close(t))
  BY DEF Separates, Open, Close
<1>2. Separates(Newline) /\ Separates(Void("hr")) /\ Separates(Void("input"))
  BY DEF Separates
<1>3. QED
  BY <1>1, <1>2 DEF Bars

LEMMA OneMark ==
  ASSUME NEW x \in Marks
  PROVE  <<x>> \in Seq(Marks) /\ (Bars(x) => Wall(<<x>>))
<1>1. <<x>> \in Seq(Marks) /\ Len(<<x>>) = 1 /\ <<x>>[1] = x /\ 1 \in 1..1
  OBVIOUS
<1>2. QED
  BY <1>1 DEF Wall

LEMMA TwoMarks ==
  ASSUME NEW x \in Marks, NEW y \in Marks
  PROVE  <<x, y>> \in Seq(Marks) /\ (Bars(x) \/ Bars(y) => Wall(<<x, y>>))
<1> DEFINE s == <<x, y>>
<1>1. s \in Seq(Marks) /\ Len(s) = 2 /\ s[1] = x /\ s[2] = y /\ 1 \in 1..2 /\ 2 \in 1..2
  OBVIOUS
<1> HIDE DEF s
<1>2. Bars(x) \/ Bars(y) => Wall(s)
  BY <1>1 DEF Wall
<1>3. QED
  BY <1>1, <1>2 DEF s

LEMMA ThreeMarks ==
  ASSUME NEW x \in Marks, NEW y \in Marks, NEW z \in Marks
  PROVE  <<x, y, z>> \in Seq(Marks) /\ (Bars(x) \/ Bars(y) \/ Bars(z) => Wall(<<x, y, z>>))
<1> DEFINE s == <<x, y, z>>
<1>1. /\ s \in Seq(Marks) /\ Len(s) = 3 /\ s[1] = x /\ s[2] = y /\ s[3] = z
      /\ 1 \in 1..3 /\ 2 \in 1..3 /\ 3 \in 1..3
  OBVIOUS
<1> HIDE DEF s
<1>2. Bars(x) \/ Bars(y) \/ Bars(z) => Wall(s)
  BY <1>1 DEF Wall
<1>3. QED
  BY <1>1, <1>2 DEF s

\* A word between two things that separate
LEMMA WordWalled ==
  ASSUME NEW n, NEW x \in Marks, NEW y \in Marks, NEW z \in Marks, Bars(x), Bars(y)
  PROVE  Walled(<<x, Word(n), y, z>>, n)
<1> DEFINE s == <<x, Word(n), y, z>>
<1>1. /\ Len(s) = 4 /\ s[1] = x /\ s[2] = Word(n) /\ s[3] = y /\ s[4] = z
      /\ 1 \in 1..4 /\ 3 \in 1..4 /\ 1..(1 - 1) = {} /\ (3 + 1)..4 = {4}
  OBVIOUS
<1>2. s \in Seq(Says(n))
  BY MarksAre
<1> HIDE DEF s
<1>3. \A i \in (3 + 1)..4 : ~IsWord(s[i])
  BY <1>1, MarksAre
<1>4. QED
  BY <1>1, <1>2, <1>3 DEF Walled, s

LEMMA BetweenBars ==
  ASSUME NEW n, NEW x \in Says(n), NEW y \in Marks, Bars(y)
  PROVE  Walled(<<y>> \o <<x>> \o <<y>>, n)
<1> DEFINE s == <<y>> \o <<x>> \o <<y>>
           X == Says(n)
<1>0. x \in X /\ y \in X
  BY MarksAre
<1> HIDE DEF X
<1>1. s \in Seq(X) /\ Len(s) = 3 /\ s[1] = y /\ s[2] = x /\ s[3] = y
  BY <1>0
<1>2. /\ Len(s) = 3 /\ s[1] = y /\ s[2] = x /\ s[3] = y
      /\ 1 \in 1..3 /\ 3 \in 1..3 /\ 1..(1 - 1) = {} /\ (3 + 1)..3 = {}
  BY <1>1
<1>3. s \in Seq(Says(n))
  BY <1>1 DEF X
<1> HIDE DEF s
<1>4. QED
  BY <1>2, <1>3 DEF Walled, s

LEMMA TagsWall ==
  ASSUME NEW t \in Tag, NEW e
  PROVE  Tags(t, e) \in Seq(Marks) /\ (t \notin Inline => Wall(Tags(t, e)) /\ Wall(Framed(t, e)))
<1>1. Open(t) \in Marks /\ Close(t) \in Marks /\ Cr \in Marks /\ Lf \in Marks
  BY MarksAre
<1>2. t \notin Inline => Bars(Open(t)) /\ Bars(Close(t))
  BY BarsAre
<1>3. Tags(t, e) \in Seq(Marks) /\ (t \notin Inline => Wall(Tags(t, e)))
  BY <1>1, <1>2, OneMark DEF Tags
<1>4. <<Cr>> \in Seq(Marks) /\ <<Lf>> \in Seq(Marks)
  BY <1>1, OneMark
<1>5. ASSUME t \notin Inline PROVE Wall(Framed(t, e))
  <2>1. Wall(<<Cr>> \o Tags(t, e))
    BY <1>3, <1>4, <1>5, WallWithin
  <2>2. QED
    BY <1>4, <2>1, WallWithin DEF Framed
<1>6. QED
  BY <1>3, <1>5

LEMMA NothingMarks == <<>> \in Seq(Marks) /\ \A n : <<>> \in Seq(Says(n))
OBVIOUS

LEMMA PerhapsMarks ==
  ASSUME NEW c, NEW s \in Seq(Marks)
  PROVE  If(c, s) \in Seq(Marks)
BY NothingMarks DEF If

\* The names of the tags
LEMMA TagNames ==
  /\ {"em", "strong", "a", "code", "del", "mark", "ins", "span", "sub", "sup", "u", "custom", "figure",
      "figcaption"} \subseteq Tag
  /\ {"details", "summary", "div", "blockquote", "pre", "h", "li", "ol", "ul", "p", "section", "table", "tbody",
      "thead", "tr", "th", "td", "dd", "dl", "dt"} \subseteq Tag \ Inline
BY DEF Tag, Inline

LEMMA RawSays ==
  ASSUME NEW n
  PROVE  \E x \in Says(n) : Raw(n) = <<x>>
<1>1. Void("raw") \in Says(n) /\ Void("comment") \in Says(n) /\ Word(n) \in Says(n)
  BY MarksAre DEF Names
<1>2. QED
  BY <1>1 DEF Raw

LEMMA InlineSays ==
  ASSUME NEW n, NEW e, Kind(n) \in NodeKinds, InText(n), Kind(n) # "Raw"
  PROVE  formatter(n, e) \in Seq(Says(n))
<1>1. ASSUME NEW s \in Seq(Marks) PROVE s \in Seq(Says(n))
  BY MarksAre
<1>2. \A t \in Tag : Tags(t, e) \in Seq(Says(n))
  BY <1>1, TagsWall
<1>3. <<>> \in Seq(Says(n)) /\ \A c : \A s \in Seq(Says(n)) : If(c, s) \in Seq(Says(n)) /\ Leaf(s, c) \in Seq(Says(n))
  BY NothingMarks DEF If, Leaf
<1>4. CASE Kind(n) = doc.custom.kind
  BY <1>2, <1>4, TagNames DEF formatter
<1>5. CASE Kind(n) # doc.custom.kind
  <2>1. formatter(n, e) = Rendered(n, e)
    BY <1>5 DEF formatter
  <2>2. CASE Kind(n) \in {"Emph", "Strong", "Link", "Escaped"} \cup DOMAIN MarkTag \cup DOMAIN SpanTag
    <3>1. CASE Kind(n) \in DOMAIN MarkTag
      <4>1. Rendered(n, e) = Tags(MarkTag[Kind(n)], e) /\ MarkTag[Kind(n)] \in Tag
        BY <3>1, TagNames DEF Rendered, MarkTag, SpanTag
      <4>2. QED
        BY <1>2, <2>1, <4>1
    <3>2. CASE Kind(n) \in DOMAIN SpanTag
      <4>1. Rendered(n, e) = Tags(SpanTag[Kind(n)], e) /\ SpanTag[Kind(n)] \in Tag
        BY <3>2, TagNames DEF Rendered, SpanTag, MarkTag
      <4>2. QED
        BY <1>2, <2>1, <4>1
    <3>3. CASE Kind(n) \in {"Emph", "Strong", "Link", "Escaped"}
      <4>1. \/ Rendered(n, e) = render_emph(e) \/ Rendered(n, e) = render_strong(n, e)
            \/ Rendered(n, e) = render_link(n, e) \/ Rendered(n, e) = render_escaped(e)
        BY <3>3 DEF Rendered, MarkTag, SpanTag
      <4>2. \A t \in {"em", "strong", "a", "span"} : Tags(t, e) \in Seq(Says(n)) /\ \A c : If(c, Tags(t, e)) \in Seq(Says(n))
        BY <1>2, <1>3, TagNames
      <4>3. QED
        BY <2>1, <4>1, <4>2 DEF render_emph, render_strong, render_link, render_escaped
    <3>4. QED
      BY <2>2, <3>1, <3>2, <3>3
  <2>3. CASE Kind(n) \in {"Code", "Math", "FootnoteReference"}
    <3>1. /\ Word(n) \in Says(n)
          /\ \A t \in {"code", "span", "sup", "a"} : Open(t) \in Says(n) /\ Close(t) \in Says(n)
      BY MarksAre, TagNames
    <3>2. /\ <<Open("code"), Word(n), Close("code")>> \in Seq(Says(n))
          /\ <<Open("span"), Word(n), Close("span")>> \in Seq(Says(n))
          /\ <<Open("sup"), Open("a"), Word(n), Close("a"), Close("sup")>> \in Seq(Says(n))
      BY <3>1
    <3>3. \/ Rendered(n, e) = render_code(n, e) \/ Rendered(n, e) = render_math(n, e)
          \/ Rendered(n, e) = render_footnote_reference(n, e)
      BY <2>3 DEF Rendered, MarkTag, SpanTag
    <3>4. QED
      BY <1>3, <2>1, <3>2, <3>3 DEF render_code, render_math, render_footnote_reference
  <2>4. CASE Kind(n) \in {"Text", "ShortCode", "EscapedTag", "HtmlInline", "HeexInline"}
    <3>1. Word(n) \in Says(n) /\ Void("raw") \in Says(n) /\ \E x \in Says(n) : Raw(n) = <<x>>
      BY MarksAre, RawSays DEF Names
    <3>2. <<Word(n)>> \in Seq(Says(n)) /\ <<Void("raw")>> \in Seq(Says(n)) /\ Raw(n) \in Seq(Says(n))
      BY <3>1
    <3>3. \/ Rendered(n, e) = render_text(n, e) \/ Rendered(n, e) = render_short_code(n, e)
          \/ Rendered(n, e) = render_escaped_tag(n) \/ Rendered(n, e) = render_html_inline(n, e)
          \/ Rendered(n, e) = render_heex_inline(e)
      BY <2>4 DEF Rendered, MarkTag, SpanTag
    <3>4. QED
      BY <1>3, <2>1, <3>2, <3>3 DEF render_text, render_short_code, render_escaped_tag,
         render_html_inline, render_heex_inline
  <2>5. CASE Kind(n) \in {"SoftBreak", "LineBreak"}
    <3>1. <<Void("br"), Lf>> \in Seq(Says(n)) /\ <<Newline>> \in Seq(Says(n))
      BY <1>1, MarksAre, OneMark, TwoMarks DEF Names
    <3>2. Rendered(n, e) = render_soft_break(e) \/ Rendered(n, e) = render_line_break(e)
      BY <2>5 DEF Rendered, MarkTag, SpanTag
    <3>3. QED
      BY <1>3, <2>1, <3>1, <3>2 DEF render_soft_break, render_line_break
  <2>6. CASE Kind(n) = "CommentInline"
    BY <1>3, <2>1, <2>6 DEF Rendered, MarkTag, SpanTag
  <2>7. CASE Kind(n) = "Image"
    <3>1. /\ Quote \in Marks /\ Unquote \in Marks
          /\ \A t \in {"figure", "figcaption"} : Open(t) \in Marks /\ Close(t) \in Marks
      BY MarksAre, TagNames
    <3>2. /\ <<Open("figure")>> \in Seq(Marks) /\ <<Quote>> \in Seq(Marks) /\ <<Unquote>> \in Seq(Marks)
          /\ <<Open("figcaption"), Close("figcaption")>> \in Seq(Marks) /\ <<Close("figure")>> \in Seq(Marks)
      BY <3>1, OneMark, TwoMarks
    <3>3. \A s, t \in Seq(Marks) : s \o t \in Seq(Marks)
      OBVIOUS
    <3>4. \A c : \A s \in Seq(Marks) : If(c, s) \in Seq(Marks)
      BY PerhapsMarks
    <3>5. render_image(e) \in Seq(Marks)
      BY <3>2, <3>3, <3>4 DEF render_image
    <3>6. Rendered(n, e) = render_image(e)
      BY <2>7 DEF Rendered, MarkTag, SpanTag
    <3>7. QED
      BY <1>1, <2>1, <3>5, <3>6
  <2>8. QED
    BY <2>2, <2>3, <2>4, <2>5, <2>6, <2>7 DEF InText, NodeKinds, Spans, Block, MarkTag, SpanTag
<1>6. QED
  BY <1>4, <1>5

\* Pieces of walls
LEMMA Bricks ==
  /\ <<Cr>> \in Seq(Marks) /\ <<Lf>> \in Seq(Marks) /\ <<>> \in Seq(Marks) /\ <<Cr, Lf>> \in Seq(Marks)
  /\ \A s, t \in Seq(Marks) : s \o t \in Seq(Marks)
  /\ \A s, t \in Seq(Marks) : Wall(s) \/ Wall(t) => Wall(s \o t)
  /\ \A c : \A s \in Seq(Marks) : If(c, s) \in Seq(Marks)
  /\ \A s : Wall(s) => s \in Seq(Marks)
<1>1. Cr \in Marks /\ Lf \in Marks
  BY MarksAre
<1>2. /\ <<Cr>> \in Seq(Marks) /\ <<Lf>> \in Seq(Marks) /\ <<>> \in Seq(Marks) /\ <<Cr, Lf>> \in Seq(Marks)
      /\ \A s, t \in Seq(Marks) : s \o t \in Seq(Marks)
  BY <1>1
<1>3. \A s, t \in Seq(Marks) : Wall(s) \/ Wall(t) => Wall(s \o t)
  BY WallWithin
<1>4. \A c : \A s \in Seq(Marks) : If(c, s) \in Seq(Marks)
  BY PerhapsMarks
<1>5. QED
  BY <1>2, <1>3, <1>4 DEF Wall

\* A tag of a block and newlines around it
LEMMA TagWalls ==
  ASSUME NEW t \in Tag \ Inline
  PROVE  /\ Wall(<<Open(t)>>) /\ Wall(<<Cr, Open(t)>>) /\ Wall(<<Cr, Open(t), Lf>>)
         /\ Wall(<<Close(t), Lf>>) /\ Wall(<<Cr, Close(t)>>) /\ Wall(<<Cr, Close(t), Lf>>)
<1>1. Open(t) \in Marks /\ Close(t) \in Marks /\ Cr \in Marks /\ Lf \in Marks
  BY MarksAre
<1>2. Bars(Open(t)) /\ Bars(Close(t))
  BY BarsAre
<1>3. QED
  BY <1>1, <1>2, OneMark, TwoMarks, ThreeMarks

\* Every other block separates when it is entered
LEMMA EnterWalled ==
  ASSUME NEW n, Kind(n) \in Block \ Silent, Kind(n) # doc.custom.kind, InRow(n),
         Kind(n) \in {"HtmlBlock", "HeexBlock"} => ~Has("compact_html")
  PROVE  Walled(formatter(n, TRUE), n)
<1>0. formatter(n, TRUE) = Rendered(n, TRUE)
  BY DEF formatter
<1>1. CASE Kind(n) \in {"BlockQuote", "MultilineBlockQuote", "Table"}
  <2>1. \/ Rendered(n, TRUE) = render_block_quote(TRUE) \/ Rendered(n, TRUE) = render_multiline_block_quote(TRUE)
        \/ Rendered(n, TRUE) = render_table(n, TRUE)
    BY <1>1 DEF Rendered, MarkTag, SpanTag
  <2>2. Wall(Framed("blockquote", TRUE)) /\ Wall(Framed("table", TRUE))
    BY TagsWall, TagNames
  <2>3. QED
    BY <1>0, <2>1, <2>2, WallIsWalled DEF render_block_quote, render_multiline_block_quote, render_table
<1>2. CASE Kind(n) = "FootnoteDefinition"
  <2> DEFINE a == If(footnote_ix = 0, <<Open("section"), Lf, Open("ol"), Lf>>)
             b == <<Open("li")>>
  <2>1. Rendered(n, TRUE) = a \o b
    BY <1>2 DEF Rendered, MarkTag, SpanTag, render_footnote_definition
  <2>2. Open("section") \in Marks /\ Open("ol") \in Marks /\ Lf \in Marks
    BY MarksAre, TagNames
  <2>3. <<Open("section"), Lf, Open("ol"), Lf>> \in Seq(Marks)
    BY <2>2
  <2>4. a \in Seq(Marks) /\ Wall(b)
    BY <2>3, TagWalls, TagNames, Bricks
  <2> HIDE DEF a, b
  <2>5. Wall(Rendered(n, TRUE))
    BY <2>1, <2>4, Bricks
  <2>6. QED
    BY <1>0, <2>5, WallIsWalled
<1>3. CASE Kind(n) \in {"List", "DescriptionList", "Item", "Heading"}
  <2>1. \/ Rendered(n, TRUE) = render_list(TRUE) \/ Rendered(n, TRUE) = render_description_list(TRUE)
        \/ Rendered(n, TRUE) = render_item(TRUE) \/ Rendered(n, TRUE) = render_heading(n, TRUE)
    BY <1>3 DEF Rendered, MarkTag, SpanTag
  <2>2. /\ Wall(<<Cr, Open("ol"), Lf>>) /\ Wall(<<Cr, Open("ul"), Lf>>) /\ Wall(<<Cr, Open("dl"), Lf>>)
        /\ Wall(<<Cr, Open("li")>>) /\ Wall(<<Cr, Open("h")>>)
    BY TagWalls, TagNames
  <2>3. Wall(Rendered(n, TRUE))
    BY <2>1, <2>2 DEF render_list, render_description_list, render_item, render_heading
  <2>4. QED
    BY <1>0, <2>3, WallIsWalled
<1>4. CASE Kind(n) \in {"DescriptionTerm", "DescriptionDetails", "BlockDirective"}
  <2>1. \/ Rendered(n, TRUE) = render_description_term(TRUE) \/ Rendered(n, TRUE) = render_description_details(TRUE)
        \/ Rendered(n, TRUE) = render_block_directive(TRUE)
    BY <1>4 DEF Rendered, MarkTag, SpanTag
  <2>2. Wall(Tags("dt", TRUE)) /\ Wall(Tags("dd", TRUE)) /\ Wall(Tags("div", TRUE))
    BY TagsWall, TagNames
  <2>3. Wall(render_description_term(TRUE)) /\ Wall(render_description_details(TRUE)) /\ Wall(render_block_directive(TRUE))
    BY <2>2, Bricks DEF render_description_term, render_description_details, render_block_directive
  <2>4. QED
    BY <1>0, <2>1, <2>3, WallIsWalled
<1>5. CASE Kind(n) = "CodeBlock"
  <2> DEFINE s == <<Cr, Open("pre"), Open("code"), Word(n), Close("code"), Close("pre"), Lf>>
  <2>1. Rendered(n, TRUE) = s
    BY <1>5 DEF Rendered, MarkTag, SpanTag, render_code_block, Leaf
  <2>2. /\ Cr \in Says(n) /\ Lf \in Says(n) /\ Word(n) \in Says(n)
        /\ \A t \in {"pre", "code"} : Open(t) \in Marks /\ Close(t) \in Marks /\ Open(t) \in Says(n) /\ Close(t) \in Says(n)
    BY MarksAre, TagNames
  <2>3. /\ s \in Seq(Says(n)) /\ Len(s) = 7 /\ s[1] = Cr /\ s[2] = Open("pre") /\ s[6] = Close("pre") /\ s[7] = Lf
        /\ 2 \in 1..7 /\ 6 \in 1..7 /\ 1..(2 - 1) = {1} /\ (6 + 1)..7 = {7}
    BY <2>2
  <2> HIDE DEF s
  <2>4. Bars(s[2]) /\ Bars(s[6]) /\ ~IsWord(s[1]) /\ ~IsWord(s[7])
    BY <2>3, BarsAre, TagNames, MarksAre
  <2>5. Walled(s, n)
    BY <2>3, <2>4 DEF Walled
  <2>6. QED
    BY <1>0, <2>1, <2>5
<1>6. CASE Kind(n) = "HtmlBlock"
  <2>1. Rendered(n, TRUE) = <<Cr>> \o Raw(n) \o <<Cr>>
    BY <1>6 DEF Rendered, MarkTag, SpanTag, render_html_block, Leaf
  <2>2. PICK x \in Says(n) : Raw(n) = <<x>>
    BY RawSays
  <2>3. Cr \in Marks /\ Bars(Cr)
    BY <1>6, MarksAre, BarsAre
  <2>4. QED
    BY <1>0, <2>1, <2>2, <2>3, BetweenBars
<1>7. CASE Kind(n) \in {"HeexBlock", "ThematicBreak"}
  <2>1. \/ Kind(n) = "HeexBlock" /\ Rendered(n, TRUE) = <<Cr, Void("raw"), Cr>>
        \/ Rendered(n, TRUE) = <<Cr, Void("hr"), Lf>>
    BY <1>7 DEF Rendered, MarkTag, SpanTag, render_heex_block, render_thematic_break, Leaf
  <2>2. Void("raw") \in Marks /\ Void("hr") \in Marks /\ Cr \in Marks /\ Lf \in Marks /\ Bars(Void("hr"))
    BY MarksAre, BarsAre DEF Names
  <2>3. Wall(Rendered(n, TRUE))
    BY <2>1, <2>2, ThreeMarks, BarsAre
  <2>4. QED
    BY <1>0, <2>3, WallIsWalled
<1>8. CASE Kind(n) \in {"HeaderRow", "TableRow"}
  <2>1. Rendered(n, TRUE) = render_table_row(n, TRUE)
    BY <1>8 DEF Rendered, MarkTag, SpanTag
  <2>2. Open("thead") \in Marks /\ Open("tbody") \in Marks /\ Lf \in Marks /\ Wall(<<Open("tr")>>)
    BY MarksAre, TagWalls, TagNames
  <2>3. <<Open("thead"), Lf>> \in Seq(Marks) /\ <<Open("tbody"), Lf>> \in Seq(Marks)
    BY <2>2
  <2>4. Wall(render_table_row(n, TRUE))
    BY <2>2, <2>3, Bricks DEF render_table_row
  <2>5. QED
    BY <1>0, <2>1, <2>4, WallIsWalled
<1>9. CASE Kind(n) = "TableCell"
  <2>1. Rendered(n, TRUE) = render_table_cell(n, TRUE)
    BY <1>9 DEF Rendered, MarkTag, SpanTag
  <2>2. Wall(Tags("th", TRUE)) /\ Wall(Tags("td", TRUE))
    BY TagsWall, TagNames
  <2>3. Wall(If(TRUE, <<Cr>>) \o Tags("th", TRUE)) /\ Wall(If(TRUE, <<Cr>>) \o Tags("td", TRUE))
    BY <2>2, Bricks
  <2>4. Wall(render_table_cell(n, TRUE))
    BY <1>9, <2>3 DEF render_table_cell, InRow
  <2>5. QED
    BY <1>0, <2>1, <2>4, WallIsWalled
<1>10. CASE Kind(n) = "TaskItem"
  <2>1. Rendered(n, TRUE) = render_task_item(n, TRUE)
    BY <1>10 DEF Rendered, MarkTag, SpanTag
  <2>2. Wall(<<Void("input")>>) /\ <<Open("li")>> \in Seq(Marks)
    BY MarksAre, BarsAre, TagNames, OneMark DEF Names
  <2>3. Wall(render_task_item(n, TRUE))
    BY <2>2, Bricks DEF render_task_item
  <2>4. QED
    BY <1>0, <2>1, <2>3, WallIsWalled
<1>11. CASE Kind(n) \in {"Alert", "LemmySpoiler"}
  <2>1. Rendered(n, TRUE) = render_alert(n, TRUE) \/ Rendered(n, TRUE) = render_lemmy_spoiler(n, TRUE)
    BY <1>11 DEF Rendered, MarkTag, SpanTag
  <2>2. Wall(Framed("div", TRUE)) /\ Wall(Framed("details", TRUE))
    BY TagsWall, TagNames
  <2>3. Open("p") \in Marks /\ Close("p") \in Marks /\ Open("summary") \in Marks /\ Close("summary") \in Marks /\ Lf \in Marks
    BY MarksAre, TagNames
  <2>4. Bars(Open("p")) /\ Bars(Close("p")) /\ Bars(Open("summary")) /\ Bars(Close("summary"))
    BY BarsAre, TagNames
  <2>5. Walled(<<Open("p"), Word(n), Close("p"), Lf>>, n) /\ Walled(<<Open("summary"), Word(n), Close("summary"), Lf>>, n)
    BY <2>3, <2>4, WordWalled
  <2> DEFINE a == Framed("div", TRUE)
             d == Framed("details", TRUE)
             p == <<Open("p"), Word(n), Close("p"), Lf>>
             t == <<Open("summary"), Word(n), Close("summary"), Lf>>
  <2>6. /\ a \in Seq(Marks) /\ d \in Seq(Marks) /\ Wall(d) /\ Walled(p, n) /\ Walled(t, n)
        /\ render_alert(n, TRUE) = a \o p
        /\ render_lemmy_spoiler(n, TRUE) = d \o (IF Has("title") THEN t ELSE <<>>)
    <3>1. a \in Seq(Marks) /\ d \in Seq(Marks)
      BY <2>2, Bricks
    <3>2. render_alert(n, TRUE) = a \o p
      BY DEF render_alert
    <3>3. render_lemmy_spoiler(n, TRUE) = d \o (IF Has("title") THEN t ELSE <<>>)
      BY DEF render_lemmy_spoiler, If
    <3>4. QED
      BY <2>2, <2>5, <3>1, <3>2, <3>3
  <2> HIDE DEF a, d, p, t
  <2>7. Walled(a \o p, n) /\ Walled(d \o t, n)
    BY <2>6, WalledWithin
  <2>9. Walled(d \o <<>>, n)
    BY <2>6, Bricks, WallIsWalled
  <2>10. QED
    BY <1>0, <2>1, <2>6, <2>7, <2>9
<1>12. CASE Kind(n) = "Subtext"
  <2>1. Rendered(n, TRUE) = <<Cr, Open("p"), Open("sub")>>
    BY <1>12 DEF Rendered, MarkTag, SpanTag, render_subtext
  <2>2. Cr \in Marks /\ Open("p") \in Marks /\ Open("sub") \in Marks /\ Bars(Open("p"))
    BY MarksAre, BarsAre, TagNames
  <2>3. Wall(Rendered(n, TRUE))
    BY <2>1, <2>2, ThreeMarks
  <2>4. QED
    BY <1>0, <2>3, WallIsWalled
<1>13. QED
  BY <1>1, <1>2, <1>3, <1>4, <1>5, <1>6, <1>7, <1>8, <1>9, <1>10, <1>11, <1>12 DEF Block, Silent

LEMMA BackrefMarks == put_footnote_backref \in Seq(Marks)
<1>1. Open("a") \in Marks /\ Close("a") \in Marks /\ Open("sup") \in Marks /\ Close("sup") \in Marks
  BY MarksAre, TagNames
<1>2. <<Open("a"), Close("a")>> \in Seq(Marks) /\ <<Open("a"), Open("sup"), Close("sup"), Close("a")>> \in Seq(Marks)
  BY <1>1
<1>3. QED
  BY <1>2, Bricks DEF put_footnote_backref

\* And, but for those that end where they begin, when it is left
LEMMA LeaveWall ==
  ASSUME NEW n, Kind(n) \in Block \ (Silent \cup Ended), Kind(n) # doc.custom.kind, InRow(n),
         Kind(n) = "TaskItem" => Kind(Parent(n)) = "List"
  PROVE  Wall(formatter(n, FALSE))
<1>0. formatter(n, FALSE) = Rendered(n, FALSE)
  BY DEF formatter
<1>1. CASE Kind(n) \in {"BlockQuote", "MultilineBlockQuote", "Table"}
  <2>1. \/ Rendered(n, FALSE) = render_block_quote(FALSE) \/ Rendered(n, FALSE) = render_multiline_block_quote(FALSE)
        \/ Rendered(n, FALSE) = render_table(n, FALSE)
    BY <1>1 DEF Rendered, MarkTag, SpanTag
  <2>2. Wall(Framed("blockquote", FALSE)) /\ Wall(Framed("table", FALSE)) /\ Wall(<<Cr, Close("tbody"), Lf>>)
    BY TagsWall, TagWalls, TagNames
  <2>3. Wall(render_table(n, FALSE))
    BY <2>2, Bricks DEF render_table
  <2>4. QED
    BY <1>0, <2>1, <2>2, <2>3 DEF render_block_quote, render_multiline_block_quote
<1>2. CASE Kind(n) = "FootnoteDefinition"
  <2> DEFINE a == put_footnote_backref
             b == If(a # <<>>, <<Lf>>)
             c == <<Close("li"), Lf>>
  <2>1. Rendered(n, FALSE) = a \o b \o c
    BY <1>2 DEF Rendered, MarkTag, SpanTag, render_footnote_definition
  <2>2. Wall(c) /\ a \in Seq(Marks) /\ b \in Seq(Marks)
    BY TagWalls, TagNames, BackrefMarks, Bricks
  <2> HIDE DEF a, b, c
  <2>3. a \o b \in Seq(Marks)
    BY <2>2, Bricks
  <2>4. Wall((a \o b) \o c)
    BY <2>2, <2>3, Bricks
  <2>5. QED
    BY <1>0, <2>1, <2>4
<1>3. CASE Kind(n) \in {"List", "DescriptionList", "Item"}
  <2>1. \/ Rendered(n, FALSE) = render_list(FALSE) \/ Rendered(n, FALSE) = render_description_list(FALSE)
        \/ Rendered(n, FALSE) = render_item(FALSE)
    BY <1>3 DEF Rendered, MarkTag, SpanTag
  <2>2. Wall(<<Close("ol"), Lf>>) /\ Wall(<<Close("ul"), Lf>>) /\ Wall(<<Close("dl"), Lf>>) /\ Wall(<<Close("li"), Lf>>)
    BY TagWalls, TagNames
  <2>3. QED
    BY <1>0, <2>1, <2>2 DEF render_list, render_description_list, render_item
<1>4. CASE Kind(n) \in {"DescriptionTerm", "DescriptionDetails", "BlockDirective"}
  <2>1. \/ Rendered(n, FALSE) = render_description_term(FALSE) \/ Rendered(n, FALSE) = render_description_details(FALSE)
        \/ Rendered(n, FALSE) = render_block_directive(FALSE)
    BY <1>4 DEF Rendered, MarkTag, SpanTag
  <2>2. Wall(Tags("dt", FALSE)) /\ Wall(Tags("dd", FALSE)) /\ Wall(Tags("div", FALSE))
    BY TagsWall, TagNames
  <2>3. Wall(render_description_term(FALSE)) /\ Wall(render_description_details(FALSE)) /\ Wall(render_block_directive(FALSE))
    BY <2>2, Bricks DEF render_description_term, render_description_details, render_block_directive
  <2>4. QED
    BY <1>0, <2>1, <2>3
<1>5. CASE Kind(n) = "Heading"
  <2>1. Rendered(n, FALSE) = render_heading(n, FALSE)
    BY <1>5 DEF Rendered, MarkTag, SpanTag
  <2>2. Panic \in Marks /\ Open("a") \in Marks /\ Close("a") \in Marks
    BY MarksAre, TagNames
  <2>3. <<Panic>> \in Seq(Marks) /\ <<Open("a"), Close("a")>> \in Seq(Marks) /\ Wall(<<Close("h"), Lf>>)
    <3>1. <<Panic>> \in Seq(Marks) /\ <<Open("a"), Close("a")>> \in Seq(Marks)
      BY <2>2
    <3>2. QED
      BY <3>1, TagWalls, TagNames
  <2>4. (IF heading = 0 THEN <<Panic>> ELSE <<Open("a"), Close("a")>>) \in Seq(Marks)
    BY <2>3
  <2>5. Wall(render_heading(n, FALSE))
    BY <2>3, <2>4, Bricks DEF render_heading
  <2>6. QED
    BY <1>0, <2>1, <2>5
<1>6. CASE Kind(n) \in {"HeaderRow", "TableRow"}
  <2>1. Rendered(n, FALSE) = render_table_row(n, FALSE)
    BY <1>6 DEF Rendered, MarkTag, SpanTag
  <2>2. Wall(<<Cr, Close("tr")>>) /\ Wall(<<Cr, Close("thead")>>)
    BY TagWalls, TagNames
  <2>3. Wall(render_table_row(n, FALSE))
    BY <2>2, Bricks DEF render_table_row
  <2>4. QED
    BY <1>0, <2>1, <2>3
<1>7. CASE Kind(n) = "TableCell"
  <2>1. Rendered(n, FALSE) = render_table_cell(n, FALSE)
    BY <1>7 DEF Rendered, MarkTag, SpanTag
  <2>2. Wall(Tags("th", FALSE)) /\ Wall(Tags("td", FALSE))
    BY TagsWall, TagNames
  <2>3. Wall(If(FALSE, <<Cr>>) \o Tags("th", FALSE)) /\ Wall(If(FALSE, <<Cr>>) \o Tags("td", FALSE))
    BY <2>2, Bricks
  <2>4. Wall(render_table_cell(n, FALSE))
    BY <1>7, <2>3 DEF render_table_cell, InRow
  <2>5. QED
    BY <1>0, <2>1, <2>4
<1>8. CASE Kind(n) = "TaskItem"
  <2>1. Rendered(n, FALSE) = <<Close("li"), Lf>>
    BY <1>8 DEF Rendered, MarkTag, SpanTag, render_task_item, If
  <2>2. QED
    BY <1>0, <2>1, TagWalls, TagNames
<1>9. CASE Kind(n) \in {"Alert", "LemmySpoiler"}
  <2>1. Rendered(n, FALSE) = render_alert(n, FALSE) \/ Rendered(n, FALSE) = render_lemmy_spoiler(n, FALSE)
    BY <1>9 DEF Rendered, MarkTag, SpanTag
  <2>2. Wall(Framed("div", FALSE)) /\ Wall(Framed("details", FALSE))
    BY TagsWall, TagNames
  <2> DEFINE d == Framed("details", FALSE)
  <2>3. render_alert(n, FALSE) = Framed("div", FALSE) /\ render_lemmy_spoiler(n, FALSE) = d \o <<>>
    BY DEF render_alert, render_lemmy_spoiler, If
  <2>4. Wall(d)
    BY <2>2
  <2> HIDE DEF d
  <2>5. Wall(d \o <<>>)
    BY <2>4, Bricks
  <2>6. QED
    BY <1>0, <2>1, <2>2, <2>3, <2>5
<1>10. CASE Kind(n) = "Subtext"
  <2>1. Rendered(n, FALSE) = <<Close("sub"), Close("p"), Lf>>
    BY <1>10 DEF Rendered, MarkTag, SpanTag, render_subtext
  <2>2. Close("sub") \in Marks /\ Close("p") \in Marks /\ Lf \in Marks /\ Bars(Close("p"))
    BY MarksAre, BarsAre, TagNames
  <2>3. QED
    BY <1>0, <2>1, <2>2, ThreeMarks
<1>11. QED
  BY <1>1, <1>2, <1>3, <1>4, <1>5, <1>6, <1>7, <1>8, <1>9, <1>10 DEF Block, Silent, Ended

(***************************************************************************)
(* Blocks and text                                                         *)
(***************************************************************************)
LEMMA UpExists ==
  ASSUME Parsed
  PROVE  \E h : h = [m \in DocNodes |-> IF Kind(m) \in Block THEN m ELSE h[Parent(m)]]
<1> DEFINE Up(o, m) == IF Kind(m) \in Block THEN m ELSE o[Parent(m)]
           Upto(k, o) == \A m \in 1..k : m \in DocNodes => o[m] = Up(o, m)
           S == {k \in Nat : \E o : Upto(k, o)}
<1>1. 0 \in S
  OBVIOUS
<1>2. \A m \in DocNodes : Parent(m) \in Nat /\ Parent(m) < m /\ (Kind(m) \notin Block => Parent(m) \in DocNodes)
  <2>1. Kind(1) \in Block
    BY TreeFacts DEF Block
  <2>2. QED
    BY <2>1, TreeFacts
<1>3. ASSUME NEW k \in S PROVE k + 1 \in S
  <2>1. PICK o : Upto(k, o)
    OBVIOUS
  <2> DEFINE x == Up(o, k + 1)
             e == [m \in 0..(k + 1) |-> IF m <= k THEN o[m] ELSE x]
  <2>2. k \in Nat /\ \A m \in 0..k : m \in 0..(k + 1) /\ m <= k
    OBVIOUS
  <2>3. \A m \in 0..k : e[m] = o[m]
    BY <2>1, <2>2
  <2>4. k + 1 \in 0..(k + 1) /\ ~(k + 1 <= k)
    BY <2>2
  <2>5. e[k + 1] = x
    BY <2>4
  <2> HIDE DEF e
  <2>6. ASSUME NEW m \in 1..(k + 1), m \in DocNodes PROVE e[m] = Up(e, m)
    <3>1. Parent(m) \in 0..k
      BY <1>2, <2>2, <2>6
    <3>2. CASE m = k + 1
      BY <2>3, <2>5, <3>1, <3>2
    <3>3. CASE m # k + 1
      <4>1. m \in 1..k /\ m \in 0..k
        BY <2>2, <3>3
      <4>2. QED
        BY <2>1, <2>3, <2>6, <3>1, <4>1
    <3>4. QED
      BY <3>2, <3>3
  <2> HIDE DEF x
  <2>7. Upto(k + 1, e)
    BY <2>6
  <2>8. QED
    BY <2>2, <2>7
<1>4. S = Nat
  BY <1>1, <1>3, EveryNumber
<1>5. Size \in Nat /\ DocNodes = 1..Size
  BY TreeFacts
<1>6. PICK o : Upto(Size, o)
  BY <1>4, <1>5
<1> DEFINE h == [m \in DocNodes |-> o[m]]
<1>7. \A m \in DocNodes : h[m] = IF Kind(m) \in Block THEN m ELSE h[Parent(m)]
  BY <1>2, <1>5, <1>6
<1>8. h = [m \in DocNodes |-> IF Kind(m) \in Block THEN m ELSE h[Parent(m)]]
  <2>1. h = [m \in DocNodes |-> h[m]]
    OBVIOUS
  <2> HIDE DEF h
  <2>2. QED
    BY <1>7, <2>1
<1>9. QED
  BY <1>8

LEMMA BlockOfIs ==
  ASSUME Parsed, NEW n \in DocNodes
  PROVE  BlockOf(n) = IF Kind(n) \in Block THEN n ELSE BlockOf(Parent(n))
<1> DEFINE up[m \in DocNodes] == IF Kind(m) \in Block THEN m ELSE up[Parent(m)]
<1>1. \A m : BlockOf(m) = up[m]
  BY DEF BlockOf
<1>2. up = [m \in DocNodes |-> IF Kind(m) \in Block THEN m ELSE up[Parent(m)]]
  BY UpExists
<1> HIDE DEF up
<1>3. \A m \in DocNodes : up[m] = IF Kind(m) \in Block THEN m ELSE up[Parent(m)]
  BY <1>2, Zenon
<1>4. QED
  BY <1>1, <1>3

\* Where blocks and text may stand
LEMMA PlacesAre ==
  ASSUME Parsed, Ours, NEW n \in DocNodes
  PROVE  /\ InText(n) => n # 1 /\ Kind(n) \notin Block /\ BlockOf(n) = BlockOf(Parent(n))
         /\ n # 1 /\ InText(Parent(n)) => InText(n)
         /\ n # 1 /\ InText(n) => InText(Parent(n)) \/ Kind(Parent(n)) \in {"Paragraph", "Heading", "Subtext", "TableCell"}
         /\ n # 1 /\ ~InText(n) =>
              /\ Kind(Parent(n)) \in Holders \cup {"List", "DescriptionList", "DescriptionItem", "Table", "HeaderRow",
                                                   "TableRow", "TableCell"}
              /\ Kind(Parent(n)) = "TableCell" => Kind(n) = "TaskItem"
         /\ n # 1 /\ Kind(n) \in Silent => Kind(Parent(n)) \in Holders \cup {"DescriptionList"}
         /\ n # 1 /\ Kind(Parent(n)) = "DescriptionItem" => Kind(n) \in {"DescriptionTerm", "DescriptionDetails"}
         /\ n # 1 /\ Kind(n) = "TaskItem" => Kind(Parent(n)) \in {"List", "TableCell"}
         /\ n # 1 /\ Kind(n) = "DescriptionList" => Kind(Parent(n)) \in Holders
         /\ n # 1 /\ Kind(n) = "DescriptionItem" => Kind(Parent(n)) = "DescriptionList"
         /\ n # 1 /\ Kind(n) = "FrontMatter" => Kind(Parent(n)) = "Document"
         /\ Kind(n) = "Document" <=> n = 1
<1>1. /\ Kind(n) # "Raw" /\ Kind(n) \in NodeKinds /\ Kind(1) = "Document"
      /\ n # 1 => can_contain_type(Kind(Parent(n)), Kind(n)) /\ Parent(n) \in DocNodes
  BY TreeFacts DEF Ours
<1>2. "Document" \in Block
  BY DEF Block
<1>3. BlockOf(n) = IF Kind(n) \in Block THEN n ELSE BlockOf(Parent(n))
  BY BlockOfIs
<1>4. InText(n) => n # 1 /\ Kind(n) \notin Block
  BY <1>1, <1>2 DEF InText
<1> DEFINE k == Kind(n)
           p == Kind(Parent(n))
<1>5. n # 1 => /\ k \notin {"Document", "Raw"}
               /\ \/ p \in Holders /\ k \in Block \ {"Item", "TaskItem"}
                  \/ p = "List" /\ k \in {"Item", "TaskItem"}
                  \/ p = "DescriptionList" /\ k = "DescriptionItem"
                  \/ p = "DescriptionItem" /\ k \in {"DescriptionTerm", "DescriptionDetails"}
                  \/ p \in Spans \cup {"Paragraph", "Heading", "Subtext", "ShortCode"} /\ k \notin Block /\ k # "FrontMatter"
                  \/ p = "Table" /\ k \in {"HeaderRow", "TableRow"}
                  \/ p \in {"HeaderRow", "TableRow"} /\ k = "TableCell"
                  \/ p = "TableCell" /\ k \in Spans \cup {"Text", "Code", "HtmlInline", "Math", "FootnoteReference",
                                                          "TaskItem", "Escaped", "CommentInline", "ShortCode", "HeexInline"}
                  \/ p = "Escaped" /\ k = "Text"
                  \/ k = "FrontMatter" /\ p = "Document"
  BY <1>1 DEF can_contain_type
<1>6. Kind(n) = "Document" <=> n = 1
  BY <1>1, <1>5
<1>7. InText(n) <=> k \notin Block /\ k # "FrontMatter"
  BY DEF InText
<1>8. InText(Parent(n)) <=> p \notin Block /\ p # "FrontMatter"
  BY DEF InText
<1> HIDE DEF k, p
<1>9. n # 1 /\ InText(Parent(n)) => InText(n)
  BY <1>5, <1>7, <1>8 DEF Block, Holders, Spans
<1>10. n # 1 /\ InText(n) => InText(Parent(n)) \/ p \in {"Paragraph", "Heading", "Subtext", "TableCell"}
  BY <1>5, <1>7, <1>8 DEF Block, Holders, Spans
<1>11. n # 1 /\ ~InText(n) =>
         /\ p \in Holders \cup {"List", "DescriptionList", "DescriptionItem", "Table", "HeaderRow", "TableRow", "TableCell"}
         /\ p = "TableCell" => k = "TaskItem"
  BY <1>5, <1>7 DEF Block, Holders, Spans
<1>12. n # 1 /\ k \in Silent => p \in Holders \cup {"DescriptionList"}
  BY <1>5 DEF Block, Holders, Spans, Silent
<1>13. n # 1 /\ p = "DescriptionItem" => k \in {"DescriptionTerm", "DescriptionDetails"}
  BY <1>5 DEF Block, Holders, Spans
<1>15. n # 1 /\ k = "TaskItem" => p \in {"List", "TableCell"}
  BY <1>5 DEF Block, Holders, Spans
<1>16. n # 1 /\ k = "DescriptionList" => p \in Holders
  BY <1>5 DEF Block, Holders, Spans
<1>17. n # 1 /\ k = "DescriptionItem" => p = "DescriptionList"
  BY DEF Ours, k, p
<1>18. n # 1 /\ k = "FrontMatter" => p = "Document"
  BY <1>5 DEF Block, Holders, Spans
<1>19. QED
  BY <1>3, <1>4, <1>6, <1>9, <1>10, <1>11, <1>12, <1>13, <1>15, <1>16, <1>17, <1>18 DEF k, p

\* Where a paragraph is not tight
LEMMA NeverTight ==
  ASSUME Parsed, Ours, NEW n \in DocNodes, n # 1
  PROVE  /\ Kind(Parent(n)) \in {"Document", "DescriptionList"} => ~Tight(n)
         /\ Kind(Parent(n)) = "TaskItem" /\ Kind(Parent(Parent(n))) # "List" => ~Tight(n)
<1> DEFINE p == Parent(n)
<1>1. p \in DocNodes
  BY TreeFacts
<1>2. Tight(n) => Kind(Parent(p)) \in {"List", "DescriptionItem"} \/ Kind(p) = "DescriptionTerm"
  BY DEF Tight
<1> HIDE DEF p
<1>3. CASE Kind(p) = "Document"
  <2>1. p = 1
    BY <1>1, <1>3, PlacesAre
  <2>2. Kind(Parent(p)) = "none"
    BY <2>1, TreeFacts DEF Kind
  <2>3. QED
    BY <1>2, <1>3, <2>2 DEF p
<1>4. CASE Kind(p) = "DescriptionList"
  <2>1. p # 1
    BY <1>1, <1>4, PlacesAre
  <2>2. Kind(Parent(p)) \in Holders
    BY <1>1, <1>4, <2>1, PlacesAre
  <2>3. QED
    BY <1>2, <1>4, <2>2 DEF Holders, p
<1>5. CASE Kind(p) = "TaskItem" /\ Kind(Parent(p)) # "List"
  <2>1. p # 1
    BY <1>1, <1>5, PlacesAre
  <2>2. Kind(Parent(p)) = "TableCell"
    BY <1>1, <1>5, <2>1, PlacesAre
  <2>3. QED
    BY <1>2, <1>5, <2>2 DEF p
<1>6. QED
  BY <1>3, <1>4, <1>5 DEF p

\* The sibling after a paragraph, and after a comment
LEMMA NextSibling ==
  ASSUME Parsed, NEW m \in DocNodes, Before(m) # {}, NEW n, n = Highest(Before(m))
  PROVE  /\ n \in DocNodes /\ Parent(m) = Parent(n) /\ m # 1 /\ n # 1 /\ Tight(m) = Tight(n)
         /\ Kind(n) = "Paragraph" => AfterParagraph(m)
         /\ Kind(n) = "MultilineComment" => (AfterParagraph(m) <=> AfterParagraph(n))
<1>1. /\ Before(m) = {i \in DocNodes : Parent(i) = Parent(m) /\ i < m}
      /\ n \in Before(m) /\ \A i \in Before(m) : i <= n
  BY BeforeIs
<1>2. Size \in Nat /\ DocNodes = 1..Size /\ \A i \in DocNodes : i \in Nat /\ Parent(i) \in Nat /\ Parent(i) < i
  BY TreeFacts
<1>3. n \in DocNodes /\ Parent(m) = Parent(n) /\ n < m /\ m # 1
  BY <1>1, <1>2
<1>4. n # 1
  <2>1. Parent(m) \in DocNodes
    BY <1>3, TreeFacts
  <2>2. QED
    BY <1>2, <1>3, <2>1, TreeFacts
<1>5. Tight(m) = Tight(n)
  BY <1>3 DEF Tight
<1> DEFINE shown(i) == {j \in Before(i) : Kind(j) # "MultilineComment"}
<1>6. \A i : AfterParagraph(i) <=> shown(i) # {} /\ Kind(Highest(shown(i))) = "Paragraph"
  BY DEF AfterParagraph
<1>7. ASSUME Kind(n) = "Paragraph" PROVE AfterParagraph(m)
  <2>1. n \in shown(m) /\ shown(m) \subseteq 1..Size /\ \A i \in shown(m) : i <= n
    BY <1>1, <1>2, <1>7
  <2> DEFINE X == shown(m)
             h == Highest(X)
  <2> HIDE DEF X
  <2>2. h \in X /\ \A i \in X : i <= h
    BY <1>2, <2>1, HighestIs DEF X
  <2>3. h = n
    <3>1. h <= n /\ n <= h /\ h \in Nat /\ n \in Nat
      BY <1>2, <1>3, <2>1, <2>2 DEF X
    <3>2. QED
      BY <3>1
  <2>4. QED
    BY <1>6, <1>7, <2>1, <2>3 DEF X
<1>8. ASSUME Kind(n) = "MultilineComment" PROVE AfterParagraph(m) <=> AfterParagraph(n)
  <2>1. Before(n) = {i \in DocNodes : Parent(i) = Parent(n) /\ i < n}
    BY <1>3, BeforeIs
  <2>2. \A i \in DocNodes : i < n => i < m
    BY <1>2, <1>3
  <2>3. \A i \in DocNodes : i <= n => i < n \/ i = n
    BY <1>2, <1>3
  <2>4. shown(m) = shown(n)
    BY <1>1, <1>3, <1>8, <2>1, <2>2, <2>3
  <2>5. QED
    BY <1>6, <2>4
<1>9. QED
  BY <1>3, <1>4, <1>5, <1>7, <1>8

(***************************************************************************)
(* From one entry to the next                                              *)
(***************************************************************************)
\* When a node is done: the words of its block, or none
Done(n, w) ==
  /\ InText(n) => Apart(w, {BlockOf(n)})
  /\ ~InText(n) /\ ~(Tight(n) /\ (Kind(n) = "Paragraph" \/ (Kind(n) = "MultilineComment" /\ AfterParagraph(n)))) => Apart(w, {})

LEMMA ParentReady ==
  ASSUME Parsed, Ours, NEW n \in DocNodes, n # 1, NEW w, Done(n, w), NEW e, e.phase = "Post", e.node = Parent(n)
  PROVE  Ready(e, w)
<1> DEFINE p == Parent(n)
<1>1. p \in DocNodes
  BY TreeFacts
<1>2. ASSUME InText(p) PROVE Apart(w, {BlockOf(p)})
  <2>1. InText(n) /\ BlockOf(n) = BlockOf(p)
    BY <1>2, PlacesAre
  <2>2. QED
    BY <2>1 DEF Done
<1>3. ASSUME Clear(e) PROVE Apart(w, {})
  <2>1. \/ Kind(p) \in Ended \/ Kind(p) = "MultilineComment"
        \/ Kind(p) = "TaskItem" /\ Kind(Parent(p)) # "List"
    BY <1>3 DEF Clear
  <2>2. Kind(p) \in Block \cup {"FrontMatter"}
    BY <2>1 DEF Ended, Block
  <2>3. ~InText(p) /\ Kind(p) \notin {"Paragraph", "Heading", "Subtext", "TableCell"}
    BY <2>1, <2>2 DEF InText, Ended
  <2>4. ~InText(n)
    BY <2>3, PlacesAre
  <2>5. \/ Kind(p) = "Document" \/ Kind(p) = "DescriptionItem"
        \/ Kind(p) = "TaskItem" /\ Kind(Parent(p)) # "List"
    <3> DEFINE k == Kind(p)
               l == Kind(Parent(p))
    <3>1. k \in Holders \cup {"List", "DescriptionList", "DescriptionItem", "Table", "HeaderRow", "TableRow", "TableCell"}
      BY <2>4, PlacesAre
    <3>2. k \in Ended \/ k = "MultilineComment" \/ (k = "TaskItem" /\ l # "List")
      BY <2>1
    <3> HIDE DEF k, l
    <3>3. k = "Document" \/ k = "DescriptionItem" \/ (k = "TaskItem" /\ l # "List")
      BY <3>1, <3>2 DEF Ended, Holders
    <3>4. QED
      BY <3>3 DEF k, l
  <2>6. ~Tight(n) \/ Kind(n) \in {"DescriptionTerm", "DescriptionDetails"}
    BY <2>5, NeverTight, PlacesAre
  <2>7. QED
    BY <2>4, <2>6 DEF Done
<1>4. QED
  BY <1>2, <1>3 DEF Ready

LEMMA SiblingReady ==
  ASSUME Parsed, Ours, NEW w, NEW e, e.phase = "Pre", e.node \in DocNodes, Before(e.node) # {},
         Done(Highest(Before(e.node)), w)
  PROVE  Ready(e, w)
<1> DEFINE m == e.node
           n == Highest(Before(m))
<1>1. /\ m \in DocNodes /\ n \in DocNodes /\ Parent(m) = Parent(n) /\ m # 1 /\ n # 1 /\ Tight(m) = Tight(n)
      /\ Kind(n) = "Paragraph" => AfterParagraph(m)
      /\ Kind(n) = "MultilineComment" => (AfterParagraph(m) <=> AfterParagraph(n))
  BY NextSibling
<1>2. Done(n, w)
  OBVIOUS
<1>3. Clear(e) <=> Kind(m) \in Silent /\ ~Loud(m)
  BY DEF Clear
<1> HIDE DEF n, m
<1>4. ASSUME InText(m) PROVE Apart(w, {BlockOf(m)})
  <2>1. BlockOf(m) = BlockOf(Parent(m))
    BY <1>1, <1>4, PlacesAre
  <2>2. CASE InText(n)
    <3>1. BlockOf(n) = BlockOf(Parent(n))
      BY <1>1, <2>2, PlacesAre
    <3>2. QED
      BY <1>1, <1>2, <2>1, <2>2, <3>1 DEF Done
  <2>3. CASE ~InText(n)
    <3>1. InText(Parent(m)) \/ Kind(Parent(m)) \in {"Paragraph", "Heading", "Subtext", "TableCell"}
      BY <1>1, <1>4, PlacesAre
    <3>2. ~InText(Parent(n))
      BY <1>1, <2>3, PlacesAre
    <3>3. Kind(n) = "TaskItem"
      <4>1. Kind(Parent(n)) \in Holders \cup {"List", "DescriptionList", "DescriptionItem", "Table", "HeaderRow", "TableRow", "TableCell"}
        BY <1>1, <2>3, PlacesAre
      <4>2. Kind(Parent(n)) = "TableCell"
        BY <1>1, <3>1, <3>2, <4>1 DEF Holders
      <4>3. QED
        BY <1>1, <2>3, <4>2, PlacesAre
    <3>4. Apart(w, {})
      BY <1>2, <2>3, <3>3 DEF Done
    <3>5. QED
      BY <3>4, ApartMore
  <2>4. QED
    BY <2>2, <2>3
<1>5. ASSUME Kind(m) \in Silent, ~Loud(m) PROVE Apart(w, {})
  <2>1. Kind(Parent(m)) \in Holders \cup {"DescriptionList"}
    BY <1>1, <1>5, PlacesAre
  <2>2. ~InText(n)
    <3>1. ~InText(Parent(n)) /\ Kind(Parent(n)) \notin {"Paragraph", "Heading", "Subtext", "TableCell"}
      BY <1>1, <2>1 DEF InText, Holders, Block
    <3>2. QED
      BY <1>1, <3>1, PlacesAre
  <2>3. ~(Tight(n) /\ (Kind(n) = "Paragraph" \/ (Kind(n) = "MultilineComment" /\ AfterParagraph(n))))
    BY <1>1, <1>5 DEF Loud
  <2>4. QED
    BY <1>2, <2>2, <2>3 DEF Done
<1>6. QED
  BY <1>3, <1>4, <1>5 DEF Ready, m

(***************************************************************************)
(* The stack                                                               *)
(***************************************************************************)
\* The children of a node follow each other
LEMMA ChildrenFollow ==
  ASSUME Parsed, NEW n, NEW r \in {"HTML", "Plain", "Skip"}, NEW c, c = Children(n, r)
  PROVE  \A i \in 2..Len(c) : Before(c[i - 1].node) # {} /\ Highest(Before(c[i - 1].node)) = c[i].node
<1> DEFINE s == Kids(n)
           L == Len(s)
<1>1. /\ s \in Seq(DocNodes) /\ L \in Nat
      /\ \A i \in 1..L : doc.parent[s[i]] = n
      /\ \A i, j \in 1..L : i < j => s[i] < s[j]
      /\ \A m \in DocNodes : doc.parent[m] = n => \E i \in 1..L : s[i] = m
  BY KidsAre
<1>2. CASE r = "Skip"
  <2>1. c = <<>>
    BY <1>2 DEF Children
  <2>2. QED
    BY <2>1
<1>3. CASE r # "Skip"
  <2> HIDE DEF s
  <2> DEFINE v == Reverse(s)
  <2>1. v = [i \in 1..L |-> s[(L - i) + 1]]
    BY DEF Reverse
  <2>2. DOMAIN v = 1..L /\ \A i \in 1..L : v[i] = s[(L - i) + 1] /\ (L - i) + 1 \in 1..L
    BY <1>1, <2>1
  <2> HIDE DEF v
  <2>3. c = [i \in 1..L |-> [node |-> v[i], rendering |-> r, phase |-> "Pre"]]
    BY <1>3, <2>2 DEF Children, v, s
  <2>4. Len(c) = L /\ \A i \in 1..L : c[i].node = s[(L - i) + 1]
    BY <1>1, <2>2, <2>3
  <2> HIDE DEF L
  <2>5. SUFFICES ASSUME NEW i \in 2..L
                 PROVE  Before(c[i - 1].node) # {} /\ Highest(Before(c[i - 1].node)) = c[i].node
    BY <2>4
  <2> DEFINE a == (L - i) + 1
  <2>6. a \in 1..L /\ a + 1 \in 1..L /\ (L - (i - 1)) + 1 = a + 1 /\ i \in 1..L /\ i - 1 \in 1..L
    BY <1>1
  <2> HIDE DEF a
  <2>7. c[i].node = s[a] /\ c[i - 1].node = s[a + 1]
    BY <2>4, <2>6 DEF a
  <2> DEFINE x == s[a]
             y == s[a + 1]
  <2>8. x \in DocNodes /\ y \in DocNodes
    BY <1>1, <2>6 DEF L
  <2>9. x < y /\ doc.parent[x] = n /\ doc.parent[y] = n
    <3>1. a < a + 1
      BY <2>6
    <3>2. QED
      BY <1>1, <2>6, <3>1
  <2>10. \A m \in DocNodes : m \in Nat /\ Parent(m) = doc.parent[m]
    BY TreeFacts
  <2>11. x \in Before(y)
    BY <2>8, <2>9, <2>10, BeforeIs
  <2> DEFINE h == Highest(Before(y))
  <2>12. h \in DocNodes /\ doc.parent[h] = n /\ h < y /\ x <= h
    BY <2>8, <2>9, <2>10, <2>11, BeforeIs
  <2>13. PICK b \in 1..L : s[b] = h
    BY <1>1, <2>12
  <2>14. h <= x
    <3>1. b <= a \/ b = a + 1 \/ a + 1 < b
      BY <2>6
    <3>2. CASE b = a + 1
      BY <2>8, <2>10, <2>12, <2>13, <3>2
    <3>3. CASE a + 1 < b
      <4>1. y < h
        BY <1>1, <2>6, <2>13, <3>3
      <4>2. QED
        BY <2>8, <2>10, <2>12, <4>1
    <3>4. CASE b <= a
      <4>1. b = a \/ b < a
        BY <2>6, <3>4
      <4>2. s[b] = x \/ s[b] < x
        BY <1>1, <2>6, <4>1
      <4>3. QED
        BY <2>8, <2>10, <2>12, <2>13, <4>2
    <3>5. QED
      BY <3>1, <3>2, <3>3, <3>4
  <2>15. h = x
    BY <2>8, <2>10, <2>12, <2>14
  <2>16. QED
    BY <2>7, <2>11, <2>15
<1>4. QED
  BY <1>2, <1>3

LEMMA FrontLined ==
  ASSUME NEW s \in Seq(Entry), Len(s) > 0, Lined(s), Quoted(s)
  PROVE  Lined(Front(s)) /\ Quoted(Front(s))
<1> DEFINE f == Front(s)
           L == Len(s)
<1>1. f \in Seq(Entry) /\ L \in Nat /\ Len(f) = L - 1 /\ \A k \in 1..(L - 1) : f[k] = s[k]
  BY FrontIs
<1> HIDE DEF f, L
<1>2. \A k \in 2..Len(f) : k \in 2..L /\ k \in 1..(L - 1) /\ k - 1 \in 1..(L - 1)
  BY <1>1
<1>3. \A k \in 1..Len(f) : k \in 1..L /\ k \in 1..(L - 1)
  BY <1>1
<1>4. Lined(f)
  BY <1>1, <1>2 DEF Lined, L
<1>5. Quoted(f)
  BY <1>1, <1>3 DEF Quoted, L
<1>6. QED
  BY <1>4, <1>5 DEF f

LEMMA JoinLined ==
  ASSUME NEW f \in Seq(Entry), NEW c \in Seq(Entry), Lined(f), Lined(c), Quoted(f), Quoted(c),
         Len(f) > 0 /\ Len(c) > 0 => Follows(f[Len(f)], c[1])
  PROVE  Lined(f \o c) /\ Quoted(f \o c)
<1> DEFINE t == f \o c
           L == Len(f)
<1>1. /\ t \in Seq(Entry) /\ Len(t) = L + Len(c) /\ L \in Nat /\ Len(c) \in Nat
      /\ \A k \in 1..L : t[k] = f[k]
      /\ \A k \in (L + 1)..Len(t) : t[k] = c[k - L] /\ k - L \in 1..Len(c)
  BY JoinedAt
<1> HIDE DEF t, L
<1>2. ASSUME NEW k \in 2..Len(t) PROVE Follows(t[k - 1], t[k])
  <2>1. CASE k <= L
    <3>1. k \in 2..L /\ k \in 1..L /\ k - 1 \in 1..L
      BY <1>1, <2>1
    <3>2. QED
      BY <1>1, <3>1 DEF Lined, L
  <2>2. CASE k = L + 1
    <3>1. k - 1 = L /\ L \in 1..L /\ k \in (L + 1)..Len(t) /\ k - L = 1 /\ L > 0 /\ Len(c) > 0
      BY <1>1, <2>2
    <3>2. QED
      BY <1>1, <3>1 DEF L
  <2>3. CASE k > L + 1
    <3>1. /\ k \in (L + 1)..Len(t) /\ k - 1 \in (L + 1)..Len(t)
          /\ (k - 1) - L = (k - L) - 1 /\ k - L \in 2..Len(c)
      BY <1>1, <2>3
    <3>2. t[k] = c[k - L] /\ t[k - 1] = c[(k - L) - 1]
      BY <1>1, <3>1
    <3>3. QED
      BY <3>1, <3>2 DEF Lined
  <2>4. QED
    BY <1>1, <2>1, <2>2, <2>3
<1>3. ASSUME NEW k \in 1..Len(t), t[k].rendering = "Plain" PROVE t[k].node # 1 /\ InText(Parent(t[k].node))
  <2>1. CASE k \in 1..L
    BY <1>1, <1>3, <2>1 DEF Quoted, L
  <2>2. CASE k \in (L + 1)..Len(t)
    BY <1>1, <1>3, <2>2 DEF Quoted
  <2>3. QED
    BY <1>1, <2>1, <2>2
<1>4. QED
  BY <1>2, <1>3 DEF Lined, Quoted, t

LEMMA ChildrenLined ==
  ASSUME Parsed, NEW n \in DocNodes, NEW r \in {"HTML", "Plain", "Skip"}, NEW c, c = Children(n, r), r = "Plain" => InText(n)
  PROVE  Lined(c) /\ Quoted(c)
<1>1. /\ c \in Seq(Entry)
      /\ \A i \in 1..Len(c) : /\ c[i].node \in DocNodes /\ Parent(c[i].node) = n /\ c[i].phase = "Pre"
                              /\ c[i].rendering = r
  BY ChildrenAre
<1>2. \A i \in 2..Len(c) : Before(c[i - 1].node) # {} /\ Highest(Before(c[i - 1].node)) = c[i].node
  BY ChildrenFollow
<1>3. Len(c) \in Nat /\ \A i \in 2..Len(c) : i - 1 \in 1..Len(c)
  BY <1>1
<1>4. Lined(c)
  BY <1>1, <1>2, <1>3 DEF Lined, Follows
<1>5. \A m \in DocNodes : Parent(m) = n => m # 1
  BY TreeFacts
<1>6. QED
  BY <1>1, <1>4, <1>5 DEF Quoted

(***************************************************************************)
(* What is done on top                                                     *)
(***************************************************************************)
\* When a node has been entered: the words of its block, or none
Opened(n, w) ==
  /\ InText(n) => Apart(w, {BlockOf(n)})
  /\ ~InText(n) /\ ~(Kind(n) = "MultilineComment" /\ Loud(n)) => Apart(w, {})

LEMMA OpenedReady ==
  ASSUME NEW n, NEW w, Opened(n, w), NEW e, e.phase = "Post", e.node = n
  PROVE  Ready(e, w)
<1>1. ASSUME Clear(e) PROVE Apart(w, {})
  <2>1. \/ Kind(n) \in Ended \/ Kind(n) = "TaskItem"
        \/ (Kind(n) = "MultilineComment" /\ ~Loud(n))
    BY <1>1 DEF Clear
  <2>2. Kind(n) \in Block \cup {"FrontMatter"}
    BY <2>1 DEF Ended, Block
  <2>3. ~InText(n)
    BY <2>2 DEF InText
  <2>4. ~(Kind(n) = "MultilineComment" /\ Loud(n))
    BY <2>1 DEF Ended
  <2>5. QED
    BY <2>3, <2>4 DEF Opened
<1>2. QED
  BY <1>1 DEF Ready, Opened

LEMMA ChildReady ==
  ASSUME Parsed, Ours, NEW n \in DocNodes, NEW w, Opened(n, w), Kind(n) # "MultilineComment",
         NEW m \in DocNodes, Parent(m) = n, NEW e, e.phase = "Pre", e.node = m
  PROVE  Ready(e, w)
<1>1. m # 1
  BY TreeFacts
<1>2. ASSUME InText(m) PROVE Apart(w, {BlockOf(m)})
  <2>1. BlockOf(m) = BlockOf(n)
    BY <1>1, <1>2, PlacesAre
  <2>2. CASE InText(n)
    BY <2>1, <2>2 DEF Opened
  <2>3. CASE ~InText(n)
    <3>1. Apart(w, {})
      BY <2>3 DEF Opened
    <3>2. QED
      BY <3>1, ApartMore
  <2>4. QED
    BY <2>2, <2>3
<1>3. ASSUME Clear(e) PROVE Apart(w, {})
  <2>1. Kind(m) \in Silent
    BY <1>3 DEF Clear
  <2>2. Kind(m) \in Block \cup {"FrontMatter"}
    BY <2>1 DEF Silent, Block
  <2>3. ~InText(m)
    BY <2>2 DEF InText
  <2>4. ~InText(n)
    BY <1>1, <2>3, PlacesAre
  <2>5. QED
    BY <2>4 DEF Opened
<1>4. QED
  BY <1>2, <1>3 DEF Ready

LEMMA NextReady ==
  ASSUME Parsed, Ours, NEW f, f.node \in DocNodes, NEW w, Done(f.node, w), NEW e, e.node \in DocNodes, Follows(e, f),
         f.rendering = "Plain" => f.node # 1 /\ InText(Parent(f.node))
  PROVE  Ready(e, w)
<1> DEFINE n == f.node
<1>1. CASE e.phase = "Post" /\ e.node = Parent(n)
  <2>1. n # 1
    BY <1>1, TreeFacts
  <2>2. QED
    BY <1>1, <2>1, ParentReady
<1>2. CASE e.phase = "Pre" /\ Before(e.node) # {} /\ Highest(Before(e.node)) = n
  BY <1>2, SiblingReady
<1>3. CASE f.rendering = "Plain" /\ InText(e.node) /\ BlockOf(e.node) = BlockOf(n)
  <2>1. InText(n)
    BY <1>3, PlacesAre
  <2>2. Apart(w, {BlockOf(e.node)})
    BY <1>3, <2>1 DEF Done
  <2>3. ~Clear(e)
    <3>1. Kind(e.node) \notin Block \cup {"FrontMatter"}
      BY <1>3 DEF InText
    <3>2. QED
      BY <3>1 DEF Clear, Silent, Ended, Block
  <2>4. QED
    BY <2>2, <2>3 DEF Ready
<1>4. QED
  BY <1>1, <1>2, <1>3 DEF Follows

Mute == {"Document", "DescriptionItem", "FrontMatter"}

\* Blocks that are no blocks of text never stand where a paragraph is tight
LEMMA QuietNotLoud ==
  ASSUME Parsed, Ours, NEW n \in DocNodes, Kind(n) \in Mute
  PROVE  ~Tight(n)
<1>1. CASE n = 1
  <2>1. Kind(Parent(n)) = "none" /\ Kind(Parent(Parent(n))) = "none"
    BY <1>1, TreeFacts DEF Kind, Parent
  <2>2. QED
    BY <2>1 DEF Tight
<1>2. CASE n # 1
  <2>1. Kind(Parent(n)) \in {"Document", "DescriptionList"}
    BY <1>2, PlacesAre DEF Mute
  <2>2. QED
    BY <1>2, <2>1, NeverTight
<1>3. QED
  BY <1>1, <1>2

\* What is written there is no word
LEMMA QuietMarks ==
  ASSUME NEW n, Kind(n) \in Mute
  PROVE  formatter(n, TRUE) \in Seq(Marks) /\ formatter(n, FALSE) \in Seq(Marks)
<1>1. CASE Kind(n) = doc.custom.kind
  <2>1. formatter(n, TRUE) = Tags("custom", TRUE) /\ formatter(n, FALSE) = Tags("custom", FALSE)
    BY <1>1 DEF formatter
  <2>2. Tags("custom", TRUE) \in Seq(Marks) /\ Tags("custom", FALSE) \in Seq(Marks)
    BY TagsWall, TagNames
  <2>3. QED
    BY <2>1, <2>2
<1>2. CASE Kind(n) # doc.custom.kind
  <2>1. formatter(n, TRUE) = Rendered(n, TRUE) /\ formatter(n, FALSE) = Rendered(n, FALSE)
    BY <1>2 DEF formatter
  <2>2. Rendered(n, TRUE) = <<>> /\ Rendered(n, FALSE) = <<>>
    BY DEF Rendered, MarkTag, SpanTag, Mute
  <2>3. QED
    BY <2>1, <2>2, NothingMarks
<1>3. QED
  BY <1>1, <1>2

LEMMA ApartAny ==
  ASSUME NEW w, NEW B, Apart(w, B)
  PROVE  \E C : Apart(w, C)
OBVIOUS

LEMMA EnterOpened ==
  ASSUME Parsed, Ours, Spaced, NEW n \in DocNodes, NEW e, e.phase = "Pre", e.node = n, NEW B, Apart(out, B), Ready(e, out),
         NEW w, w = Written(formatter(n, TRUE))
  PROVE  Opened(n, w) /\ \E C : Apart(w, C)
<1>1. Kind(n) \in NodeKinds /\ InRow(n) /\ Kind(n) # "Raw"
  BY InRowIs DEF Ours
<1>2. CASE InText(n)
  <2>1. Apart(out, {BlockOf(n)})
    BY <1>2 DEF Ready
  <2>2. formatter(n, TRUE) \in Seq(Says(n))
    BY <1>1, <1>2, InlineSays
  <2>3. Apart(w, {BlockOf(n)})
    BY <2>1, <2>2, OwnApart
  <2>4. QED
    BY <1>2, <2>3 DEF Opened
<1>3. CASE Kind(n) \in Block \ Silent
  <2>1. Kind(n) # doc.custom.kind
    BY <1>3 DEF Ours
  <2>2. Kind(n) \in {"HtmlBlock", "HeexBlock"} => ~Has("compact_html")
    BY DEF Spaced
  <2>3. Walled(formatter(n, TRUE), n)
    BY <1>1, <1>3, <2>1, <2>2, EnterWalled
  <2>4. Apart(w, {})
    BY <2>3, WalledApart
  <2>5. ~InText(n)
    BY <1>3 DEF InText
  <2>6. QED
    BY <2>4, <2>5 DEF Opened
<1>4. CASE Kind(n) \in Mute
  <2>1. ~Loud(n)
    BY <1>4, QuietNotLoud DEF Loud
  <2>2. Apart(out, {})
    BY <1>4, <2>1 DEF Ready, Clear, Silent, Mute
  <2>3. formatter(n, TRUE) \in Seq(Marks)
    BY <1>4, QuietMarks
  <2>4. Apart(w, {})
    BY <2>2, <2>3, StillApart
  <2>5. ~InText(n)
    BY <1>4 DEF InText, Block, Mute
  <2>6. QED
    BY <2>4, <2>5 DEF Opened
<1>5. CASE Kind(n) = "Paragraph"
  <2>1. formatter(n, TRUE) = render_paragraph(n, TRUE)
    <3>1. formatter(n, TRUE) = Rendered(n, TRUE)
      BY <1>5 DEF formatter, Ours, Block
    <3>2. Rendered(n, TRUE) = render_paragraph(n, TRUE)
      BY <1>5 DEF Rendered, MarkTag, SpanTag
    <3>3. QED
      BY <3>1, <3>2
  <2>2. Apart(w, {})
    <3>1. CASE ~Tight(n)
      <4>1. formatter(n, TRUE) = <<Cr, Open("p")>>
        BY <2>1, <3>1 DEF render_paragraph
      <4>2. Wall(<<Cr, Open("p")>>)
        BY TagNames, TagWalls
      <4>3. QED
        BY <4>1, <4>2, WallIsWalled, WalledApart
    <3>2. CASE Tight(n) /\ AfterParagraph(n)
      <4>1. formatter(n, TRUE) = <<Newline>>
        BY <2>1, <3>2 DEF render_paragraph, If
      <4>2. Wall(<<Newline>>)
        BY MarksAre, BarsAre, OneMark
      <4>3. QED
        BY <4>1, <4>2, WallIsWalled, WalledApart
    <3>3. CASE Tight(n) /\ ~AfterParagraph(n)
      <4>1. formatter(n, TRUE) = <<>>
        BY <2>1, <3>3 DEF render_paragraph, If
      <4>2. Apart(out, {})
        BY <1>5, <3>3 DEF Ready, Clear, Silent, Loud
      <4>3. QED
        BY <4>1, <4>2, NothingMarks, StillApart
    <3>4. QED
      BY <3>1, <3>2, <3>3
  <2>3. ~InText(n)
    BY <1>5 DEF InText, Block
  <2>4. QED
    BY <2>2, <2>3 DEF Opened
<1>6. CASE Kind(n) = "MultilineComment"
  <2>1. formatter(n, TRUE) = <<>>
    <3>1. formatter(n, TRUE) = Rendered(n, TRUE)
      BY <1>6 DEF formatter, Ours, Block
    <3>2. Rendered(n, TRUE) = <<>>
      BY <1>6 DEF Rendered, MarkTag, SpanTag
    <3>3. QED
      BY <3>1, <3>2
  <2>2. Apart(w, B)
    BY <2>1, NothingMarks, StillApart
  <2>3. ASSUME ~Loud(n) PROVE Apart(w, {})
    <3>1. Apart(out, {})
      BY <1>6, <2>3 DEF Ready, Clear, Silent
    <3>2. QED
      BY <2>1, <3>1, NothingMarks, StillApart
  <2>4. ~InText(n)
    BY <1>6 DEF InText, Block
  <2>5. Opened(n, w)
    BY <1>6, <2>3, <2>4 DEF Opened
  <2>6. QED
    BY <2>2, <2>5, ApartAny
<1>7. InText(n) \/ Kind(n) \in Block \/ Kind(n) = "FrontMatter"
  BY DEF InText
<1>8. QED
  BY <1>2, <1>3, <1>4, <1>5, <1>6, <1>7 DEF Silent, Mute

LEMMA LeaveDone ==
  ASSUME Parsed, Ours, NEW n \in DocNodes, NEW e, e.phase = "Post", e.node = n, NEW B, Apart(out, B), Ready(e, out),
         NEW w, w = Written(formatter(n, FALSE))
  PROVE  Done(n, w) /\ \E C : Apart(w, C)
<1>1. Kind(n) \in NodeKinds /\ InRow(n) /\ Kind(n) # "Raw"
  BY InRowIs DEF Ours
<1>2. CASE InText(n)
  <2>1. Apart(out, {BlockOf(n)})
    BY <1>2 DEF Ready
  <2>2. formatter(n, FALSE) \in Seq(Says(n))
    BY <1>1, <1>2, InlineSays
  <2>3. Apart(w, {BlockOf(n)})
    BY <2>1, <2>2, OwnApart
  <2>4. QED
    BY <1>2, <2>3 DEF Done
<1>3. Kind(n) \in Block => ~InText(n) /\ Kind(n) # doc.custom.kind
  BY DEF InText, Ours
<1>4. CASE /\ Kind(n) \in Block \ (Silent \cup Ended)
           /\ Kind(n) = "TaskItem" => Kind(Parent(n)) = "List"
  <2>1. Wall(formatter(n, FALSE))
    BY <1>1, <1>3, <1>4, LeaveWall
  <2>2. Apart(w, {})
    BY <2>1, WallIsWalled, WalledApart
  <2>3. QED
    BY <1>3, <1>4, <2>2 DEF Done
<1>5. CASE Kind(n) = "TaskItem" /\ Kind(Parent(n)) # "List"
  <2>1. Kind(n) \in Block
    BY <1>5 DEF Block
  <2>2. formatter(n, FALSE) = <<>>
    <3>1. formatter(n, FALSE) = Rendered(n, FALSE)
      BY <1>3, <2>1 DEF formatter
    <3>2. Rendered(n, FALSE) = render_task_item(n, FALSE)
      BY <1>5 DEF Rendered, MarkTag, SpanTag
    <3>3. render_task_item(n, FALSE) = <<>>
      BY <1>5 DEF render_task_item, If
    <3>4. QED
      BY <3>1, <3>2, <3>3
  <2>3. Apart(out, {})
    BY <1>5 DEF Ready, Clear
  <2>4. Apart(w, {})
    BY <2>2, <2>3, NothingMarks, StillApart
  <2>5. QED
    BY <1>3, <2>1, <2>4 DEF Done
<1>6. CASE Kind(n) \in Ended
  <2>1. formatter(n, FALSE) \in Seq(Marks)
    <3>1. CASE Kind(n) \in Mute
      BY <3>1, QuietMarks
    <3>2. CASE Kind(n) \in {"CodeBlock", "HtmlBlock", "HeexBlock", "ThematicBreak"}
      <4>1. Kind(n) \in Block
        BY <3>2 DEF Block
      <4>2. formatter(n, FALSE) = Rendered(n, FALSE)
        BY <1>3, <4>1 DEF formatter
      <4>3. Rendered(n, FALSE) \in {render_code_block(n, FALSE), render_html_block(n, FALSE), render_heex_block(FALSE),
                                    render_thematic_break(FALSE)}
        BY <3>2 DEF Rendered, MarkTag, SpanTag
      <4>4. /\ render_code_block(n, FALSE) = <<>> /\ render_html_block(n, FALSE) = <<>> /\ render_heex_block(FALSE) = <<>>
            /\ render_thematic_break(FALSE) = <<>>
        BY DEF render_code_block, render_html_block, render_heex_block, render_thematic_break, Leaf
      <4>5. QED
        BY <4>2, <4>3, <4>4, NothingMarks
    <3>3. QED
      BY <1>6, <3>1, <3>2 DEF Ended, Mute
  <2>2. Apart(out, {})
    BY <1>6 DEF Ready, Clear
  <2>3. Apart(w, {})
    BY <2>1, <2>2, StillApart
  <2>4. ~InText(n)
    <3>1. Kind(n) \in Block \cup {"FrontMatter"}
      BY <1>6 DEF Ended, Block
    <3>2. QED
      BY <3>1 DEF InText
  <2>5. QED
    BY <2>3, <2>4 DEF Done
<1>7. CASE Kind(n) = "Paragraph"
  <2>1. Kind(n) \in Block
    BY <1>7 DEF Block
  <2>2. formatter(n, FALSE) = render_paragraph(n, FALSE)
    <3>1. formatter(n, FALSE) = Rendered(n, FALSE)
      BY <1>3, <2>1 DEF formatter
    <3>2. Rendered(n, FALSE) = render_paragraph(n, FALSE)
      BY <1>7 DEF Rendered, MarkTag, SpanTag
    <3>3. QED
      BY <3>1, <3>2
  <2>3. CASE Tight(n)
    <3>1. formatter(n, FALSE) = <<>>
      BY <2>2, <2>3 DEF render_paragraph, If
    <3>2. Apart(w, B)
      BY <3>1, NothingMarks, StillApart
    <3>3. QED
      BY <1>3, <1>7, <2>1, <2>3, <3>2 DEF Done
  <2>4. CASE ~Tight(n)
    <3>1. formatter(n, FALSE) = If(EndsDefinition(n), put_footnote_backref) \o <<Close("p"), Lf>>
      BY <2>2, <2>4 DEF render_paragraph
    <3> DEFINE a == If(EndsDefinition(n), put_footnote_backref)
               b == <<Close("p"), Lf>>
    <3>2. a \in Seq(Marks)
      BY BackrefMarks, Bricks
    <3>3. Wall(b) /\ b \in Seq(Marks)
      BY TagNames, TagWalls, Bricks
    <3> HIDE DEF a, b
    <3>4. Wall(a \o b)
      BY <3>2, <3>3, Bricks
    <3>5. Apart(w, {})
      BY <3>1, <3>4, WallIsWalled, WalledApart DEF a, b
    <3>6. QED
      BY <1>3, <2>1, <3>5 DEF Done
  <2>5. QED
    BY <2>3, <2>4
<1>8. CASE Kind(n) = "MultilineComment"
  <2>1. Kind(n) \in Block
    BY <1>8 DEF Block
  <2>2. formatter(n, FALSE) = <<>>
    <3>1. formatter(n, FALSE) = Rendered(n, FALSE)
      BY <1>3, <2>1 DEF formatter
    <3>2. Rendered(n, FALSE) = <<>>
      BY <1>8 DEF Rendered, MarkTag, SpanTag
    <3>3. QED
      BY <3>1, <3>2
  <2>3. Apart(w, B)
    BY <2>2, NothingMarks, StillApart
  <2>4. ASSUME ~Loud(n) PROVE Apart(w, {})
    <3>1. Apart(out, {})
      BY <1>8, <2>4 DEF Ready, Clear
    <3>2. QED
      BY <2>2, <3>1, NothingMarks, StillApart
  <2>5. QED
    BY <1>3, <1>8, <2>1, <2>3, <2>4 DEF Done, Loud
<1>9. InText(n) \/ Kind(n) \in Block \/ Kind(n) = "FrontMatter"
  BY DEF InText
<1>10. QED
  BY <1>2, <1>4, <1>5, <1>6, <1>7, <1>8, <1>9 DEF Silent, Ended

LEMMA PlainSays ==
  ASSUME NEW n
  PROVE  PlainText(n) \in Seq(Says(n))
<1>1. <<>> \in Seq(Says(n))
  BY NothingMarks
<1>2. Word(n) \in Says(n) /\ Void("space") \in Says(n)
  BY MarksAre DEF Names
<1>3. \A x \in Says(n) : <<x>> \in Seq(Says(n))
  OBVIOUS
<1>4. <<Word(n)>> \in Seq(Says(n)) /\ <<Void("space")>> \in Seq(Says(n))
  BY <1>2, <1>3
<1>5. QED
  BY <1>1, <1>4 DEF PlainText

(***************************************************************************)
(* Each step                                                               *)
(***************************************************************************)
Heard(s, w) == Lined(s) /\ Quoted(s) /\ (Spaced => Spoken(s, w))

\* The entry below, once the one on top is done
LEMMA NextSpoken ==
  ASSUME Parsed, Ours, NEW s, Typed(s), Len(s) > 0, Lined(s), Quoted(s), NEW w, Done(s[Len(s)].node, w)
  PROVE  Front(s) # <<>> => Ready(Front(s)[Len(Front(s))], w)
<1> DEFINE L == Len(s)
           f == Front(s)
<1>1. /\ s \in Seq(Entry) /\ f \in Seq(Entry) /\ L \in Nat /\ Len(f) = L - 1
      /\ \A k \in 1..(L - 1) : f[k] = s[k]
  BY FrontIs DEF Typed
<1> HIDE DEF f
<1>2. ASSUME f # <<>> PROVE Ready(f[Len(f)], w)
  <2>1. L - 1 \in 1..(L - 1) /\ L - 1 \in 1..L /\ L \in 1..L /\ L \in 2..L
    <3>1. Len(f) > 0
      BY <1>1, <1>2
    <3>2. QED
      BY <1>1, <3>1
  <2>2. Follows(s[L - 1], s[L])
    BY <2>1 DEF Lined
  <2>3. s[L - 1].node \in DocNodes /\ s[L].node \in DocNodes
    BY <2>1 DEF Typed
  <2>4. s[L].rendering = "Plain" => s[L].node # 1 /\ InText(Parent(s[L].node))
    BY <2>1 DEF Quoted
  <2>5. f[Len(f)] = s[L - 1]
    BY <1>1, <2>1
  <2> HIDE DEF L
  <2>6. Ready(s[L - 1], w)
    BY <2>2, <2>3, <2>4, NextReady DEF L
  <2>7. QED
    BY <2>5, <2>6
<1>3. QED
  BY <1>2 DEF f

LEMMA LeaveSpeaks ==
  ASSUME Parsed, Ours, Typed(stack), Heard(stack, out), Leave
  PROVE  \E t, w : stack' = t /\ out' = w /\ Heard(t, w)
<1> DEFINE s == stack
           L == Len(s)
           n == s[L].node
           u == Front(s)
           w == Written(formatter(n, FALSE))
<1>1. s # <<>> /\ s \in Seq(Entry) /\ L \in Nat /\ L > 0 /\ StackTop = s[L] /\ StackRest = u
  BY DEF Leave, Typed, StackTop, StackRest, Last
<1>2. s[L].phase = "Post" /\ stack' = u /\ out' = w
  BY <1>1 DEF Leave
<1>3. n \in DocNodes
  BY <1>1 DEF Typed
<1>4. Lined(u) /\ Quoted(u)
  BY <1>1, FrontLined DEF Heard
<1>5. ASSUME Spaced PROVE Spoken(u, w)
  <2>1. PICK B : Apart(out, B)
    BY <1>5 DEF Heard, Spoken
  <2>2. Ready(s[L], out)
    BY <1>1, <1>5 DEF Heard, Spoken
  <2> DEFINE x == s[L]
  <2>3. x.phase = "Post" /\ x.node = n /\ Ready(x, out)
    BY <1>2, <2>2
  <2> HIDE DEF w, x, n
  <2>4. Done(n, w) /\ \E C : Apart(w, C)
    BY <1>3, <2>1, <2>3, LeaveDone DEF w
  <2>5. u # <<>> => Ready(u[Len(u)], w)
    BY <1>1, <2>4, NextSpoken DEF Heard, n
  <2>6. QED
    BY <2>4, <2>5 DEF Spoken
<1>6. Heard(u, w)
  BY <1>4, <1>5 DEF Heard
<1>7. QED
  BY <1>2, <1>6

\* In an attribute
LEMMA PlainFollows ==
  ASSUME Parsed, Ours, NEW e, e.node \in DocNodes, NEW f, f.node \in DocNodes, f.rendering = "Plain", f.node # 1,
         InText(Parent(f.node)), Follows(e, f),
         NEW x, x.node \in DocNodes, x.rendering = "Plain", Parent(x.node) = f.node
  PROVE  Follows(e, x)
<1>1. InText(f.node) /\ BlockOf(f.node) = BlockOf(Parent(f.node))
  BY PlacesAre
<1>2. x.node # 1
  BY TreeFacts
<1>3. InText(x.node) /\ BlockOf(x.node) = BlockOf(f.node)
  BY <1>1, <1>2, PlacesAre
<1>4. CASE e.node = Parent(f.node)
  BY <1>1, <1>3, <1>4 DEF Follows
<1>5. CASE Before(e.node) # {} /\ Highest(Before(e.node)) = f.node
  <2>1. Parent(e.node) = Parent(f.node) /\ e.node # 1
    BY <1>5, NextSibling
  <2>2. InText(e.node)
    BY <2>1, PlacesAre
  <2>3. BlockOf(e.node) = BlockOf(Parent(e.node))
    BY <2>2, PlacesAre
  <2>4. QED
    BY <1>1, <1>3, <2>1, <2>2, <2>3 DEF Follows
<1>6. CASE InText(e.node) /\ BlockOf(e.node) = BlockOf(f.node)
  BY <1>3, <1>6 DEF Follows
<1>7. QED
  BY <1>4, <1>5, <1>6 DEF Follows

LEMMA PlainReady ==
  ASSUME Parsed, Ours, NEW n \in DocNodes, NEW w, InText(n), Apart(w, {BlockOf(n)}),
         NEW x, x.node \in DocNodes, x.phase = "Pre", Parent(x.node) = n
  PROVE  Ready(x, w)
<1>1. x.node # 1
  BY TreeFacts
<1>2. InText(x.node) /\ BlockOf(x.node) = BlockOf(n)
  BY <1>1, PlacesAre
<1>3. ~Clear(x)
  <2>1. Kind(x.node) \notin Block \cup {"FrontMatter"}
    BY <1>2 DEF InText
  <2>2. QED
    BY <2>1 DEF Clear, Silent, Block
<1>4. QED
  BY <1>2, <1>3 DEF Ready

LEMMA PlainSpeaks ==
  ASSUME Parsed, Ours, Typed(stack), Heard(stack, out), Plain
  PROVE  \E t, w : stack' = t /\ out' = w /\ Heard(t, w)
<1> DEFINE s == stack
           L == Len(s)
           n == s[L].node
           u == Front(s)
           c == Children(n, "Plain")
           t == u \o c
           w == Written(PlainText(n))
<1>1. s # <<>> /\ s \in Seq(Entry) /\ L \in Nat /\ L > 0 /\ StackTop = s[L] /\ StackRest = u
  BY DEF Plain, Typed, StackTop, StackRest, Last
<1>2. s[L].phase = "Pre" /\ s[L].rendering = "Plain" /\ stack' = t /\ out' = w
  BY <1>1 DEF Plain
<1>3. n \in DocNodes /\ L \in 1..L
  BY <1>1 DEF Typed
<1>4. Lined(u) /\ Quoted(u)
  BY <1>1, FrontLined DEF Heard
<1>5. n # 1 /\ InText(Parent(n))
  BY <1>2, <1>3 DEF Heard, Quoted
<1>6. InText(n)
  BY <1>3, <1>5, PlacesAre
<1>7. /\ u \in Seq(Entry) /\ Len(u) = L - 1 /\ \A k \in 1..(L - 1) : u[k] = s[k]
  BY <1>1, FrontIs
<1>8. /\ c \in Seq(Entry)
      /\ \A i \in 1..Len(c) : /\ c[i].node \in DocNodes /\ Parent(c[i].node) = n /\ c[i].phase = "Pre"
                              /\ c[i].rendering = "Plain"
      /\ Lined(c) /\ Quoted(c)
  <2>1. c = Children(n, "Plain")
    OBVIOUS
  <2> HIDE DEF c
  <2>2. QED
    BY <1>3, <1>6, <2>1, ChildrenAre, ChildrenLined
<1> HIDE DEF u, c
<1>9. ASSUME Len(u) > 0, Len(c) > 0 PROVE Follows(u[Len(u)], c[1])
  <2>1. /\ L - 1 \in 1..(L - 1) /\ L - 1 \in 1..L /\ L \in 2..L /\ 1 \in 1..Len(c)
    BY <1>1, <1>7, <1>8, <1>9
  <2>2. Follows(s[L - 1], s[L]) /\ s[L - 1].node \in DocNodes
    BY <2>1 DEF Heard, Lined, Typed
  <2>3. u[Len(u)] = s[L - 1]
    BY <1>7, <2>1
  <2> DEFINE e == s[L - 1]
             f == s[L]
             x == c[1]
  <2>4. /\ e.node \in DocNodes /\ f.node = n /\ f.rendering = "Plain" /\ Follows(e, f)
        /\ x.node \in DocNodes /\ Parent(x.node) = n /\ x.rendering = "Plain"
    BY <1>2, <1>8, <2>1, <2>2
  <2> HIDE DEF e, f, x, n
  <2>5. Follows(e, x)
    BY <1>3, <1>5, <2>4, PlainFollows
  <2>6. QED
    BY <2>3, <2>5 DEF e, x
<1>10. Lined(t) /\ Quoted(t)
  BY <1>4, <1>7, <1>8, <1>9, JoinLined
<1>11. ASSUME Spaced PROVE Spoken(t, w)
  <2>1. Ready(s[L], out)
    BY <1>1, <1>11 DEF Heard, Spoken
  <2>2. Apart(out, {BlockOf(n)})
    BY <1>6, <2>1 DEF Ready
  <2> HIDE DEF w
  <2>3. Apart(w, {BlockOf(n)})
    <3>1. PlainText(n) \in Seq(Says(n))
      BY PlainSays
    <3> HIDE DEF n
    <3>2. QED
      BY <2>2, <3>1, OwnApart DEF w
  <2>4. ASSUME t # <<>> PROVE Ready(t[Len(t)], w)
    <3>1. CASE Len(c) > 0
      <4>1. t[Len(t)] = c[Len(c)] /\ Len(c) \in 1..Len(c)
        <5>1. /\ Len(t) = Len(u) + Len(c) /\ Len(u) \in Nat /\ Len(c) \in Nat
              /\ \A k \in (Len(u) + 1)..Len(t) : t[k] = c[k - Len(u)] /\ k - Len(u) \in 1..Len(c)
          <6>1. u \in Seq(Entry) /\ c \in Seq(Entry)
            BY <1>7, <1>8
          <6>2. Len(u) \in Nat /\ Len(c) \in Nat
            BY <6>1
          <6>3. QED
            BY <6>1, <6>2, JoinedAt
        <5> HIDE DEF t
        <5>2. Len(t) \in (Len(u) + 1)..Len(t) /\ Len(t) - Len(u) = Len(c)
          BY <3>1, <5>1
        <5>3. t[Len(t)] = c[Len(t) - Len(u)]
          BY <5>1, <5>2
        <5>4. QED
          BY <3>1, <5>1, <5>2, <5>3
      <4> DEFINE x == c[Len(c)]
      <4>2. x.node \in DocNodes /\ x.phase = "Pre" /\ Parent(x.node) = n
        BY <1>8, <4>1
      <4> HIDE DEF x, t, n
      <4>3. Ready(x, w)
        BY <1>3, <1>6, <2>3, <4>2, PlainReady
      <4>4. QED
        BY <4>1, <4>3 DEF x
    <3>2. CASE ~(Len(c) > 0)
      <4>1. c = <<>>
        BY <1>8, <3>2
      <4>2. t = u
        BY <1>7, <4>1
      <4> HIDE DEF t
      <4>3. Done(n, w)
        BY <1>6, <2>3 DEF Done
      <4>4. Front(s) # <<>> => Ready(Front(s)[Len(Front(s))], w)
        BY <1>1, <4>3, NextSpoken DEF Heard
      <4>5. QED
        BY <2>4, <4>2, <4>4 DEF u
    <3>3. QED
      BY <3>1, <3>2
  <2>5. QED
    BY <2>3, <2>4 DEF Spoken
<1> HIDE DEF t, w
<1>12. Heard(t, w)
  BY <1>10, <1>11 DEF Heard
<1>13. QED
  BY <1>2, <1>12

LEMMA EnterSpeaks ==
  ASSUME Parsed, Ours, Typed(stack), Heard(stack, out), Enter
  PROVE  \E t, w : stack' = t /\ out' = w /\ Heard(t, w)
<1> DEFINE s == stack
           L == Len(s)
           n == s[L].node
           u == Front(s)
           e == [s[L] EXCEPT !.phase = "Post"]
           r == formatter_children(n)
           c == Children(n, r)
           v == u \o <<e>>
           t == v \o c
           w == Written(formatter(n, TRUE))
<1>1. s # <<>> /\ s \in Seq(Entry) /\ L \in Nat /\ L > 0 /\ StackTop = s[L] /\ StackRest = u
  BY DEF Enter, Typed, StackTop, StackRest, Last
<1>2. s[L].phase = "Pre" /\ s[L].rendering = "HTML" /\ stack' = t /\ out' = w
  BY <1>1 DEF Enter
<1>3. n \in DocNodes /\ L \in 1..L /\ s[L] \in Entry
  BY <1>1 DEF Typed
<1>4. Lined(u) /\ Quoted(u)
  BY <1>1, FrontLined DEF Heard
<1>5. /\ u \in Seq(Entry) /\ Len(u) = L - 1 /\ \A k \in 1..(L - 1) : u[k] = s[k]
  BY <1>1, FrontIs
<1>6. e \in Entry /\ e.node = n /\ e.rendering = "HTML" /\ e.phase = "Post"
  BY <1>2, <1>3 DEF Entry
<1>7. r \in {"HTML", "Plain", "Skip"}
  BY DEF formatter_children, ChildRendering, Parsed
<1>8. (r = "Plain" => InText(n) \/ Kind(n) = "FrontMatter") /\ (r # "Skip" => Kind(n) # "MultilineComment")
  <2>1. Kind(n) \in Block => Kind(n) # doc.custom.kind
    BY DEF Ours
  <2>2. Kind(n) # doc.custom.kind => r = ChildRendering(n)
    BY DEF formatter_children
  <2>3. /\ ChildRendering(n) = "Plain" => Kind(n) = "Image"
        /\ Kind(n) = "MultilineComment" => ChildRendering(n) = "Skip"
    BY DEF ChildRendering
  <2>4. "Image" \notin Block /\ "MultilineComment" \in Block
    BY DEF Block
  <2> HIDE DEF r
  <2>5. QED
    BY <2>1, <2>2, <2>3, <2>4 DEF InText
<1> HIDE DEF r
<1>9. /\ c \in Seq(Entry)
      /\ \A i \in 1..Len(c) : /\ c[i].node \in DocNodes /\ Parent(c[i].node) = n /\ c[i].phase = "Pre"
                              /\ c[i].rendering = r /\ r # "Skip"
  <2>1. c = Children(n, r)
    OBVIOUS
  <2> HIDE DEF c
  <2>2. QED
    BY <1>7, <2>1, ChildrenAre
<1>10. Lined(c) /\ Quoted(c)
  <2>1. c = Children(n, r)
    OBVIOUS
  <2> HIDE DEF c
  <2>2. CASE Kind(n) = "FrontMatter"
    <3>1. ASSUME Len(c) > 0 PROVE FALSE
      <4> DEFINE m == c[1].node
      <4>1. 1 \in 1..Len(c)
        BY <1>9, <3>1
      <4>2. m \in DocNodes /\ Parent(m) = n
        BY <1>9, <4>1
      <4> HIDE DEF m
      <4>3. m # 1
        BY <1>3, <4>2, TreeFacts
      <4>4. ~InText(n)
        BY <2>2 DEF InText
      <4>5. \/ Kind(n) \in {"Paragraph", "Heading", "Subtext", "TableCell"}
            \/ Kind(n) \in Holders \cup {"List", "DescriptionList", "DescriptionItem", "Table", "HeaderRow",
                                         "TableRow", "TableCell"}
        BY <4>2, <4>3, <4>4, PlacesAre
      <4>6. QED
        BY <2>2, <4>5 DEF Holders
    <3>2. Len(c) = 0
      BY <1>9, <3>1
    <3>3. QED
      BY <3>2 DEF Lined, Quoted
  <2>3. CASE Kind(n) # "FrontMatter"
    BY <1>3, <1>7, <1>8, <2>1, <2>3, ChildrenLined
  <2>4. QED
    BY <2>2, <2>3
<1> HIDE DEF e, u, c
<1>11. /\ <<e>> \in Seq(Entry) /\ Len(<<e>>) = 1 /\ <<e>>[1] = e
  BY <1>6
<1>12. Lined(<<e>>) /\ Quoted(<<e>>)
  <2> DEFINE z == <<e>>
  <2>1. Len(z) = 1 /\ z[1] = e
    BY <1>11
  <2> HIDE DEF z
  <2>2. Lined(z) /\ Quoted(z)
    BY <1>6, <2>1 DEF Lined, Quoted
  <2>3. QED
    BY <2>2 DEF z
<1>13. ASSUME Len(u) > 0 PROVE Follows(u[Len(u)], <<e>>[1])
  <2>1. L - 1 \in 1..(L - 1) /\ L \in 2..L
    BY <1>1, <1>5, <1>13
  <2>2. Follows(s[L - 1], s[L])
    BY <2>1 DEF Heard, Lined
  <2>3. u[Len(u)] = s[L - 1]
    BY <1>5, <2>1
  <2>4. Follows(s[L - 1], e)
    BY <1>2, <1>6, <2>2 DEF Follows
  <2>5. QED
    BY <1>11, <2>3, <2>4
<1>14. Lined(v) /\ Quoted(v)
  BY <1>4, <1>5, <1>11, <1>12, <1>13, JoinLined
<1>15. v \in Seq(Entry) /\ Len(v) = L /\ v[Len(v)] = e
  BY <1>1, <1>5, <1>6
<1> HIDE DEF v
<1>16. ASSUME Len(c) > 0 PROVE Follows(v[Len(v)], c[1])
  <2>1. 1 \in 1..Len(c)
    BY <1>9, <1>16
  <2>2. Parent(c[1].node) = n
    BY <1>9, <2>1
  <2>3. QED
    BY <1>6, <1>15, <2>2 DEF Follows
<1>17. Lined(t) /\ Quoted(t)
  BY <1>9, <1>10, <1>14, <1>15, <1>16, JoinLined
<1>18. ASSUME Spaced PROVE Spoken(t, w)
  <2>1. PICK B : Apart(out, B)
    BY <1>18 DEF Heard, Spoken
  <2> DEFINE x == s[L]
  <2>2. Ready(x, out) /\ x.phase = "Pre" /\ x.node = n
    BY <1>1, <1>2, <1>18 DEF Heard, Spoken
  <2> HIDE DEF w, x
  <2>3. Opened(n, w) /\ \E C : Apart(w, C)
    <3>1. w = Written(formatter(n, TRUE))
      BY DEF w
    <3> HIDE DEF n
    <3>2. QED
      BY <1>3, <1>18, <2>1, <2>2, <3>1, EnterOpened
  <2>4. Ready(t[Len(t)], w)
    <3>1. /\ Len(t) = Len(v) + Len(c) /\ Len(v) \in Nat /\ Len(c) \in Nat
          /\ \A k \in 1..Len(v) : t[k] = v[k]
          /\ \A k \in (Len(v) + 1)..Len(t) : t[k] = c[k - Len(v)] /\ k - Len(v) \in 1..Len(c)
      <4>1. c \in Seq(Entry) /\ v \in Seq(Entry)
        BY <1>9, <1>15
      <4>2. Len(v) \in Nat /\ Len(c) \in Nat
        BY <4>1
      <4>3. QED
        BY <4>1, <4>2, JoinedAt
    <3> HIDE DEF t
    <3>2. CASE Len(c) > 0
      <4>1. t[Len(t)] = c[Len(c)] /\ Len(c) \in 1..Len(c)
        <5>1. Len(t) \in (Len(v) + 1)..Len(t) /\ Len(t) - Len(v) = Len(c)
          BY <3>1, <3>2
        <5>2. t[Len(t)] = c[Len(t) - Len(v)]
          BY <3>1, <5>1
        <5>3. QED
          BY <3>1, <3>2, <5>1, <5>2
      <4> DEFINE y == c[Len(c)]
      <4>2. y.node \in DocNodes /\ y.phase = "Pre" /\ Parent(y.node) = n /\ Kind(n) # "MultilineComment"
        BY <1>8, <1>9, <4>1
      <4> HIDE DEF y, n
      <4>3. Ready(y, w)
        BY <1>3, <2>3, <4>2, ChildReady
      <4>4. QED
        BY <4>1, <4>3 DEF y
    <3>3. CASE ~(Len(c) > 0)
      <4>1. Len(t) = Len(v) /\ Len(t) \in 1..Len(v)
        BY <1>1, <1>15, <3>1, <3>3
      <4>2. t[Len(t)] = e
        BY <1>15, <3>1, <4>1
      <4>3. Ready(e, w)
        BY <1>6, <2>3, OpenedReady
      <4>4. QED
        BY <4>2, <4>3
    <3>4. QED
      BY <3>2, <3>3
  <2>5. QED
    BY <2>3, <2>4 DEF Spoken
<1> HIDE DEF t, w
<1>19. Heard(t, w)
  BY <1>17, <1>18 DEF Heard
<1>20. stack' = t
  <2>1. StackTop.node = n /\ [StackTop EXCEPT !.phase = "Post"] = e
    BY <1>1 DEF e
  <2>2. stack' = StackRest \o <<[StackTop EXCEPT !.phase = "Post"]>> \o Children(StackTop.node, formatter_children(StackTop.node))
    BY DEF Enter
  <2>3. QED
    BY <1>1, <2>1, <2>2 DEF t, v, c, r, u, e
<1>21. QED
  BY <1>2, <1>19, <1>20

(***************************************************************************)
(* The document is not changed while it is rendered                        *)
(***************************************************************************)
LEMMA HeardSame ==
  ASSUME doc' = doc, NEW s, NEW w, Heard(s, w)
  PROVE  Heard(s, w)'
<1>1. DocNodes' = DocNodes /\ \A n : Kind(n)' = Kind(n) /\ Parent(n)' = Parent(n) /\ Before(n)' = Before(n)
  BY DEF DocNodes, Kind, Parent, Before
<1>2. \A n : BlockOf(n)' = BlockOf(n)
  BY DEF BlockOf, DocNodes, Kind, Parent
<1>3. \A n : InText(n)' = InText(n) /\ Loud(n)' = Loud(n)
  BY DEF InText, Loud, AfterParagraph, Tight, Before, DocNodes, Kind, Parent, Has
<1>4. \A B, v : Apart(v, B)' = Apart(v, B)
  BY <1>2 DEF Apart, IsSeq, Parted, Since, IsWord, Separates, Newline, Void
<1>5. \A e : Clear(e)' = Clear(e)
  BY <1>1, <1>3 DEF Clear
<1>6. \A e, f : Follows(e, f)' = Follows(e, f)
  BY <1>1, <1>2, <1>3 DEF Follows
<1>7. Lined(s)' = Lined(s) /\ Quoted(s)' = Quoted(s)
  BY <1>1, <1>3, <1>6 DEF Lined, Quoted
<1>8. Spaced' = Spaced
  BY <1>1 DEF Spaced, Has
<1>9. \A e : Ready(e, w)' = Ready(e, w)
  BY <1>2, <1>3, <1>4, <1>5 DEF Ready
<1>10. Spoken(s, w)' = Spoken(s, w)
  BY <1>4, <1>9 DEF Spoken
<1>11. QED
  BY <1>7, <1>8, <1>10 DEF Heard

LEMMA OursSame ==
  ASSUME doc' = doc
  PROVE  Ours' <=> Ours
BY DEF Ours, DocNodes, Kind, Parent

LEMMA FinishSpeaks ==
  ASSUME Heard(stack, out), Finish
  PROVE  \E w : stack' = stack /\ out' = w /\ Heard(stack, w)
<1> DEFINE a == <<Close("ol"), Lf, Close("section"), Lf>>
           b == If(footnote_ix > 0, a)
           w == Written(b)
<1>1. stack = <<>> /\ stack' = stack /\ out' = w
  BY DEF Finish
<1>2. a \in Seq(Marks)
  <2>1. Close("ol") \in Marks /\ Lf \in Marks /\ Close("section") \in Marks
    BY MarksAre, TagNames
  <2>2. QED
    BY <2>1
<1> HIDE DEF a
<1>3. b \in Seq(Marks)
  BY <1>2, Bricks
<1> HIDE DEF b
<1>4. ASSUME Spaced PROVE Spoken(stack, w)
  <2>1. PICK B : Apart(out, B)
    BY <1>4 DEF Heard, Spoken
  <2>2. Apart(w, B)
    BY <1>3, <2>1, StillApart
  <2>3. QED
    BY <1>1, <2>2 DEF Spoken
<1> HIDE DEF w
<1>5. QED
  BY <1>1, <1>4 DEF Heard

(***************************************************************************)
(* The invariant                                                           *)
(***************************************************************************)
RenderWords == RenderInv /\ (Ours => Heard(stack, out))

LEMMA RenderWordsInit ==
  ASSUME RenderInit
  PROVE  RenderWords
<1>1. RenderInv
  BY RenderInvInit
<1> DEFINE x == [node |-> 1, rendering |-> "HTML", phase |-> "Pre"]
<1>2. stack = <<x>> /\ out = <<>> /\ x.node = 1 /\ x.rendering = "HTML"
  BY DEF RenderInit, Format
<1> HIDE DEF x
<1>3. Len(stack) = 1 /\ stack[1] = x
  BY <1>2
<1>4. Lined(stack) /\ Quoted(stack)
  BY <1>2, <1>3 DEF Lined, Quoted
<1>5. Apart(out, {})
  <2>1. out \in Seq({}) /\ Len(out) = 0
    BY <1>2
  <2>2. QED
    BY <2>1 DEF Apart, IsSeq, Parted, Since
<1>6. Ready(stack[Len(stack)], out)
  BY <1>5, ApartMore DEF Ready
<1>7. QED
  BY <1>1, <1>4, <1>5, <1>6 DEF RenderWords, Heard, Spoken

LEMMA RenderWordsNext ==
  ASSUME RenderWords, [RenderNext]_renderVars
  PROVE  RenderWords'
<1>1. RenderInv' /\ Parsed /\ Typed(stack)
  BY RenderInvNext DEF RenderWords, RenderInv, Walk, Stacked
<1>2. doc' = doc
  BY DEF RenderNext, Plain, Enter, Leave, Finish, RenderDone, renderVars
<1>3. ASSUME Ours PROVE Heard(stack, out)'
  <2>1. Heard(stack, out)
    BY <1>3 DEF RenderWords
  <2>2. \E t, w : stack' = t /\ out' = w /\ Heard(t, w)
    <3>1. CASE Plain
      BY <1>1, <1>3, <2>1, <3>1, PlainSpeaks
    <3>2. CASE Enter
      BY <1>1, <1>3, <2>1, <3>2, EnterSpeaks
    <3>3. CASE Leave
      BY <1>1, <1>3, <2>1, <3>3, LeaveSpeaks
    <3>4. CASE Finish
      BY <2>1, <3>4, FinishSpeaks
    <3>5. CASE RenderDone
      BY <2>1, <3>5 DEF RenderDone, renderVars
    <3>6. CASE UNCHANGED renderVars
      BY <2>1, <3>6 DEF renderVars
    <3>7. QED
      BY <3>1, <3>2, <3>3, <3>4, <3>5, <3>6 DEF RenderNext
  <2>3. PICK t, w : stack' = t /\ out' = w /\ Heard(t, w)
    BY <2>2
  <2>4. Heard(t, w)'
    BY <1>2, <2>3, HeardSame
  <2>5. QED
    BY <2>3, <2>4 DEF Heard
<1>4. Ours' <=> Ours
  BY <1>2, OursSame
<1>5. QED
  BY <1>1, <1>3, <1>4 DEF RenderWords

LEMMA RenderWordsApart ==
  ASSUME RenderWords, Ours
  PROVE  WordsApart
<1> SUFFICES ASSUME ~(Has("compact_html") /\ \E n \in DocNodes : Kind(n) \in {"HtmlBlock", "HeexBlock"}),
                    NEW i \in DOMAIN out, NEW j \in DOMAIN out,
                    i < j, out[i][1] = "word", out[j][1] = "word", BlockOf(out[i][2]) # BlockOf(out[j][2])
             PROVE  \E k \in i..j : Separates(out[k])
  BY DEF WordsApart
<1>1. Spaced
  BY DEF Spaced
<1>2. PICK B : Apart(out, B)
  BY <1>1 DEF RenderWords, Heard, Spoken
<1>3. DOMAIN out = 1..Len(out)
  BY <1>2 DEF Apart, IsSeq
<1>4. QED
  BY <1>2, <1>3 DEF Apart, Parted, IsWord

\* The words of two blocks never run together, in any document that can have been read and where the
\* tags of its blocks are the renderer's own: whatever stands between two tight paragraphs (comments,
\* raw HTML, nested lists, definitions), a tag of a block or a newline is written there.
THEOREM WordsStayApart == RenderSpec => [](Ours => WordsApart)
<1>1. RenderInit => RenderWords
  BY RenderWordsInit
<1>2. RenderWords /\ [RenderNext]_renderVars => RenderWords'
  BY RenderWordsNext
<1>3. RenderWords => (Ours => WordsApart)
  BY RenderWordsApart
<1>4. QED
  BY <1>1, <1>2, <1>3, PTL DEF RenderSpec
=============================================================================
