------------------------------ MODULE MCTrees ------------------------------
\* Every tree of a few nodes of some kinds, as the parser could have left it.  A node is
\* chosen as its kind and what it says: its words, its level, its address.
EXTENDS DocTree

\* What may stand where in a parsed document (can_contain_type allows some more)
Parent1 == [HeaderRow |-> {"Table"}, TableRow |-> {"Table"},
            TableCell |-> {"HeaderRow", "TableRow"}, DescriptionItem |-> {"DescriptionList"},
            DescriptionTerm |-> {"DescriptionItem"}, DescriptionDetails |-> {"DescriptionItem"}]

Fits(t, p, k) ==
  LET first == \A m \in DOMAIN t.parent : t.parent[m] # p
  IN /\ can_contain_type(t.kind[p], k)
     /\ k \in DOMAIN Parent1 => t.kind[p] \in Parent1[k]
     /\ k = "HeaderRow" <=> t.kind[p] = "Table" /\ first
     /\ ~(t.kind[p] = "TaskItem" /\ t.kind[t.parent[p]] = "TableCell")

\* One more node, somewhere below the last
Grown(t, choices) ==
  {[kind |-> Append(t.kind, c[1]), parent |-> Append(t.parent, t.path[i]), says |-> Append(t.says, c[2]),
    path |-> Append(SubSeq(t.path, 1, i), Len(t.kind) + 1)]
     : <<i, c>> \in {d \in (DOMAIN t.path) \X choices : Fits(t, t.path[d[1]], d[2][1])}}

Trees(choices, size) ==
  LET trees[n \in 0..size] ==
        IF n = 0 THEN {[kind |-> <<"Document">>, parent |-> <<0>>, says |-> <<"">>, path |-> <<1>>]}
        ELSE LET smaller == trees[n - 1]
             IN smaller \cup UNION {Grown(t, choices) : t \in smaller}
  IN trees[size]

\* These are never empty
Complete(t) ==
  \A n \in DOMAIN t.kind :
    t.kind[n] \in {"List", "Table", "HeaderRow", "TableRow", "DescriptionList", "DescriptionItem",
                   "LemmySpoiler"}
      => \E m \in DOMAIN t.parent : t.parent[m] = n

Worded == {"Paragraph", "Heading", "Subtext", "Emph", "Strong", "Link", "WikiLink",
           "Strikethrough", "Highlight", "Insert", "Superscript", "SpoileredText",
           "Underline", "Subscript", "Escaped", "EscapedTag"}

\* What holds inlines and has none gets a text
Filled(t, holders) ==
  LET empty == {n \in DOMAIN t.kind : t.kind[n] \in holders /\ \A m \in DOMAIN t.parent : t.parent[m] # n}
      inOrder == SetToSortSeq(empty, <)
  IN [kind |-> t.kind \o [i \in DOMAIN inOrder |-> "Text"], parent |-> t.parent \o inOrder,
      says |-> t.says \o [i \in DOMAIN inOrder |-> <<"letter">>]]
============================================================================
