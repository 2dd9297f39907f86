---------------------------- MODULE MCBlobTranslate ----------------------------
\* The pages of the runs of BlobTranslate
EXTENDS BlobTranslate

Cuts(len) == {[from |-> a, to |-> b] : a \in 0..(len - 1), b \in 1..len}
Proper(S) == {s \in S : s.from < s.to}
Keep(s) == [from |-> s.from, to |-> s.to, dropped |-> FALSE]
PageOf(t, keep, sent, most) == [text |-> t, keep |-> keep, sent |-> sent, most |-> most]

\* Every text of four characters with every kept part and every link, given back as it went or empty
SmallPages ==
  {PageOf(t, {Keep(k) : k \in K}, L, 0) :
     t \in [1..4 -> {"letter", "newline", "citation"}],
     K \in {S \in SUBSET Proper(Cuts(4)) : Cardinality(S) <= 1},
     L \in {S \in SUBSET Proper(Cuts(4)) : Cardinality(S) <= 1}}

Drop(s) == [from |-> s.from, to |-> s.to, dropped |-> TRUE]

\* A line with a link and a kept part, and a line of a link over code and its domain
Line1 == <<"letter", "letter", "other", "letter", "newline", "letter">>
TalkPages ==
  {PageOf(Line1, {Keep([from |-> 3, to |-> 4])}, {[from |-> 1, to |-> 2]}, 4),
   PageOf(<<"letter", "letter", "citation", "letter">>, {Keep([from |-> 1, to |-> 2]), Drop([from |-> 3, to |-> 4])},
          {[from |-> 0, to |-> 3]}, 4)}

\* Two links, one in the other, over each other's end, or one after the other
NestedPages ==
  {PageOf(t, {}, L, 0) : t \in [1..4 -> {"letter", "newline"}],
                         L \in {S \in SUBSET Proper(Cuts(4)) : Cardinality(S) = 2}}

\* A link, its domain wherever it may end, and code wherever a user may have written it
SuffixPages ==
  {PageOf(<<"letter", "other", "letter", "other", "letter">>,
          {Drop([from |-> 1, to |-> d]), Keep(k)}, {[from |-> 0, to |-> 1]}, 1) :
     d \in 2..4, k \in {c \in Proper(Cuts(5)) : c.to = 1 \/ c.from >= 1}}

AllPages == SmallPages \cup NestedPages \cup TalkPages \cup SuffixPages

CodePages == {PageOf(<<"letter", "newline", "newline", "letter">>, {Keep([from |-> 0, to |-> 4])}, {}, 0)}
================================================================================
