------------------------------- MODULE Inlines --------------------------------
(***************************************************************************)
(* The two stacks of src/src/parser/inlines.rs: delimiter runs, paired by  *)
(* process_emphasis, and open brackets, closed by handle_close_bracket,    *)
(* which has the emphasis between the brackets processed.                  *)
(*                                                                         *)
(* The text of a block is a sequence of tokens, chosen one at a time: a    *)
(* run of delimiters with the flanking scan_delims found, "[", "![", "[^"  *)
(* and "]" with or without a link destination after it.  What the tokens   *)
(* become is the set of spans: an emphasis, a pair of quotes, a link, an   *)
(* image or a footnote reference from one token to another.                *)
(***************************************************************************)
EXTENDS Naturals, Sequences, FiniteSets

CONSTANTS
  Runs,       \* the delimiter runs a text may hold
  Brackets,   \* the bracket tokens it may hold
  MaxTokens   \* the longest text

Emphs == {"*", "_", "~"}
Quotes == {"'"}
Delims == Emphs \cup Quotes

Run == [type : {"run"}, ch : Delims, len : Nat \ {0}, opens : BOOLEAN, closes : BOOLEAN]
Bracket == [type : {"[", "![", "[^", "]", "](url)"}]

ASSUME RunsAreRuns == Runs \subseteq Run
ASSUME BracketsAreBrackets == Brackets \subseteq Bracket
ASSUME MaxTokensIsNat == MaxTokens \in Nat

NoRun == 0

VARIABLES
  tokens,    \* the text read so far
  left,      \* how many characters of each run are still text
  stack,     \* the delimiter list, runs in the order of their places
  brackets,  \* the bracket stack: [at, image, after]
  noLink,    \* no_link_openers
  spans,     \* the nodes made
  emph,      \* process_emphasis while it runs: [on, bottom, closer, bottoms]
  ended      \* the text has been read

vars == <<tokens, left, stack, brackets, noLink, spans, emph, ended>>

Classes == Delims \X BOOLEAN \X (0..2)

Off == [on |-> FALSE, bottom |-> 0, closer |-> NoRun, bottoms |-> [x \in Classes |-> 0]]

Init ==
  /\ tokens = <<>>
  /\ left = <<>>
  /\ stack = {}
  /\ brackets = <<>>
  /\ noLink = TRUE
  /\ spans = {}
  /\ emph = Off
  /\ ended = FALSE

\* The neighbours of c in the delimiter list
UpFrom(S, c) ==
  LET above == {d \in S : d > c} IN
  IF above = {} THEN NoRun ELSE CHOOSE d \in above : \A e \in above : d <= e

(***************************************************************************)
(* process_emphasis                                                        *)
(***************************************************************************)
\* The rule of three, for a closer of class x
OddMatch(o, x) ==
  LET a == tokens[o].len % 3 IN
  /\ x[2] \/ tokens[o].closes
  /\ (a + x[3]) % 3 = 0
  /\ ~(a = 0 /\ x[3] = 0)

\* The kind of closer, which openers_bottom is indexed by
ClassOf(c) == <<tokens[c].ch, tokens[c].opens, tokens[c].len % 3>>

Matches(o, x) == tokens[o].opens /\ tokens[o].ch = x[1] /\ ~OddMatch(o, x)

\* The nearest of these openers below c, NoRun if there is none
Nearest(openers) ==
  IF openers = {} THEN NoRun ELSE CHOOSE o \in openers : \A p \in openers : p <= o

\* The search down the stack, which ends at openers_bottom
Candidates(c) ==
  {o \in stack : o < c /\ o >= emph.bottoms[ClassOf(c)] /\ Matches(o, ClassOf(c))}

StartEmphasis(bottom, S) ==
  emph' = [on |-> TRUE, bottom |-> bottom,
           closer |-> LET above == {d \in S : d >= bottom} IN
                      IF above = {} THEN NoRun ELSE CHOOSE d \in above : \A e \in above : d <= e,
           bottoms |-> [x \in Classes |-> bottom]]

Closing == emph.on /\ emph.closer # NoRun

\* Broken: an opener that closes nothing is never passed
SkipOpenerStays ==
  /\ Closing
  /\ ~tokens[emph.closer].closes
  /\ UNCHANGED vars

SkipOpener ==
  /\ Closing
  /\ ~tokens[emph.closer].closes
  /\ emph' = [emph EXCEPT !.closer = UpFrom(stack, @)]
  /\ UNCHANGED <<tokens, left, stack, brackets, noLink, spans, ended>>

\* How many characters of both runs a pair takes: two make strong emphasis
Uses(o, c) == IF left[o] >= 2 /\ left[c] >= 2 THEN 2 ELSE 1

\* insert_emph refuses runs of tildes of different lengths
Refused(o, c) ==
  tokens[c].ch = "~" /\ (left[o] # left[c] \/ left[o] > Uses(o, c))

\* Broken: an opener that is used up stays on the list
PairKeepsOpener ==
  /\ Closing
  /\ tokens[emph.closer].closes
  /\ tokens[emph.closer].ch \in Emphs
  /\ LET c == emph.closer
         o == Nearest(Candidates(c))
         n == Uses(o, c)
         rest == {d \in stack : ~(o < d /\ d < c) /\ ~(d = c /\ left[c] = n)}
     IN /\ o # NoRun
        /\ ~Refused(o, c)
        /\ left' = [left EXCEPT ![o] = @ - n, ![c] = @ - n]
        /\ stack' = rest
        /\ spans' = spans \cup {[kind |-> IF n = 1 THEN "emph" ELSE "strong", from |-> o, to |-> c]}
        /\ emph' = [emph EXCEPT !.closer = IF left[c] = n THEN UpFrom(rest, c) ELSE c]
  /\ UNCHANGED <<tokens, brackets, noLink, ended>>

\* Broken: a closer with characters left is not matched again
PairThenNext ==
  /\ Closing
  /\ tokens[emph.closer].closes
  /\ tokens[emph.closer].ch \in Emphs
  /\ LET c == emph.closer
         o == Nearest(Candidates(c))
         n == Uses(o, c)
         rest == {d \in stack : ~(o < d /\ d < c) /\ ~(d = o /\ left[o] = n) /\ ~(d = c /\ left[c] = n)}
     IN /\ o # NoRun
        /\ ~Refused(o, c)
        /\ left' = [left EXCEPT ![o] = @ - n, ![c] = @ - n]
        /\ stack' = rest
        /\ spans' = spans \cup {[kind |-> IF n = 1 THEN "emph" ELSE "strong", from |-> o, to |-> c]}
        /\ emph' = [emph EXCEPT !.closer = UpFrom(rest, c)]
  /\ UNCHANGED <<tokens, brackets, noLink, ended>>

\* insert_emph: what is between the two leaves the list, and they do when they are used up
Pair ==
  /\ Closing
  /\ tokens[emph.closer].closes
  /\ tokens[emph.closer].ch \in Emphs
  /\ LET c == emph.closer
         o == Nearest(Candidates(c))
         n == Uses(o, c)
         rest == {d \in stack : ~(o < d /\ d < c) /\ ~(d = o /\ left[o] = n) /\ ~(d = c /\ left[c] = n)}
     IN /\ o # NoRun
        /\ ~Refused(o, c)
        /\ left' = [left EXCEPT ![o] = @ - n, ![c] = @ - n]
        /\ stack' = rest
        /\ spans' = spans \cup {[kind |-> IF n = 1 THEN "emph" ELSE "strong", from |-> o, to |-> c]}
        /\ emph' = [emph EXCEPT !.closer = IF left[c] = n THEN UpFrom(rest, c) ELSE c]
  /\ UNCHANGED <<tokens, brackets, noLink, ended>>

\* When insert_emph makes nothing its result ends the loop
Refuse ==
  /\ Closing
  /\ tokens[emph.closer].closes
  /\ LET o == Nearest(Candidates(emph.closer)) IN o # NoRun /\ Refused(o, emph.closer)
  /\ emph' = [emph EXCEPT !.closer = NoRun]
  /\ UNCHANGED <<tokens, left, stack, brackets, noLink, spans, ended>>

PairQuotes ==
  /\ Closing
  /\ tokens[emph.closer].closes
  /\ tokens[emph.closer].ch \in Quotes
  /\ LET c == emph.closer
         o == Nearest(Candidates(c))
     IN /\ o # NoRun
        /\ left' = [left EXCEPT ![o] = 0, ![c] = 0]
        /\ stack' = stack \ {o, c}
        /\ spans' = spans \cup {[kind |-> "quotes", from |-> o, to |-> c]}
        /\ emph' = [emph EXCEPT !.closer = UpFrom(stack, c)]
  /\ UNCHANGED <<tokens, brackets, noLink, ended>>

\* Broken: one bottom for every run of the character, whatever its length and flanks
NoOpenerOfTheChar ==
  /\ Closing
  /\ tokens[emph.closer].closes
  /\ Candidates(emph.closer) = {}
  /\ emph' = [emph EXCEPT !.closer = UpFrom(stack, @),
                !.bottoms = [x \in Classes |-> IF x[1] = tokens[emph.closer].ch
                                               THEN emph.closer ELSE @[x]]]
  /\ stack' = IF tokens[emph.closer].opens THEN stack ELSE stack \ {emph.closer}
  /\ UNCHANGED <<tokens, left, brackets, noLink, spans, ended>>

\* No opener: the search need not come here again, and a run that cannot open is text
NoOpener ==
  /\ Closing
  /\ tokens[emph.closer].closes
  /\ Candidates(emph.closer) = {}
  /\ emph' = [emph EXCEPT !.bottoms[ClassOf(emph.closer)] = emph.closer,
                !.closer = UpFrom(stack, @)]
  /\ stack' = IF tokens[emph.closer].opens THEN stack ELSE stack \ {emph.closer}
  /\ UNCHANGED <<tokens, left, brackets, noLink, spans, ended>>

\* remove_delimiters
EndEmphasis ==
  /\ emph.on
  /\ emph.closer = NoRun
  /\ stack' = {d \in stack : d < emph.bottom}
  /\ emph' = Off
  /\ UNCHANGED <<tokens, left, brackets, noLink, spans, ended>>

Emphasis == SkipOpener \/ Pair \/ Refuse \/ PairQuotes \/ NoOpener \/ EndEmphasis

(***************************************************************************)
(* parse_inline                                                            *)
(***************************************************************************)
Reading == ~emph.on /\ ~ended /\ Len(tokens) < MaxTokens

Read(x) ==
  /\ tokens' = Append(tokens, x)
  /\ left' = Append(left, IF x.type = "run" THEN x.len ELSE 0)

Here == Len(tokens) + 1

\* handle_delim, push_delimiter: only a run that may open or close, and no more than two tildes
PushRun(x) ==
  /\ Reading
  /\ Read(x)
  /\ stack' = IF (x.opens \/ x.closes) /\ (x.ch = "~" => x.len <= 2)
              THEN stack \cup {Here} ELSE stack
  /\ UNCHANGED <<brackets, noLink, spans, emph, ended>>

\* push_bracket
PushBracket(x) ==
  /\ Reading
  /\ x.type \in {"[", "![", "[^"}
  /\ Read(x)
  /\ brackets' = Append([i \in DOMAIN brackets |->
                           [brackets[i] EXCEPT !.after = @ \/ i = Len(brackets)]],
                        [at |-> Here, image |-> x.type = "![", after |-> FALSE])
  /\ noLink' = (noLink /\ x.type = "![")
  /\ UNCHANGED <<stack, spans, emph, ended>>

Top == brackets[Len(brackets)]
Popped == SubSeq(brackets, 1, Len(brackets) - 1)
Disabled == ~Top.image /\ noLink

\* Broken: the emphasis before the bracket is paired too
CloseMatchAll(x) ==
  /\ Reading
  /\ x.type = "](url)"
  /\ brackets # <<>>
  /\ ~Disabled
  /\ Read(x)
  /\ spans' = spans \cup {[kind |-> IF Top.image THEN "image" ELSE "link",
                           from |-> Top.at, to |-> Here]}
  /\ brackets' = Popped
  /\ noLink' = (noLink \/ ~Top.image)
  /\ StartEmphasis(0, stack)
  /\ UNCHANGED <<stack, ended>>

\* close_bracket_match, with its call of process_emphasis
CloseMatch(x) ==
  /\ Reading
  /\ x.type = "](url)"
  /\ brackets # <<>>
  /\ ~Disabled
  /\ Read(x)
  /\ spans' = spans \cup {[kind |-> IF Top.image THEN "image" ELSE "link",
                           from |-> Top.at, to |-> Here]}
  /\ brackets' = Popped
  /\ noLink' = (noLink \/ ~Top.image)
  /\ StartEmphasis(Top.at, stack)
  /\ UNCHANGED <<stack, ended>>

\* The bracket is "[^" and a name, and no bracket follows it
IsFootnote ==
  /\ tokens[Top.at].type = "[^"
  /\ ~Top.after

\* A footnote's name needs no emphasis: its delimiters go
CloseFootnote(x) ==
  /\ Reading
  /\ x.type = "]"
  /\ brackets # <<>>
  /\ ~Disabled
  /\ IsFootnote
  /\ Read(x)
  /\ spans' = spans \cup {[kind |-> "footnote", from |-> Top.at, to |-> Here]}
  /\ stack' = {d \in stack : d < Top.at}
  /\ brackets' = Popped
  /\ UNCHANGED <<noLink, emph, ended>>

\* The bracket that closes is text
CloseText(x) ==
  /\ Reading
  /\ x.type \in {"]", "](url)"}
  /\ \/ brackets = <<>>
     \/ brackets # <<>> /\ Disabled
     \/ brackets # <<>> /\ ~Disabled /\ x.type = "]" /\ ~IsFootnote
  /\ Read(x)
  /\ brackets' = IF brackets = <<>> THEN brackets ELSE Popped
  /\ UNCHANGED <<stack, noLink, spans, emph, ended>>

\* parse_inlines after the last token: the emphasis left over, then clear_brackets
EndOfText ==
  /\ ~emph.on /\ ~ended
  /\ ended' = TRUE
  /\ StartEmphasis(0, stack)
  /\ brackets' = <<>>
  /\ UNCHANGED <<tokens, left, stack, noLink, spans>>

Done == ended /\ ~emph.on /\ UNCHANGED vars

Next ==
  \/ \E x \in Runs : PushRun(x)
  \/ \E x \in Brackets : PushBracket(x) \/ CloseMatch(x) \/ CloseFootnote(x) \/ CloseText(x)
  \/ Emphasis \/ EndOfText \/ Done

Spec == Init /\ [][Next]_vars /\ WF_vars(Emphasis)

(***************************************************************************)
(* Properties                                                              *)
(***************************************************************************)
Places == DOMAIN tokens

\* The two stacks, the nodes and the search name places of the text
TypeOK ==
  /\ tokens \in Seq(Run \cup Bracket)
  /\ left \in [Places -> Nat]
  /\ stack \subseteq Places
  /\ brackets \in Seq([at : Places, image : BOOLEAN, after : BOOLEAN])
  /\ noLink \in BOOLEAN /\ ended \in BOOLEAN
  /\ spans \subseteq [kind : {"emph", "strong", "quotes", "link", "image", "footnote"},
                      from : Places, to : Places]
  /\ emph \in [on : BOOLEAN, bottom : Nat, closer : Places \cup {NoRun}, bottoms : [Classes -> Nat]]

\* Each run on the delimiter list has text left, and so has the closer: the subtractions of
\* insert_emph on the lengths of its two runs cannot go below zero
ListedRunsHaveText ==
  /\ \A d \in stack : tokens[d].type = "run" /\ left[d] > 0
  /\ emph.closer # NoRun => emph.closer \in stack

\* openers_bottom is only an optimisation: for every closer the shortened search finds the opener
\* that a search down to the bottom of the stack finds
SearchIsExact ==
  Closing /\ tokens[emph.closer].closes =>
    LET x == ClassOf(emph.closer) IN
    Nearest(Candidates(emph.closer)) =
      Nearest({o \in stack : emph.bottom <= o /\ o < emph.closer /\ Matches(o, x)})

Inside(i, s) == s.from < i /\ i < s.to

\* The nodes form a tree: no two of them overlap without one holding the other, whether an
\* emphasis was paired before, inside or around the brackets.  Quotes are glyphs and no nodes, and
\* may overlap
NoOverlap ==
  \A s, t \in {n \in spans : n.kind # "quotes"} :
    ~(Inside(t.from, s) /\ ~Inside(t.to, s) /\ t.to > s.to)

\* A link lies in another only where no_link_openers was taken back: after it a bracket was opened
\* which is no image's, and has made no link since
LinksReopened ==
  \A s, t \in {n \in spans : n.kind = "link"} : Inside(t.to, s) =>
    \E i \in (t.to + 1)..(s.to - 1) :
      /\ tokens[i].type \in {"[", "[^"}
      /\ ~\E l \in spans : l.kind = "link" /\ i < l.to /\ l.to < s.to

\* What the brackets and the runs become is a tree, and links in links are few
NodesNest == NoOverlap /\ LinksReopened

\* "The entire delimiter stack has been scanned for matches, everything left is just text": no two
\* runs left as text could still be paired without overlapping a node, and would not be refused
NothingMissed ==
  ended /\ ~emph.on =>
    \A o, c \in {i \in Places : tokens[i].type = "run" /\ left[i] > 0} :
      o < c /\ tokens[c].closes /\ Matches(o, ClassOf(c)) /\ ~Refused(o, c) =>
        \E s \in spans : \/ Inside(o, s) # Inside(c, s)
                         \/ s.kind = "footnote" /\ Inside(o, s)

\* With no tildes in the text insert_emph never refuses, and nothing is missed.  (With tildes
\* something is: a pair that is refused ends the loop.)
NothingMissedWithoutTildes ==
  (\A i \in Places : tokens[i].type = "run" => tokens[i].ch # "~") => NothingMissed

\* process_emphasis ends
EmphasisEnds == emph.on ~> ~emph.on
================================================================================
