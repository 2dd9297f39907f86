------------------------------ MODULE BlockParser ------------------------------
(***************************************************************************)
(* The block phase of src/src/parser/mod.rs: the tree of blocks that       *)
(* process_line grows, one line at a time, and finalize_document closes.   *)
(*                                                                         *)
(* A line is a sequence of tokens.  "in" is two columns of indentation, so *)
(* two of them indent code; the markers ">", "-" (a bullet), "1" (an       *)
(* ordered marker), ":" and "[^" take the blank after them along; "r" is a *)
(* link reference definition, "t" any other text.  A blank line has only   *)
(* indentation left.  A fence is a token of its own, three or four         *)
(* characters long.                                                        *)
(*                                                                         *)
(* The loops of process_line are steps of this machine, in order:          *)
(*   "line"   between two lines                                            *)
(*   "match"  check_open_blocks_inner descends into the last open child    *)
(*   "open"   open_new_blocks tries its handlers on the container          *)
(*   "add"    add_child climbs to a parent that can hold the new block     *)
(*   "text"   add_text_to_container marks blanks, looks for laziness       *)
(*   "close"  its loop finalizes up to the last matched container          *)
(*   "store"  the line's text goes to its block                            *)
(*   "eof"    finalize_document closes what is open; then "done"           *)
(***************************************************************************)
EXTENDS Integers, Sequences, SequencesExt, FiniteSets

CONSTANTS
  Lines,     \* the lines there are
  MaxLines   \* the longest input

ASSUME LinesAreLines == Lines \subseteq Seq(STRING)
ASSUME MaxLinesIsNat == MaxLines \in Nat

None == 0
Root == 1

Leaves == {"Paragraph", "Heading", "CodeBlock", "Comment"}     \* accepts_lines
Verbatim == {"CodeBlock", "HtmlBlock", "Comment"}
Fenced == {"Multiline", "Directive", "Spoiler"}
Kinds == Leaves \cup Fenced \cup
  {"Document", "BlockQuote", "List", "Item", "HtmlBlock", "ThematicBreak", "Footnote",
   "DescList", "DescItem", "DescTerm", "DescDetails"}

VARIABLES
  nodes,     \* the blocks, in the order they were allocated
  refs,      \* the line whose definition the reference map holds, or None
  panicked,  \* an assert! has failed
  current,   \* the parser's current
  scan,      \* where process_line is, and its local variables
  lineNo,    \* line_number
  vocabulary \* the lines this input is made of, which the parser never sees

vars == <<nodes, refs, panicked, current, scan, lineNo, vocabulary>>

(***************************************************************************)
(* The tree.  `off' and `pad' are the marker offset and padding of an item *)
(* or the offset and the length of a fence, `tag' tells lists and code blocks apart,      *)
(* `blank' is last_line_blank, `lines' the content held by line numbers    *)
(* and `literal' what finalize made of it.  `wrote' and `last' are history:*)
(* every content line, and the last line the block had a part in.          *)
(***************************************************************************)
NewNode(kind, tag, off, pad) ==
  [kind |-> kind, tag |-> tag, off |-> off, pad |-> pad, parent |-> None, kids |-> <<>>,
   open |-> TRUE, blank |-> FALSE, tight |-> FALSE, lines |-> <<>>, literal |-> <<>>,
   start |-> lineNo, wrote |-> <<>>, last |-> lineNo]

Ids == DOMAIN nodes

LastKid(t, n) == IF t[n].kids = <<>> THEN None ELSE Last(t[n].kids)
LastOpen(t, n) == LastKid(t, n) # None /\ t[LastKid(t, n)].open

\* n and what is above it
Above(t, n) ==
  LET up[k \in Nat] ==
        IF k = 0 THEN {n} ELSE UNION {{m, t[m].parent} \ {None} : m \in up[k - 1]}
  IN up[Len(t)]

Below(t, n) == {m \in DOMAIN t : n \in Above(t, m)}

\* n, its last child, the last child of that: as long as the parent is in pass
LastSpine(t, n, pass) ==
  LET down[k \in Nat] ==
        IF k = 0 THEN {n}
        ELSE UNION {IF m \in pass THEN {m, LastKid(t, m)} \ {None} ELSE {m} : m \in down[k - 1]}
  IN down[Len(t)]

SpineEnd(t, n, pass) ==
  LET spine == LastSpine(t, n, pass) IN CHOOSE m \in spine : LastKid(t, m) \notin spine

Detached(t, n) == [t EXCEPT ![n].parent = None, ![t[n].parent].kids = RemoveFirst(@, n)]

\* can_contain_type
CanContain(parent, child) ==
  CASE parent = "List" -> child = "Item"
    [] parent = "DescList" -> child = "DescItem"
    [] parent = "DescItem" -> child \in {"DescTerm", "DescDetails"}
    [] parent \in {"Document", "BlockQuote", "Footnote", "Item", "DescTerm", "DescDetails"} \cup Fenced
         -> child # "Item"
    [] OTHER -> FALSE

(***************************************************************************)
(* finalize: close a block and settle its content.                         *)
(***************************************************************************)
\* How many definitions a paragraph's lines <<number, token>> begin with
Definitions(lines) ==
  LET k == SelectInSeq(lines, LAMBDA l : l[2] # "r") IN IF k = 0 THEN Len(lines) ELSE k - 1

\* The last definition overwrites (a mutant)
ResolvedLast(old, lines) == IF Definitions(lines) > 0 THEN lines[1][1] ELSE old

\* resolve_reference_link_definitions: the map keeps the first it is given
Resolved(old, lines) ==
  IF old = None /\ Definitions(lines) > 0 THEN lines[1][1] ELSE old

\* Without the descent (a mutant)
EndsBlankHere(t, n) == t[n].blank

EndsBlank(t, n) ==
  \E m \in LastSpine(t, n, {p \in DOMAIN t : t[p].kind \in {"List", "Item"}}) : t[m].blank

\* determine_list_tight
Tight(t, n) ==
  \A i \in DOMAIN t[n].kids :
    LET item == t[n].kids[i]
        follows == i < Len(t[n].kids)
    IN /\ ~(t[item].blank /\ follows)
       /\ \A j \in DOMAIN t[item].kids :
            ~((follows \/ j < Len(t[item].kids)) /\ EndsBlank(t, t[item].kids[j]))

\* Content without its blank end
Trimmed(lines) ==
  SubSeq(lines, 1, SelectLastInSeq(lines, LAMBDA l : l[2] # "blank"))

\* finalize_borrowed, the parser's three fields it writes as one record
Finalized(d, n) ==
  LET b == d.nodes[n]
      t == [d.nodes EXCEPT ![n].open = FALSE]
      rest == SubSeq(b.lines, Definitions(b.lines) + 1, Len(b.lines))
      settled ==
        CASE b.kind = "Paragraph" /\ rest = <<>> ->
               Detached([t EXCEPT ![n].lines = <<>>], n)
          [] b.kind = "Paragraph" /\ rest # <<>> -> [t EXCEPT ![n].lines = rest]
          [] b.kind = "Spoiler" /\ b.kids = <<>> -> Detached(t, n)
          [] b.kind = "CodeBlock" ->
               [t EXCEPT ![n].lines = <<>>,
                  ![n].literal = IF b.tag = "fenced" THEN SubSeq(b.lines, 2, Len(b.lines)) ELSE Trimmed(b.lines)]
          [] b.kind \in {"HtmlBlock", "Comment"} ->
               [t EXCEPT ![n].lines = <<>>, ![n].literal = b.lines]
          [] b.kind = "List" -> [t EXCEPT ![n].tight = Tight(t, n)]
          [] OTHER -> t
  IN [nodes |-> settled,
      refs |-> IF b.kind = "Paragraph" THEN Resolved(d.refs, b.lines) ELSE d.refs,
      panicked |-> d.panicked \/ ~b.open]

Doc == [nodes |-> nodes, refs |-> refs, panicked |-> panicked]

DocBecomes(d) ==
  /\ nodes' = d.nodes
  /\ refs' = d.refs
  /\ panicked' = d.panicked

(***************************************************************************)
(* The line in hand.                                                       *)
(***************************************************************************)
Indent(r) == LET k == SelectInSeq(r, LAMBDA x : x # "in") IN IF k = 0 THEN Len(r) ELSE k - 1

\* find_first_nonspace: the first token that is no indentation, "blank" if there is none
Token(r) == IF Indent(r) = Len(r) THEN "blank" ELSE r[Indent(r) + 1]
Blank(r) == Token(r) = "blank"
Indented(r) == Indent(r) >= 2

Drop(r, k) == SubSeq(r, k + 1, Len(r))
After(r) == Drop(r, Indent(r) + 1)         \* past the first token
AtMarker(r, tok) == Token(r) = tok /\ ~Indented(r)
AloneOnLine(r, tok) == AtMarker(r, tok) /\ Blank(After(r))

Idle == [pc |-> "line", container |-> Root, matched |-> Root, all |-> TRUE, lazy |-> FALSE,
         whole |-> <<>>, rest |-> <<>>, new |-> <<>>]

Init ==
  /\ lineNo = 0
  /\ nodes = <<NewNode("Document", "", 0, 0)>>
  /\ refs = None
  /\ panicked = FALSE
  /\ current = Root
  /\ scan = Idle
  /\ vocabulary \in SUBSET Lines

\* process_line begins
StartLine(line) ==
  /\ scan.pc = "line"
  /\ line \in vocabulary
  /\ lineNo < MaxLines
  /\ lineNo' = lineNo + 1
  /\ scan' = [Idle EXCEPT !.pc = "match", !.whole = line, !.rest = line]
  /\ UNCHANGED <<nodes, refs, panicked, current, vocabulary>>

(***************************************************************************)
(* check_open_blocks_inner: one turn of its loop.                          *)
(***************************************************************************)
Least(a, b) == IF a < b THEN a ELSE b

\* A line goes on with a quote at any ">", at the first of a longer run too
AtQuote(r) == \E x \in {">", ">>>", ">>>>"} : AtMarker(r, x)

\* What is left past one ">"
PastQuote(r) ==
  CASE Token(r) = ">>>>" -> <<">>>">> \o After(r)
    [] Token(r) = ">>>" -> <<">", ">">> \o After(r)
    [] OTHER -> After(r)

FenceLength(x) == IF x \in {"::::", ">>>>", "~~~~"} THEN 4 ELSE 3

\* What a line holds after the prefix of block b: no member if b does not continue
Continued(b, r) ==
  CASE b.kind = "BlockQuote" -> IF AtQuote(r) THEN {PastQuote(r)} ELSE {}
    [] b.kind \in {"Item", "DescItem"} ->
         IF Indent(r) >= b.off + b.pad THEN {Drop(r, b.off + b.pad)}
         ELSE IF Blank(r) /\ b.kids # <<>> THEN {<<>>} ELSE {}
    [] b.kind = "CodeBlock" /\ b.tag = "indented" ->
         IF Indented(r) THEN {Drop(r, 2)} ELSE IF Blank(r) THEN {<<>>} ELSE {}
    [] b.kind = "Paragraph" \/ (b.kind = "HtmlBlock" /\ b.tag = "tag") ->
         IF Blank(r) THEN {} ELSE {r}
    [] b.kind = "Heading" -> {}
    [] b.kind = "Footnote" ->
         IF Indented(r) THEN {Drop(r, 2)} ELSE IF scan.whole = <<>> THEN {r} ELSE {}
    [] b.kind \in Fenced \/ (b.kind = "CodeBlock" /\ b.tag = "fenced") ->
         {Drop(r, Least(b.off, Indent(r)))}
    [] OTHER -> {r}

FencesOf(b) ==
  CASE b.kind = "CodeBlock" /\ b.tag = "fenced" -> {"~~~", "~~~~"}
    [] b.kind = "Multiline" -> {">>>", ">>>>"}
    [] b.kind \in {"Directive", "Spoiler"} -> {":::", "::::"}
    [] OTHER -> {}

\* A fence closes a block whose own is no longer
ClosesFence(b, r) == \E x \in FencesOf(b) : AloneOnLine(r, x) /\ FenceLength(x) >= b.pad

Candidate == LastKid(nodes, scan.container)

AllMatched ==
  /\ scan.pc = "match"
  /\ ~LastOpen(nodes, scan.container)
  /\ scan' = [scan EXCEPT !.pc = "open", !.all = TRUE, !.matched = scan.container,
                !.lazy = nodes[current].kind = "Paragraph"]
  /\ UNCHANGED <<nodes, refs, panicked, current, lineNo>>

\* Matches without descending (a mutant)
MatchInPlace ==
  /\ scan.pc = "match"
  /\ LastOpen(nodes, scan.container)
  /\ ~ClosesFence(nodes[Candidate], scan.rest)
  /\ \E r \in Continued(nodes[Candidate], scan.rest) : scan' = [scan EXCEPT !.rest = r]
  /\ UNCHANGED <<nodes, refs, panicked, current, lineNo>>

MatchBlock ==
  /\ scan.pc = "match"
  /\ LastOpen(nodes, scan.container)
  /\ ~ClosesFence(nodes[Candidate], scan.rest)
  /\ \E r \in Continued(nodes[Candidate], scan.rest) :
       scan' = [scan EXCEPT !.container = Candidate, !.rest = r]
  /\ nodes' = IF Blank(scan.rest) \/ nodes[Candidate].kind \in {"List", "DescList"} THEN nodes
              ELSE [nodes EXCEPT ![Candidate].last = lineNo]
  /\ UNCHANGED <<refs, panicked, current, lineNo>>

NotMatched ==
  /\ scan.pc = "match"
  /\ LastOpen(nodes, scan.container)
  /\ ~ClosesFence(nodes[Candidate], scan.rest)
  /\ Continued(nodes[Candidate], scan.rest) = {}
  /\ scan' = [scan EXCEPT !.pc = "open", !.all = FALSE, !.matched = scan.container,
                !.lazy = nodes[current].kind = "Paragraph"]
  /\ UNCHANGED <<nodes, refs, panicked, current, lineNo>>

\* The block a closing fence of c finalizes before c: the descent ends at a list
DeepestOpen(t, c) ==
  SpineEnd(t, c, {p \in DOMAIN t : LastOpen(t, p) /\ t[p].kind # "List"})

\* Leaves current where it was (a mutant)
CloseFenceForgets ==
  /\ scan.pc = "match"
  /\ LastOpen(nodes, scan.container)
  /\ ClosesFence(nodes[Candidate], scan.rest)
  /\ DocBecomes(Finalized(Doc, Candidate))
  /\ scan' = Idle
  /\ UNCHANGED <<current, lineNo>>

\* A closing fence ends the line
CloseFence ==
  /\ scan.pc = "match"
  /\ LastOpen(nodes, scan.container)
  /\ ClosesFence(nodes[Candidate], scan.rest)
  /\ LET c == Candidate
         d == [Doc EXCEPT !.nodes[c].last = lineNo]
     IN \E inner \in {IF nodes[c].kind # "CodeBlock" /\ LastOpen(nodes, c)
                       THEN Finalized(d, DeepestOpen(nodes, c)) ELSE d} :
          /\ DocBecomes(Finalized(inner, c))
          /\ current' = nodes[c].parent
  /\ scan' = Idle
  /\ UNCHANGED lineNo

(***************************************************************************)
(* open_new_blocks: one handler of one turn of its loop.                   *)
(***************************************************************************)
Opening == scan.pc = "open" /\ nodes[scan.container].kind \notin Verbatim

ContainerKind == nodes[scan.container].kind

\* add_child of these blocks, one in the other
Open(blocks, r) ==
  /\ scan' = [scan EXCEPT !.pc = "add", !.new = blocks, !.rest = r]
  /\ UNCHANGED <<nodes, refs, panicked, current, lineNo>>

\* handle_block_directive, handle_lemmy_spoiler, handle_multiline_blockquote, handle_code_fence
FenceOf == [x \in {":::", "::::", ":::s", ">>>", ">>>>", "~~~", "~~~~"} |->
  CASE x \in {":::", "::::"} -> "Directive" [] x = ":::s" -> "Spoiler"
    [] x \in {">>>", ">>>>"} -> "Multiline" [] OTHER -> "CodeBlock"]

OpensFence(r) == ~Indented(r) /\ Token(r) \in DOMAIN FenceOf /\ Blank(After(r))

OpenFence ==
  /\ Opening
  /\ OpensFence(scan.rest)
  /\ LET k == FenceOf[Token(scan.rest)]
     IN Open(<<NewNode(k, IF k = "CodeBlock" THEN "fenced" ELSE "", Indent(scan.rest),
                       FenceLength(Token(scan.rest)))>>, <<>>)

OpenBlockQuote ==
  /\ Opening
  /\ AtQuote(scan.rest)
  /\ ~OpensFence(scan.rest)
  /\ Open(<<NewNode("BlockQuote", "", 0, 0)>>, PastQuote(scan.rest))

OpenHeading ==
  /\ Opening
  /\ AtMarker(scan.rest, "#")
  /\ Open(<<NewNode("Heading", "", 0, 0)>>, After(scan.rest))

\* handle_ofm_comment: "%%" with no other on the line
OpenComment ==
  /\ Opening
  /\ AtMarker(scan.rest, "%%")
  /\ ~Contains(After(scan.rest), "%%")
  /\ Open(<<NewNode("Comment", "", 0, 0)>>, After(scan.rest))

\* handle_html_block: "<!" ends at "!>", "<d" at a blank line
OpenHtmlBlock ==
  /\ Opening
  /\ AtMarker(scan.rest, "<!") \/ AtMarker(scan.rest, "<d")
  /\ Open(<<NewNode("HtmlBlock", IF Token(scan.rest) = "<!" THEN "comment" ELSE "tag", 0, 0)>>,
          scan.rest)

OpensSetext(r) ==
  ContainerKind = "Paragraph" /\ (AloneOnLine(r, "===") \/ AloneOnLine(r, "---"))

\* handle_setext_heading: what is left of a paragraph of definitions stays a paragraph
SetextHeading ==
  /\ Opening
  /\ OpensSetext(scan.rest)
  /\ LET b == nodes[scan.container]
         rest == Drop(b.lines, Definitions(b.lines))
     IN /\ nodes' = [nodes EXCEPT ![scan.container].lines = rest,
                       ![scan.container].kind = IF rest = <<>> THEN @ ELSE "Heading",
                       ![scan.container].tag = "setext"]
        /\ refs' = Resolved(refs, b.lines)
        /\ scan' = [scan EXCEPT !.pc = "text", !.rest = IF rest = <<>> THEN @ ELSE <<>>]
  /\ UNCHANGED <<panicked, current, lineNo>>

OpensThematicBreak(r) ==
  /\ AloneOnLine(r, "***") \/ AloneOnLine(r, "---")
  /\ ~OpensSetext(r)
  /\ ~(ContainerKind = "Paragraph" /\ ~scan.all)

OpenThematicBreak ==
  /\ Opening
  /\ OpensThematicBreak(scan.rest)
  /\ Open(<<NewNode("ThematicBreak", "", 0, 0)>>, <<>>)

OpenFootnote ==
  /\ Opening
  /\ AtMarker(scan.rest, "[^")
  /\ Open(<<NewNode("Footnote", "", 0, 0)>>, After(scan.rest))

\* The end of the sequence of blocks t takes `block' as a child of `parent'
AddTo(t, parent, block) ==
  Append([t EXCEPT ![parent].kids = Append(@, Len(t) + 1)], [block EXCEPT !.parent = parent])

\* parse_desc_list_details: the block whose last child becomes the term
TermHolder ==
  IF nodes[scan.container].kids = <<>> THEN nodes[scan.container].parent ELSE scan.container

OpensDescription(r) ==
  /\ AtMarker(r, ":")
  /\ \/ ContainerKind = "Paragraph"
     \/ LastKid(nodes, scan.container) # None
        /\ nodes[LastKid(nodes, scan.container)].kind \in {"Paragraph", "DescItem"}

\* reopen_ast_nodes
Reopened(t, n) == [m \in DOMAIN t |-> [t[m] EXCEPT !.open = @ \/ m \in Above(t, n)]]

\* The paragraph before the marker moves into the term of a new item
DescribeParagraph ==
  /\ Opening
  /\ OpensDescription(scan.rest)
  /\ nodes[LastKid(nodes, TermHolder)].kind = "Paragraph"
  /\ LET para == LastKid(nodes, TermHolder)
         cut == Detached(nodes, para)
         l == LastKid(cut, TermHolder)
         listed == IF l # None /\ cut[l].kind = "DescList" THEN Reopened(cut, l)
                   ELSE AddTo(cut, TermHolder, NewNode("DescList", "", 0, 0))
         list == LastKid(listed, TermHolder)
         item == Len(listed) + 1
         full == AddTo(AddTo(AddTo(listed, list, NewNode("DescItem", "", Indent(scan.rest), 1)),
                             item, NewNode("DescTerm", "", 0, 0)),
                       item, NewNode("DescDetails", "", 0, 0))
     IN /\ nodes' = [full EXCEPT ![item + 1].kids = <<para>>, ![para].parent = item + 1]
        /\ scan' = [scan EXCEPT !.container = item + 2, !.lazy = FALSE, !.rest = After(@)]
  /\ UNCHANGED <<refs, panicked, current, lineNo>>

\* Further details make an item of their own
DescribeAgain ==
  /\ Opening
  /\ OpensDescription(scan.rest)
  /\ nodes[LastKid(nodes, TermHolder)].kind = "DescItem"
  /\ LET item == Len(nodes) + 1
     IN /\ nodes' = AddTo(AddTo(nodes, scan.container, NewNode("DescItem", "", Indent(scan.rest), 1)),
                          item, NewNode("DescDetails", "", 0, 0))
        /\ scan' = [scan EXCEPT !.container = item + 1, !.lazy = FALSE, !.rest = After(@)]
  /\ UNCHANGED <<refs, panicked, current, lineNo>>

OpensItem(r) ==
  /\ Token(r) \in {"-", "1"} /\ ~Indented(r)
  /\ ContainerKind = "Paragraph" => ~Blank(After(r))

\* handle_list: one more step of indentation after the marker belongs to the padding
OpenItem ==
  /\ Opening
  /\ OpensItem(scan.rest)
  /\ LET marker == Token(scan.rest)
         text == After(scan.rest)
         gap == IF Indent(text) = 1 /\ ~Blank(text) THEN 1 ELSE 0
         item == NewNode("Item", marker, Indent(scan.rest), 1 + gap)
         matches == ContainerKind = "List" /\ nodes[scan.container].tag = marker
     IN Open(IF matches THEN <<item>> ELSE <<NewNode("List", marker, 0, 0), item>>, Drop(text, gap))

OpensCode(r) == Indented(r) /\ ~Blank(r) /\ ~scan.lazy

OpenIndentedCode ==
  /\ Opening
  /\ OpensCode(scan.rest)
  /\ Open(<<NewNode("CodeBlock", "indented", 0, 0)>>, Drop(scan.rest, 2))

SomeHandler(r) ==
  \/ OpensFence(r) \/ AtQuote(r) \/ OpensSetext(r) \/ OpensThematicBreak(r)
  \/ OpensDescription(r) \/ OpensItem(r) \/ OpensCode(r)
  \/ \E x \in {"#", "<!", "<d", "[^"} : AtMarker(r, x)
  \/ AtMarker(r, "%%") /\ ~Contains(After(r), "%%")

NothingOpens ==
  /\ scan.pc = "open"
  /\ ContainerKind \in Verbatim \/ ~SomeHandler(scan.rest)
  /\ scan' = [scan EXCEPT !.pc = "text"]
  /\ UNCHANGED <<nodes, refs, panicked, current, lineNo>>

(***************************************************************************)
(* add_child                                                               *)
(***************************************************************************)
CloseToFit ==
  /\ scan.pc = "add"
  /\ ~CanContain(ContainerKind, Head(scan.new).kind)
  /\ DocBecomes(Finalized(Doc, scan.container))
  /\ scan' = [scan EXCEPT !.container = nodes[@].parent]
  /\ UNCHANGED <<current, lineNo>>

\* Then the rest of the line: a leaf takes its text, a container may open more
AddChild ==
  /\ scan.pc = "add"
  /\ CanContain(ContainerKind, Head(scan.new).kind)
  /\ nodes' = AddTo(nodes, scan.container, Head(scan.new))
  /\ scan' = [scan EXCEPT !.container = Len(nodes) + 1, !.new = Tail(@), !.lazy = FALSE,
                !.pc = IF Len(scan.new) > 1 THEN "add"
                       ELSE IF Head(scan.new).kind = "Paragraph" THEN "store"
                       ELSE IF Head(scan.new).kind \in Leaves THEN "text" ELSE "open"]
  /\ UNCHANGED <<refs, panicked, current, lineNo>>

(***************************************************************************)
(* add_text_to_container                                                   *)
(***************************************************************************)
\* Whether a blank line makes the container's last line blank
KeepsBlank(b) ==
  CASE b.kind \in {"BlockQuote", "Heading", "ThematicBreak", "Comment", "Multiline"} -> FALSE
    [] b.kind = "CodeBlock" -> b.tag # "fenced"
    [] b.kind = "Item" -> b.kids # <<>> \/ b.start # lineNo
    [] OTHER -> TRUE

MarkedBlank(t, c, blank) ==
  LET comment == t[c].kind = "Comment" /\ t[c].start # lineNo /\ (blank \/ t[c].blank)
  IN [m \in DOMAIN t |-> [t[m] EXCEPT !.blank =
        IF m = c THEN comment \/ (blank /\ KeepsBlank(t[c]))
        ELSE IF m \in Above(t, c) THEN FALSE
        ELSE @ \/ (blank /\ m = LastKid(t, c))]]

\* A line that continues the open paragraph though its containers do not match
IsLazy ==
  /\ current # scan.matched
  /\ scan.container = scan.matched
  /\ ~Blank(scan.rest)
  /\ nodes[current].kind = "Paragraph"

MarkBlanks ==
  /\ scan.pc = "text"
  /\ nodes' = MarkedBlank(nodes, scan.container, Blank(scan.rest))
  /\ scan' = [scan EXCEPT !.pc = IF IsLazy THEN "store" ELSE "close",
                !.container = IF IsLazy THEN current ELSE @]
  /\ UNCHANGED <<refs, panicked, current, lineNo>>

CloseUnmatched ==
  /\ scan.pc = "close"
  /\ current # scan.matched
  /\ DocBecomes([Finalized(Doc, current) EXCEPT !.panicked = @ \/ current = Root])
  /\ current' = nodes[current].parent
  /\ UNCHANGED <<scan, lineNo>>

\* Takes the text before the unmatched blocks are closed (a mutant)
AllClosedEarly ==
  /\ scan.pc = "close"
  /\ IF ContainerKind \in Leaves \cup Verbatim \/ Blank(scan.rest)
     THEN scan' = [scan EXCEPT !.pc = "store"]
     ELSE scan' = [scan EXCEPT !.pc = "add", !.new = <<NewNode("Paragraph", "", 0, 0)>>]
  /\ UNCHANGED <<nodes, refs, panicked, current, lineNo>>

AllClosed ==
  /\ scan.pc = "close"
  /\ current = scan.matched
  /\ IF ContainerKind \in Leaves \cup Verbatim \/ Blank(scan.rest)
     THEN scan' = [scan EXCEPT !.pc = "store"]
     ELSE scan' = [scan EXCEPT !.pc = "add", !.new = <<NewNode("Paragraph", "", 0, 0)>>]
  /\ UNCHANGED <<nodes, refs, panicked, current, lineNo>>

\* add_line
Written(b, r) ==
  [b EXCEPT !.lines = Append(@, <<lineNo, Token(r)>>), !.wrote = Append(@, <<lineNo, Token(r)>>),
     !.last = IF Blank(r) /\ b.tag # "fenced" THEN @ ELSE lineNo]

WithLine(d, n, r) ==
  [nodes |-> [d.nodes EXCEPT ![n] = Written(@, r)],
   refs |-> d.refs,
   panicked |-> d.panicked \/ ~d.nodes[n].open]

EndsHtml(b, r) == b.kind = "HtmlBlock" /\ b.tag = "comment" /\ Contains(r, "!>")

StoreLine ==
  /\ scan.pc = "store"
  /\ ~(ContainerKind = "Comment" /\ Contains(scan.rest, "%%"))
  /\ LET c == scan.container
         takes == ContainerKind \in Verbatim \/ ~Blank(scan.rest)
         d == IF takes THEN WithLine(Doc, c, scan.rest) ELSE Doc
         ends == EndsHtml(nodes[c], scan.rest)
     IN /\ DocBecomes(IF ends THEN Finalized(d, c) ELSE d)
        /\ current' = IF ends THEN nodes[c].parent ELSE c
  /\ scan' = Idle
  /\ UNCHANGED lineNo

\* The line after a comment's end is parsed as a line of its own
StoreCommentEnd ==
  /\ scan.pc = "store"
  /\ ContainerKind = "Comment" /\ Contains(scan.rest, "%%")
  /\ LET c == scan.container
         r == Drop(scan.rest, SelectInSeq(scan.rest, LAMBDA x : x = "%%"))
     IN /\ DocBecomes(Finalized(WithLine(Doc, c, scan.rest), c))
        /\ current' = nodes[c].parent
        /\ scan' = IF Blank(r) THEN Idle
                   ELSE [scan EXCEPT !.pc = "open", !.container = nodes[c].parent,
                           !.matched = nodes[c].parent, !.all = TRUE, !.lazy = FALSE, !.rest = r]
  /\ UNCHANGED lineNo

(***************************************************************************)
(* finalize_document                                                       *)
(***************************************************************************)
EndOfInput ==
  /\ scan.pc = "line"
  /\ scan' = [Idle EXCEPT !.pc = "eof"]
  /\ UNCHANGED <<nodes, refs, panicked, current, lineNo, vocabulary>>

CloseAtEnd ==
  /\ scan.pc = "eof"
  /\ DocBecomes(Finalized(Doc, current))
  /\ IF current = Root
     THEN scan' = [Idle EXCEPT !.pc = "done"] /\ UNCHANGED current
     ELSE current' = nodes[current].parent /\ UNCHANGED scan
  /\ UNCHANGED lineNo

Done == scan.pc = "done" /\ UNCHANGED vars

Match == AllMatched \/ MatchBlock \/ NotMatched \/ CloseFence

OpenBlocks ==
  \/ OpenFence \/ OpenBlockQuote \/ OpenHeading \/ OpenComment \/ OpenHtmlBlock \/ SetextHeading
  \/ OpenThematicBreak \/ OpenFootnote \/ DescribeParagraph \/ DescribeAgain \/ OpenItem
  \/ OpenIndentedCode \/ NothingOpens

AddBlock == CloseToFit \/ AddChild
AddText == MarkBlanks \/ CloseUnmatched \/ AllClosed \/ StoreLine \/ StoreCommentEnd

Step == (Match \/ OpenBlocks \/ AddBlock \/ AddText \/ CloseAtEnd) /\ UNCHANGED vocabulary

Next == (\E line \in Lines : StartLine(line)) \/ EndOfInput \/ Step \/ Done

Spec == Init /\ [][Next]_vars /\ WF_vars(Step)

(***************************************************************************)
(* Properties                                                              *)
(***************************************************************************)
\* Parents and children are blocks, and the scan of a line is at one of its steps
TypeOK ==
  /\ \A n \in Ids :
       /\ nodes[n].kind \in Kinds
       /\ nodes[n].parent \in Ids \cup {None}
       /\ Range(nodes[n].kids) \subseteq Ids
       /\ nodes[n].open \in BOOLEAN /\ nodes[n].blank \in BOOLEAN
  /\ refs \in 0..MaxLines
  /\ panicked \in BOOLEAN
  /\ current \in Ids
  /\ scan.pc \in {"line", "match", "open", "add", "text", "close", "store", "eof", "done"}
  /\ {scan.container, scan.matched} \subseteq Ids
  /\ lineNo \in 0..MaxLines

InTree == Below(nodes, Root)

\* The asserts of finalize_borrowed and add_line hold, and no loop climbs past the root: every
\* block finalized or given a line is still open, whatever was finalized early on the same line.
NoPanic == ~panicked

\* Between lines the last open children lead from the root to current, so that
\* check_open_blocks stops at a block the closing loop of add_text_to_container meets.
CurrentIsTip ==
  scan.pc = "line" => SpineEnd(nodes, Root, {p \in Ids : LastOpen(nodes, p)}) = current

\* validate(): "parsing markdown with Comrak should always produce a valid tree"
ValidTree ==
  \A n \in InTree \ {Root} : CanContain(nodes[nodes[n].parent].kind, nodes[n].kind)

\* The parser stays on an open path of a valid tree, and no assertion of it fails
WellFormed == TypeOK /\ NoPanic /\ CurrentIsTip /\ ValidTree

\* No line of the input closes a container by a fence, and none describes the paragraph before
\* it.  Directives, spoilers, multiline quotes and description lists are extensions that are off by
\* default; with them blocks stay open, as ClosedBelow has it.
Calm(r) == \A i \in DOMAIN r : r[i] \notin {":::", "::::", ">>>", ">>>>", ":"}
CalmInput == \A line \in vocabulary : Calm(line)

\* After finalize_document no block of a calm input is left open, so every block's content was
\* settled
AllSettled == CalmInput /\ scan.pc = "done" => \A n \in InTree : ~nodes[n].open

\* What a closing fence leaves behind is closed, the comments of both fence handlers say:
\* "the last child, like an indented codeblock, could be left open. Make sure it's finalized."
ClosedBelow ==
  scan.pc = "line" =>
    \A n \in InTree \ {Root} : nodes[n].open => nodes[nodes[n].parent].open

\* In a calm input the first definition of a label wins, whatever block it is in and however that
\* block ends
FirstDefinitionWins ==
  LET text == {n \in Ids : nodes[n].kind = "Paragraph" \/ nodes[n].tag = "setext"}
      heads == {nodes[n].wrote[1][1] : n \in {m \in text : Definitions(nodes[m].wrote) > 0}}
  IN CalmInput /\ scan.pc = "done" =>
       IF heads = {} THEN refs = None
       ELSE refs \in heads /\ \A h \in heads : refs <= h

EndLine(n) == LET ends == {nodes[m].last : m \in Below(nodes, n)}
              IN CHOOSE e \in ends : \A f \in ends : f <= e

\* A blank line between two blocks
Apart(a, b) == nodes[b].start > EndLine(a) + 1

BlankWithin(n) == \E i \in 2..Len(nodes[n].kids) : Apart(nodes[n].kids[i - 1], nodes[n].kids[i])

\* A list is loose when a blank line separates two of its items, or two children of one item, in
\* a calm input without definitions, whose lines leave the tree
TightMeansNoBlank ==
  CalmInput /\ scan.pc = "done" /\ refs = None =>
    \A n \in InTree : nodes[n].kind = "List" =>
      (nodes[n].tight <=> ~(BlankWithin(n) \/ \E i \in Range(nodes[n].kids) : BlankWithin(i)))

\* Every loop over a line comes to its end
LinesEnd == []<>(scan.pc \in {"line", "done"})
================================================================================
