----------------------------- MODULE HtmlRender -----------------------------
(***************************************************************************)
(* The HTML renderer: an explicit stack stands for the recursion over the  *)
(* tree, each node is entered and left, and what a node writes depends on  *)
(* its neighbours in the tree and on a few counters of the context.        *)
(*                                                                         *)
(* The output is a sequence of tokens: tags, words (of a node), newlines,  *)
(* and the two ends of an attribute that is filled by child nodes.  Other  *)
(* attributes, positions and the text itself are layout and left out.      *)
(* The renderer's adapters (headings, code) are the embedder's and absent. *)
(***************************************************************************)
EXTENDS DocTree

CONSTANT Documents   \* families of trees to render, with the options and formatters they are rendered under

\* A formatter of the embedder's leaves the root to the renderer, and a table and its rows to each
\* other: the body that one row opens is closed by the table
ASSUME DocumentsAreParsed ==
  \A d \in Documents :
    /\ \A t \in d.trees : IsDocument(t)
    /\ \A c \in d.customs : /\ c.kind \notin {"Document", "Table", "TableRow"}
                            /\ c.children \in {"HTML", "Plain", "Skip"}

VARIABLES stack,                \* nodes still to enter or to leave
          out,                  \* what has been written
          footnote_ix,          \* definitions entered
          written_footnote_ix,  \* the last of them with its links back
          heading,              \* the heading whose id and text are kept (None: 0)
          finished,
          visits                \* what was done, in order (history)
renderVars == <<doc, stack, out, footnote_ix, written_footnote_ix, heading, finished, visits>>

Has(option) == option \in doc.options

-----------------------------------------------------------------------------
\* Tokens.  Cr and Lf are the context's two kinds of newline, Newline is written as it is.
Open(tag) == <<"open", tag>>
Close(tag) == <<"close", tag>>
Void(tag) == <<"void", tag>>
Word(n) == <<"word", n>>
Quote == <<"quote">>
Unquote == <<"unquote">>
Cr == <<"cr">>
Lf == <<"lf">>
Newline == <<"newline">>
Panic == <<"panic">>

\* Context::cr, Context::lf and Context::write_str
Write(text, token) ==
  IF token \in {Cr, Lf}
  THEN IF Has("compact_html") \/ (token = Cr /\ (text = <<>> \/ Last(text) = Newline))
       THEN text ELSE Append(text, Newline)
  ELSE Append(text, token)

Written(tokens) ==
  LET text[k \in 0..Len(tokens)] == IF k = 0 THEN out ELSE Write(text[k - 1], tokens[k])
  IN text[Len(tokens)]

Tags(tag, e) == IF e THEN <<Open(tag)>> ELSE <<Close(tag)>>
Framed(tag, e) == <<Cr>> \o Tags(tag, e) \o <<Lf>>
Leaf(tokens, e) == IF e THEN tokens ELSE <<>>
If(cond, tokens) == IF cond THEN tokens ELSE <<>>

-----------------------------------------------------------------------------
\* What each kind of node writes when it is entered (e) and when it is left: CommonMark
render_lemmy_spoiler(n, e) ==
  Framed("details", e)
    \o If(e /\ Has("title"), <<Open("summary"), Word(n), Close("summary"), Lf>>)

render_block_directive(e) == <<Cr>> \o Tags("div", e) \o If(~e, <<Lf>>)

render_block_quote(e) == Framed("blockquote", e)

render_code(n, e) == Leaf(<<Open("code"), Word(n), Close("code")>>, e)

\* A math block writes the same tags
render_code_block(n, e) ==
  Leaf(<<Cr, Open("pre"), Open("code"), Word(n), Close("code"), Close("pre"), Lf>>, e)

render_emph(e) == Tags("em", e)

\* The link after a heading's words needs the id and text that were kept
render_heading(n, e) ==
  IF e THEN <<Cr, Open("h")>>
  ELSE If(Has("header_id_prefix"),
          IF heading = 0 THEN <<Panic>> ELSE <<Open("a"), Close("a")>>)
       \o <<Close("h"), Lf>>

Raw(n) == IF Has("escape") THEN <<Word(n)>>
          ELSE IF Has("unsafe") THEN <<Void("raw")>> ELSE <<Void("comment")>>

render_html_block(n, e) == Leaf(<<Cr>> \o Raw(n) \o <<Cr>>, e)

render_heex_block(e) == Leaf(<<Cr, Void("raw"), Cr>>, e)

render_heex_inline(e) == Leaf(<<Void("raw")>>, e)

render_html_inline(n, e) == Leaf(Raw(n), e)

render_image(e) ==
  IF e THEN If(Has("figure_with_caption"), <<Open("figure")>>) \o <<Quote>>
  ELSE <<Unquote>>
       \o If(Has("figure_with_caption"),
             If(Has("title"), <<Open("figcaption"), Close("figcaption")>>) \o <<Close("figure")>>)

render_item(e) == IF e THEN <<Cr, Open("li")>> ELSE <<Close("li"), Lf>>

render_line_break(e) == Leaf(<<Void("br"), Lf>>, e)

\* A link right inside a link is the outer one's
render_link(n, e) ==
  If(~Has("relaxed_autolinks") \/ Kind(Parent(n)) # "Link", Tags("a", e))

render_list(e) ==
  LET tag == IF Has("ordered") THEN "ol" ELSE "ul"
  IN IF e THEN <<Cr, Open(tag), Lf>> ELSE <<Close(tag), Lf>>

\* Where a paragraph is written without its tags
Tight(n) ==
  \/ Kind(Parent(Parent(n))) \in {"List", "DescriptionItem"} /\ Has("tight")
  \/ Kind(Parent(n)) = "DescriptionTerm"

\* The paragraph that takes its definition's links back
EndsDefinition(n) ==
  Kind(n) = "Paragraph" /\ ~Tight(n) /\ Kind(Parent(n)) = "FootnoteDefinition" /\ After(n) = {}

\* put_footnote_backref
put_footnote_backref ==
  If(written_footnote_ix < footnote_ix,
     <<Open("a"), Close("a")>>
       \o If(Has("total_references 2"), <<Open("a"), Open("sup"), Close("sup"), Close("a")>>))

\* Only the sibling right before it counts (a mutant)
AfterParagraphDirectly(n) == Before(n) # {} /\ Kind(Highest(Before(n))) = "Paragraph"

\* A comment in between writes nothing
AfterParagraph(n) ==
  LET shown == {m \in Before(n) : Kind(m) # "MultilineComment"}
  IN shown # {} /\ Kind(Highest(shown)) = "Paragraph"

render_paragraph(n, e) ==
  IF Tight(n) THEN If(e /\ AfterParagraph(n), <<Newline>>)
  ELSE IF e THEN <<Cr, Open("p")>>
  ELSE If(EndsDefinition(n), put_footnote_backref) \o <<Close("p"), Lf>>

render_soft_break(e) ==
  Leaf(IF Has("hardbreaks") THEN <<Void("br"), Lf>> ELSE <<Newline>>, e)

render_strong(n, e) ==
  If(~Has("gfm_quirks") \/ Kind(Parent(n)) # "Strong", Tags("strong", e))

render_text(n, e) == Leaf(<<Word(n)>>, e)

render_thematic_break(e) == Leaf(<<Cr, Void("hr"), Lf>>, e)

-----------------------------------------------------------------------------
\* GFM
\* The first definition opens the section; finish closes it
render_footnote_definition(e) ==
  IF e THEN If(footnote_ix = 0, <<Open("section"), Lf, Open("ol"), Lf>>) \o <<Open("li")>>
  ELSE LET links == put_footnote_backref
       IN links \o If(links # <<>>, <<Lf>>) \o <<Close("li"), Lf>>

render_footnote_reference(n, e) ==
  Leaf(<<Open("sup"), Open("a"), Word(n), Close("a"), Close("sup")>>, e)

\* render_strikethrough, render_highlight, render_insert
MarkTag == [Strikethrough |-> "del", Highlight |-> "mark", Insert |-> "ins"]

\* Always closed (a mutant)
TableBodyAlways(n) == TRUE

\* The body was opened if the table has a second row
HasBody(n) == Kids(n) # <<>> /\ Last(Kids(n)) # Head(Kids(n))

render_table(n, e) ==
  IF e THEN Framed("table", TRUE)
  ELSE If(HasBody(n), <<Cr, Close("tbody"), Lf>>) \o Framed("table", FALSE)

\* A column of its own alignment for each cell is taken for granted
render_table_cell(n, e) ==
  LET row == Parent(n)
      tag == IF Kind(row) = "HeaderRow" THEN "th" ELSE "td"
  IN IF Kind(row) \notin {"HeaderRow", "TableRow"} \/ Kind(Parent(row)) # "Table" THEN <<Panic>>
     ELSE If(e, <<Cr>>) \o Tags(tag, e)

render_table_row(n, e) ==
  LET thead == Kind(n) = "HeaderRow"
      first == Before(n) # {} /\ Kind(Highest(Before(n))) = "HeaderRow"
  IN IF e
     THEN <<Cr>> \o (IF thead THEN <<Open("thead"), Lf>> ELSE If(first, <<Open("tbody"), Lf>>))
                 \o <<Open("tr")>>
     ELSE <<Cr, Close("tr")>> \o If(thead, <<Cr, Close("thead")>>)

\* In a table's cell there is no list to be an item of
render_task_item(n, e) ==
  LET write_li == Kind(Parent(n)) = "List"
  IN IF e THEN <<Cr>> \o If(write_li, <<Open("li")>>) \o <<Void("input")>>
     ELSE If(write_li, <<Close("li"), Lf>>)

-----------------------------------------------------------------------------
\* Extensions
\* The style chooses the same tag both times
render_alert(n, e) ==
  IF e THEN Framed("div", TRUE) \o <<Open("p"), Word(n), Close("p"), Lf>> ELSE Framed("div", FALSE)

render_description_details(e) == Tags("dd", e) \o If(~e, <<Lf>>)

render_description_list(e) ==
  IF e THEN <<Cr, Open("dl"), Lf>> ELSE <<Close("dl"), Lf>>

render_description_term(e) == Tags("dt", e) \o If(~e, <<Lf>>)

render_escaped(e) == If(Has("escaped_char_spans"), Tags("span", e))

\* Markers that closed nothing: written before what they hold, and after it
render_escaped_tag(n) == <<Word(n)>>

render_math(n, e) == Leaf(<<Open("span"), Word(n), Close("span")>>, e)

render_multiline_block_quote(e) == Framed("blockquote", e)

render_raw(e) == Leaf(<<Void("raw")>>, e)

render_short_code(n, e) == Leaf(<<Word(n)>>, e)

render_subtext(e) ==
  IF e THEN <<Cr, Open("p"), Open("sub")>> ELSE <<Close("sub"), Close("p"), Lf>>

\* render_spoiler_text, render_subscript; render_superscript, render_underline, render_wiki_link
SpanTag == [SpoileredText |-> "span", Subscript |-> "sub",
            Superscript |-> "sup", Underline |-> "u", WikiLink |-> "a"]

-----------------------------------------------------------------------------
\* format_node_default: what a node writes
Rendered(n, e) ==
  LET k == Kind(n) IN
  CASE k = "BlockQuote" -> render_block_quote(e)
    [] k = "Code" -> render_code(n, e)
    [] k = "CodeBlock" -> render_code_block(n, e)
    [] k = "Emph" -> render_emph(e)
    [] k = "Heading" -> render_heading(n, e)
    [] k = "HtmlBlock" -> render_html_block(n, e)
    [] k = "HeexBlock" -> render_heex_block(e)
    [] k = "HtmlInline" -> render_html_inline(n, e)
    [] k = "HeexInline" -> render_heex_inline(e)
    [] k = "Image" -> render_image(e)
    [] k = "Item" -> render_item(e)
    [] k = "LineBreak" -> render_line_break(e)
    [] k = "Link" -> render_link(n, e)
    [] k = "List" -> render_list(e)
    [] k = "Paragraph" -> render_paragraph(n, e)
    [] k = "SoftBreak" -> render_soft_break(e)
    [] k = "Strong" -> render_strong(n, e)
    [] k = "Text" -> render_text(n, e)
    [] k = "ThematicBreak" -> render_thematic_break(e)
    [] k = "FootnoteDefinition" -> render_footnote_definition(e)
    [] k = "FootnoteReference" -> render_footnote_reference(n, e)
    [] k = "Table" -> render_table(n, e)
    [] k = "TableCell" -> render_table_cell(n, e)
    [] k \in {"HeaderRow", "TableRow"} -> render_table_row(n, e)
    [] k = "TaskItem" -> render_task_item(n, e)
    [] k = "Alert" -> render_alert(n, e)
    [] k = "DescriptionDetails" -> render_description_details(e)
    [] k = "DescriptionList" -> render_description_list(e)
    [] k = "DescriptionTerm" -> render_description_term(e)
    [] k = "Escaped" -> render_escaped(e)
    [] k = "EscapedTag" -> render_escaped_tag(n)
    [] k = "Math" -> render_math(n, e)
    [] k = "MultilineBlockQuote" -> render_multiline_block_quote(e)
    [] k = "Raw" -> render_raw(e)
    [] k = "ShortCode" -> render_short_code(n, e)
    [] k = "Subtext" -> render_subtext(e)
    [] k = "BlockDirective" -> render_block_directive(e)
    [] k = "LemmySpoiler" -> render_lemmy_spoiler(n, e)
    [] k \in DOMAIN MarkTag -> Tags(MarkTag[k], e)
    [] k \in DOMAIN SpanTag -> Tags(SpanTag[k], e)
    [] k \in {"Document", "DescriptionItem", "FrontMatter", "CommentInline", "MultilineComment"} -> <<>>

\* format_node_default: how its children are rendered
ChildRendering(n) ==
  CASE Kind(n) = "Image" -> "Plain"
    [] Kind(n) \in {"CommentInline", "MultilineComment"} -> "Skip"
    [] OTHER -> "HTML"

\* A formatter of create_formatter!: one kind of node is the embedder's, with tags of its own
formatter(n, e) == IF Kind(n) = doc.custom.kind THEN Tags("custom", e) ELSE Rendered(n, e)
formatter_children(n) ==
  IF Kind(n) = doc.custom.kind THEN doc.custom.children ELSE ChildRendering(n)

-----------------------------------------------------------------------------
\* Context::new and the stack of format_document_with_formatter
\* Document t is formatted under options o and the embedder's formatter c
Format(t, o, c) ==
  /\ doc = [kind |-> t.kind, parent |-> t.parent, options |-> o, custom |-> c]
  /\ stack = <<[node |-> 1, rendering |-> "HTML", phase |-> "Pre"]>>
  /\ out = <<>>
  /\ footnote_ix = 0
  /\ written_footnote_ix = 0
  /\ heading = 0
  /\ finished = FALSE
  /\ visits = <<>>

RenderInit ==
  \E d \in Documents : \E t \in d.trees, o \in d.options, c \in d.customs : Format(t, o, c)

StackTop == Last(stack)
StackRest == Front(stack)

\* In the order they are in (a mutant)
ChildrenInOrder(n, rendering) ==
  [i \in DOMAIN Kids(n) |-> [node |-> Kids(n)[i], rendering |-> rendering, phase |-> "Pre"]]

\* The children of a node for the stack, the first on top
Children(n, rendering) ==
  IF rendering = "Skip" THEN <<>>
  ELSE LET kids == Reverse(Kids(n))
       IN [i \in DOMAIN kids |-> [node |-> kids[i], rendering |-> rendering, phase |-> "Pre"]]

Is(k) == Kind(StackTop.node) = k /\ k # doc.custom.kind

\* In an attribute: words and nothing else
PlainText(n) ==
  CASE Kind(n) \in {"Text", "Code", "HtmlInline", "Math"} -> <<Word(n)>>
    [] Kind(n) \in {"LineBreak", "SoftBreak"} -> <<Void("space")>>
    [] OTHER -> <<>>

Plain ==
  /\ stack # <<>> /\ StackTop.phase = "Pre" /\ StackTop.rendering = "Plain"
  /\ stack' = StackRest \o Children(StackTop.node, "Plain")
  /\ out' = Written(PlainText(StackTop.node))
  /\ visits' = Append(visits, <<StackTop.node, "plain">>)
  /\ UNCHANGED <<doc, footnote_ix, written_footnote_ix, heading, finished>>

Enter ==
  /\ stack # <<>> /\ StackTop.phase = "Pre" /\ StackTop.rendering = "HTML"
  /\ stack' = StackRest \o <<[StackTop EXCEPT !.phase = "Post"]>>
                   \o Children(StackTop.node, formatter_children(StackTop.node))
  /\ out' = Written(formatter(StackTop.node, TRUE))
  /\ footnote_ix' = footnote_ix + (IF Is("FootnoteDefinition") THEN 1 ELSE 0)
  /\ heading' = IF Is("Heading") /\ Has("header_id_prefix") THEN StackTop.node ELSE heading
  /\ visits' = Append(visits, <<StackTop.node, "enter">>)
  /\ UNCHANGED <<doc, written_footnote_ix, finished>>

Leave ==
  /\ stack # <<>> /\ StackTop.phase = "Post"
  /\ stack' = StackRest
  /\ out' = Written(formatter(StackTop.node, FALSE))
  /\ written_footnote_ix' =
       IF Is("FootnoteDefinition") \/ (Is("Paragraph") /\ EndsDefinition(StackTop.node))
       THEN footnote_ix ELSE written_footnote_ix
  /\ heading' = IF Is("Heading") THEN 0 ELSE heading
  /\ visits' = Append(visits, <<StackTop.node, "leave">>)
  /\ UNCHANGED <<doc, footnote_ix, finished>>

\* Context::finish
Finish ==
  /\ stack = <<>> /\ ~finished
  /\ out' = Written(If(footnote_ix > 0, <<Close("ol"), Lf, Close("section"), Lf>>))
  /\ finished' = TRUE
  /\ UNCHANGED <<doc, stack, footnote_ix, written_footnote_ix, heading, visits>>

RenderDone == finished /\ UNCHANGED renderVars

RenderNext == Plain \/ Enter \/ Leave \/ Finish \/ RenderDone
RenderSpec == RenderInit /\ [][RenderNext]_renderVars

-----------------------------------------------------------------------------
(***************************************************************************)
(* Properties                                                              *)
(***************************************************************************)
\* The tags and attributes that are open after one more token, "wrong" on top after a mismatch
Nest(open, token) ==
  LET top == IF open = <<>> THEN "none" ELSE Last(open) IN
  CASE top = "wrong" -> open
    [] token[1] \in {"word", "newline"} -> open
    [] token[1] = "unquote" /\ top = "quote" -> Front(open)
    [] token[1] = "void" /\ (top # "quote" \/ token = Void("space")) -> open
    [] token[1] = "close" /\ top = token[2] -> Front(open)
    [] token[1] = "open" /\ top # "quote" -> Append(open, token[2])
    [] token[1] = "quote" /\ top # "quote" -> Append(open, "quote")
    [] OTHER -> Append(open, "wrong")

\* Every tag closes the one opened last, there is no tag in an image's alt text, nothing panics, and
\* in the end nothing is open: what the tests of the footnotes expect too, whose section stands after
\* all the rest and around all of the definitions.
TagsNest ==
  LET open[k \in 0..Len(out)] == IF k = 0 THEN <<>> ELSE Nest(open[k - 1], out[k])
      now == open[Len(out)]
  IN /\ now # <<>> => Last(now) # "wrong"
     /\ finished => now = <<>>

\* A definition that was left inside another block was rendered first, and opened the section there
Opens(v) == v[2] = "enter" /\ Kind(v[1]) = "FootnoteDefinition" /\ doc.custom.kind # "FootnoteDefinition"
SectionInBlock ==
  \E k \in DOMAIN visits :
    Opens(visits[k]) /\ Parent(visits[k][1]) # 1 /\ \A j \in DOMAIN visits : Opens(visits[j]) => k <= j

\* The tags nest, whatever the node that writes them looked at (its parent, its siblings, its
\* children, the counters of the context): a table's body, a figure, links and bold text that leave
\* their tags to the node around them, the section of the footnotes with definitions left anywhere
\* after the first.  Only where the first of them is inside another block do they not: the section
\* is opened there and closed at the end of the document.
WellNested == ~SectionInBlock => TagsNest

\* What a recursion over the tree does with each node, below an image and elsewhere
Each(tour, n) == FlattenSeq([i \in DOMAIN Kids(n) |-> tour[Kids(n)[i]]])

PlainTour == LET plain[n \in DocNodes] == <<<<n, "plain">>>> \o Each(plain, n) IN plain

Below(full, n) ==
  CASE formatter_children(n) = "Skip" -> <<>>
    [] formatter_children(n) = "Plain" -> Each(PlainTour, n)
    [] OTHER -> Each(full, n)

FullTour ==
  LET full[n \in DocNodes] == <<<<n, "enter">>>> \o Below(full, n) \o <<<<n, "leave">>>> IN full

Tour == FullTour[1]

\* The stack does what the recursion would: every node that is entered is left after all that is
\* below it, what is below an image is visited once and plainly, and what is skipped not at all.
VisitsAsRecursion ==
  IF finished THEN visits = Tour ELSE IsPrefix(visits, Tour)

\* The block whose words a node's are
BlockOf(n) ==
  LET up[m \in DocNodes] == IF Kind(m) \in Block THEN m ELSE up[Parent(m)] IN up[n]

Inline == {"em", "strong", "a", "code", "del", "mark", "ins", "span", "sub", "sup", "u", "custom"}

Separates(token) ==
  \/ token = Newline
  \/ token[1] \in {"open", "close"} /\ token[2] \notin Inline
  \/ token \in {Void("br"), Void("hr"), Void("input")}

\* The words of two blocks are never run together: between them is a tag of a block or a newline,
\* also where tight paragraphs have no tags and a comment or raw HTML stands between them.  With
\* compact_html the newlines around raw HTML go, and this is not promised where there is some.
WordsApart ==
  finished /\ ~(Has("compact_html") /\ \E n \in DocNodes : Kind(n) \in {"HtmlBlock", "HeexBlock"}) =>
    \A i, j \in DOMAIN out :
      /\ i < j /\ out[i][1] = "word" /\ out[j][1] = "word"
      /\ BlockOf(out[i][2]) # BlockOf(out[j][2])
      => \E k \in i..j : Separates(out[k])
=============================================================================
