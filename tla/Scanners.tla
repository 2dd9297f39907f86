------------------------------- MODULE Scanners -------------------------------
\* The scanners generated from scanners.re: each is given a text, the rest of a
\* line or of a paragraph, and answers how many of its bytes match, if any do.
\* A text is a sequence of one-byte symbols: the character of an ASCII byte, and
\* "C3", "A9" for the two bytes of a character outside ASCII, "VT" for a vertical
\* tab and "tick" for a backtick.
EXTENDS Integers, Sequences, FiniteSets, FiniteSetsExt, SequencesExt

None == -1

\* What is read past the last byte (re2c:sentinel = 255): a scanner may match it
End == "END"

Tick == "tick"

Chars(word) == [i \in 1..Len(word) |-> SubSeq(word, i, i)]
CharSet(word) == {SubSeq(word, i, i) : i \in 1..Len(word)}

Lowers == Chars("abcdefghijklmnopqrstuvwxyz")
Uppers == Chars("ABCDEFGHIJKLMNOPQRSTUVWXYZ")
UpperSet == ToSet(Uppers)
Lower(c) == IF c \in UpperSet THEN Lowers[CHOOSE i \in 1..26 : Uppers[i] = c] ELSE c

Digit == CharSet("0123456789")
Alpha == UpperSet \cup ToSet(Lowers)
Alnum == Alpha \cup Digit
Punct == CharSet("!\"#$%&'()*+,./:;<=>?@[\\]^_{|}~-") \cup {Tick}

Blank == {" ", "\t"}
SpaceChar == {" ", "\t", "VT", "\f", "\r", "\n"}
LineEnd == {"\r", "\n", End}

-------------------------------------------------------------------------------
(* Patterns, and the ends of their matches.                                    *)

In(S) == [is |-> "in", of |-> S]
NotIn(S) == [is |-> "not in", of |-> S]                     \* never the sentinel
Word(w) == [is |-> "word", of |-> Chars(w)]                 \* in any case
Then(rs) == [is |-> "then", of |-> rs]
Either(rs) == [is |-> "either", of |-> rs]
Times(lo, hi, r) == [is |-> "times", of |-> r, lo |-> lo, hi |-> hi]
Unbounded == 1000
Many(r) == Times(0, Unbounded, r)
Some(r) == Times(1, Unbounded, r)
Maybe(r) == Times(0, 1, r)
OneOf(w) == In(CharSet(w))

Peek(s, i) == IF i <= Len(s) THEN s[i] ELSE End

RECURSIVE Ends(_, _, _), Repeat(_, _, _, _, _)

\* The places after a match of `r' that begins at the i-th byte of `s'
Ends(r, s, i) ==
  CASE r.is = "in"     -> IF i <= Len(s) + 1 /\ Peek(s, i) \in r.of THEN {i + 1} ELSE {}
    [] r.is = "not in" -> IF i <= Len(s) /\ s[i] \notin r.of THEN {i + 1} ELSE {}
    [] r.is = "word"   -> IF /\ i + Len(r.of) <= Len(s) + 1
                             /\ \A k \in 1..Len(r.of) : Lower(s[i + k - 1]) = r.of[k]
                          THEN {i + Len(r.of)} ELSE {}
    [] r.is = "then"   -> FoldLeft(LAMBDA S, q : UNION {Ends(q, s, j) : j \in S}, {i}, r.of)
    [] r.is = "either" -> UNION {Ends(r.of[k], s, i) : k \in DOMAIN r.of}
    [] r.is = "times"  -> Repeat(r.of, s, {i}, r.lo, r.hi)

Repeat(q, s, S, lo, hi) ==
  IF S = {} THEN {}
  ELSE (IF lo <= 0 THEN S ELSE {})
       \cup (IF hi = 0 THEN {} ELSE Repeat(q, s, UNION {Ends(q, s, j) : j \in S}, lo - 1, hi - 1))

Accepts(r, s) == Ends(r, s, 1) # {}

\* The bytes of the longest match: with the sentinel it is Len(s) + 1
Longest(r, s) == LET E == Ends(r, s, 1) IN IF E = {} THEN None ELSE Max(E) - 1

\* r / context: the context must follow and is not counted
Before(r, context, s) ==
  LET E == {j \in Ends(r, s, 1) : Ends(context, s, j) # {}}
  IN  IF E = {} THEN None ELSE Max(E) - 1

\* A scanner that may have matched the sentinel steps back over it
StepBack(n, s) == IF n = Len(s) + 1 THEN n - 1 ELSE n

-------------------------------------------------------------------------------
(* Blocks.                                                                      *)

RestOfLine == Then(<<Many(NotIn({"\r", "\n"})), In(LineEnd)>>)
BlankRest == Then(<<Many(In(Blank)), In(LineEnd)>>)

open_block_directive_fence(s) == Before(Times(3, Unbounded, OneOf(":")), RestOfLine, s)
close_block_directive_fence(s) == Before(Times(3, Unbounded, OneOf(":")), BlankRest, s)

\* Broken: the end of the line, matched with the sentinel, is counted
atx_heading_start_kept(s) ==
  Longest(Then(<<Times(1, 6, OneOf("#")), Either(<<Some(In(Blank)), In(LineEnd)>>)>>), s)

atx_heading_start(s) ==
  StepBack(Longest(Then(<<Times(1, 6, OneOf("#")), Either(<<Some(In(Blank)), In(LineEnd)>>)>>), s), s)

atx_subtext_start(s) ==
  StepBack(Longest(Then(<<Word("-#"), Either(<<Some(In(Blank)), In(LineEnd)>>)>>), s), s)

Within(r) == Then(<<Many(NotIn({"\n"})), r>>)
RawText == Either(<<Word("script"), Word("pre"), Word("textarea"), Word("style")>>)

html_block_end_1(s) == Accepts(Within(Then(<<Word("</"), RawText, Word(">")>>)), s)
html_block_end_2(s) == Accepts(Within(Word("-->")), s)
html_block_end_3(s) == Accepts(Within(Word("?>")), s)
html_block_end_4(s) == Accepts(Within(Word(">")), s)
html_block_end_5(s) == Accepts(Within(Word("]]>")), s)

AlertTypes == {"note", "tip", "important", "warning", "caution"}

\* The type of the alert, or None
alert_start(s) ==
  LET Of(t) == Accepts(Then(<<Some(OneOf(">")), Word(" [!" \o t \o "]")>>), s)
  IN  IF \E t \in AlertTypes : Of(t) THEN CHOOSE t \in AlertTypes : Of(t) ELSE "none"

Fence(c, rest, s) == Before(Times(3, Unbounded, In({c})), rest, s)

\* What follows backticks has none of them: they would be a code span
open_code_fence(s) ==
  LET ticks == Fence(Tick, Then(<<Many(NotIn({Tick, "\r", "\n"})), In(LineEnd)>>), s)
  IN  IF ticks # None THEN ticks ELSE Fence("~", RestOfLine, s)

close_code_fence(s) ==
  IF Fence(Tick, BlankRest, s) # None THEN Fence(Tick, BlankRest, s) ELSE Fence("~", BlankRest, s)

BlockTags == <<"address", "article", "aside", "base", "basefont", "blockquote", "body", "caption",
  "center", "col", "colgroup", "dd", "details", "dialog", "dir", "div", "dl", "dt", "fieldset",
  "figcaption", "figure", "footer", "form", "frame", "frameset", "h1", "h2", "h3", "h4", "h5", "h6",
  "head", "header", "hr", "html", "iframe", "legend", "li", "link", "main", "menu", "menuitem", "nav",
  "noframes", "ol", "optgroup", "option", "p", "param", "search", "section", "title", "summary",
  "table", "tbody", "td", "tfoot", "th", "thead", "tr", "track", "ul">>

\* The kind of the HTML block that begins here, 1 to 6, by the first rule that matches
html_block_start(s) ==
  LET Tag == Either([i \in DOMAIN BlockTags |-> Word(BlockTags[i])])
      Rules == <<Then(<<Word("<"), RawText, Either(<<In(SpaceChar), Word(">")>>)>>),
                 Word("<!--"), Word("<?"), Then(<<Word("<!"), In(Alpha)>>), Word("<![cdata["),
                 Then(<<Word("<"), Maybe(Word("/")), Tag,
                        Either(<<In(SpaceChar), Then(<<Maybe(Word("/")), Word(">")>>)>>)>>)>>
      Hits == {k \in 1..6 : Accepts(Rules[k], s)}
  IN  IF Hits = {} THEN None ELSE Min(Hits)

-------------------------------------------------------------------------------
(* Tags and raw HTML.                                                           *)

Spaces == Many(In(SpaceChar))
TagName == Then(<<In(Alpha), Many(In(Alnum \cup {"-"}))>>)
AttributeValue ==
  Either(<<Some(NotIn({" ", "\t", "\r", "\n", "VT", "\f"} \cup CharSet("\"'=<>") \cup {Tick})),
           Then(<<Word("'"), Many(NotIn({"'"})), Word("'")>>),
           Then(<<Word("\""), Many(NotIn({"\""})), Word("\"")>>)>>)
Attribute ==
  Then(<<Some(In(SpaceChar)), In(Alpha \cup {"_", ":"}), Many(In(Alnum \cup CharSet(":._-"))),
         Maybe(Then(<<Spaces, Word("="), Spaces, AttributeValue>>))>>)
OpenTag == Then(<<TagName, Many(Attribute), Spaces, Maybe(Word("/")), Word(">")>>)
CloseTag == Then(<<Word("/"), TagName, Spaces, Word(">")>>)

html_block_start_7(s) ==
  IF Accepts(Then(<<Word("<"), Either(<<OpenTag, CloseTag>>), Many(In({"\t", "\n", "\f", " "})),
                    In(LineEnd)>>), s)
  THEN 7 ELSE None

html_tag(s) == Longest(Either(<<OpenTag, CloseTag>>), s)

\* What follows "<!": a comment's two hyphens up to "-->"
html_comment(s) ==
  Longest(Then(<<Word("--"),
                 Many(Either(<<NotIn({"-"}), Then(<<Word("-"), NotIn({"-"})>>),
                               Then(<<Word("--"), NotIn({">"})>>)>>)),
                 Word("-->")>>), s)

\* What follows "<?", "<!" and "<![", without its end: the callers look for that
html_processing_instruction(s) ==
  Longest(Some(Either(<<NotIn({"?", ">"}), Then(<<Word("?"), NotIn({">"})>>), Word(">")>>)), s)

html_declaration(s) ==
  Longest(Then(<<Some(In(UpperSet)), Some(In(SpaceChar)), Many(NotIn({">"}))>>), s)

html_cdata(s) ==
  Longest(Then(<<Word("cdata["),
                 Many(Either(<<NotIn({"]"}), Then(<<Word("]"), NotIn({"]"})>>),
                               Then(<<Word("]]"), NotIn({">"})>>)>>))>>), s)

-------------------------------------------------------------------------------
(* Lines of other blocks.                                                       *)

\* "=" or "-", the character underlined with, or "none"
setext_heading_line(s) ==
  LET Line(c) == Accepts(Then(<<Some(OneOf(c)), BlankRest>>), s)
  IN  IF Line("=") THEN "=" ELSE IF Line("-") THEN "-" ELSE "none"

footnote_definition(s) ==
  Longest(Then(<<Word("[^"), Some(NotIn({"]", " ", "\r", "\n", "\t"})), Word("]:"), Many(In(Blank))>>), s)

description_item_start(s) == Longest(Then(<<OneOf(":~"), Some(In(Blank))>>), s)

MultilineFence(s) == Before(Times(3, Unbounded, OneOf(">")), BlankRest, s)
open_multiline_block_quote_fence(s) == MultilineFence(s)
close_multiline_block_quote_fence(s) == MultilineFence(s)

\* The bytes up to the item's text, and the bytes between its brackets
tasklist(s) ==
  LET Opened == Then(<<Spaces, Word("[")>>)
      Box == Then(<<Opened, Some(NotIn({"\r", "\n", "]"}))>>)
      n == Longest(Then(<<Box, Word("]"), In(SpaceChar \cup {End})>>), s)
  IN  IF n = None THEN [len |-> None, from |-> 0, to |-> 0]
      ELSE [len |-> StepBack(n, s), from |-> Min(Ends(Opened, s, 1)) - 1, to |-> Before(Box, Word("]"), s)]

TableSpace == {" ", "\t", "VT", "\f"}
NewLine == Either(<<Word("\r\n"), In({"\r", "\n"})>>)
EscapedChar == Then(<<Word("\\"), In(Punct)>>)
Delimiter ==
  Then(<<Many(In(TableSpace)), Maybe(Word(":")), Some(Word("-")), Maybe(Word(":")), Many(In(TableSpace))>>)

\* The row of hyphens under a table's header; it may have matched the sentinel
table_start(s) ==
  Longest(Then(<<Maybe(Word("|")), Delimiter, Many(Then(<<Word("|"), Delimiter>>)), Maybe(Word("|")),
                 Many(In(TableSpace)), Either(<<NewLine, In({End})>>)>>), s)

\* A cell that is not empty; with spoilers, two bars are part of it
table_cell(s, spoiler) ==
  LET Plain == <<EscapedChar, NotIn({"|", "\r", "\n"})>>
  IN  Longest(Some(Either(IF spoiler THEN Append(Plain, Word("||")) ELSE Plain)), s)

table_cell_end(s) == Longest(Then(<<Word("|"), Many(In(TableSpace))>>), s)
table_row_end(s) == Longest(Then(<<Many(In(TableSpace)), NewLine>>), s)

-------------------------------------------------------------------------------
(* Links.                                                                       *)

SchemeName == Then(<<In(Alpha), Times(1, 31, In(Alnum \cup CharSet(".+-")))>>)
NotInUri == {" ", "\t", "VT", "\f", "\r", "\n", "<", ">"}

scheme(s) == Longest(Then(<<SchemeName, Word(":")>>), s)
autolink_uri(s) == Longest(Then(<<SchemeName, Word(":"), Many(NotIn(NotInUri)), Word(">")>>), s)

autolink_email(s) ==
  LET Label == Then(<<In(Alnum), Maybe(Then(<<Times(0, 61, In(Alnum \cup {"-"})), In(Alnum)>>))>>)
  IN  Longest(Then(<<Some(In(Alnum \cup CharSet(".!#$%&'*+/=?^_{|}~-") \cup {Tick})), Word("@"), Label,
                     Many(Then(<<Word("."), Label>>)), Word(">")>>), s)

spacechars(s) == Longest(Some(In(SpaceChar)), s)

\* The longest match of the three, the quotes included
link_title(s) ==
  LET Quoted(open, close, not) ==
        Longest(Then(<<Word(open), Many(Either(<<EscapedChar, NotIn(not)>>)), Word(close)>>), s)
  IN  Max({Quoted("\"", "\"", {"\""}), Quoted("'", "'", {"'"}), Quoted("(", ")", {"(", ")"})})

\* A link to one of these is not followed; an image's data may be shown
dangerous_url(s) ==
  LET Image == Then(<<Word("data:image/"), Either(<<Word("png"), Word("gif"), Word("jpeg"), Word("webp")>>)>>)
      Script == Either(<<Word("javascript:"), Word("vbscript:"), Word("file:"), Word("data:")>>)
  IN  IF Accepts(Image, s) THEN None ELSE Longest(Script, s)

Ipv6(schemes, s) ==
  Longest(Then(<<schemes, Word("://["), Some(In(Digit \cup CharSet("abcdefABCDEF:"))),
                 Maybe(Then(<<Word("%25"), Some(In(Alnum))>>)), Word("]")>>), s)
ipv6_url_start(s) == Ipv6(Then(<<Word("http"), Maybe(OneOf("s"))>>), s)
ipv6_relaxed_url_start(s) == Ipv6(Some(In(ToSet(Lowers))), s)

shortcode(s) == Longest(Then(<<Some(In(Alnum \cup CharSet("+_-"))), Word(":")>>), s)

-------------------------------------------------------------------------------
(* Phoenix HEEx.                                                                *)

NotInTag == CharSet("<>{}!\"'/=") \cup {" ", "\t", "\r", "\n", "VT", "\f"}
TagPart(first) == Then(<<In(first), Many(NotIn(NotInTag \cup {"-", "."}))>>)
FunctionComponent == Then(<<Word("."), TagPart(ToSet(Lowers))>>)
ModuleComponent ==
  Then(<<TagPart(UpperSet), Many(Then(<<Word("."), TagPart(UpperSet)>>)), Maybe(FunctionComponent)>>)
BlockTag == Either(<<FunctionComponent, ModuleComponent>>)

\* The bytes of the name, in both
phoenix_opening_tag(s) ==
  LET n == Longest(Then(<<Word("<"), BlockTag>>), s) IN IF n = None THEN None ELSE n - 1
phoenix_block_closing_tag(s) ==
  LET n == Longest(Then(<<Word("</"), BlockTag, Word(">")>>), s) IN IF n = None THEN None ELSE n - 3

phoenix_closing_tag(s) ==
  LET n == phoenix_block_closing_tag(s) IN IF n = None THEN None ELSE n + 3

From(s, i) == SubSeq(s, i, Len(s))
Has(s, i, w) == i + Len(w) <= Len(s) + 1 /\ SubSeq(s, i, i + Len(w) - 1) = Chars(w)

\* After the closing tag of that name, the first in the text
phoenix_closing_tag_end(s, name) ==
  LET Closes(i) == /\ i + 3 <= Len(s)
                   /\ phoenix_block_closing_tag(From(s, i)) = Len(name)
                   /\ SubSeq(s, i + 2, i + 1 + Len(name)) = name
      Hits == {i \in DOMAIN s : Closes(i)}
  IN  IF Hits = {} THEN None ELSE Min(Hits) + 2 + Len(name)

\* The place after a quoted string's closing quote, or the end; i is inside it
RECURSIVE skip_quoted_string(_, _, _)
skip_quoted_string(s, i, quote) ==
  IF i > Len(s) THEN i
  ELSE IF s[i] = "\\" THEN IF i < Len(s) THEN skip_quoted_string(s, i + 2, quote) ELSE i + 1
  ELSE IF s[i] = quote THEN i + 1
  ELSE skip_quoted_string(s, i + 1, quote)

\* The first place from i, outside quoted strings, where one of `words' is; 0 if none
RECURSIVE FirstUnquoted(_, _, _)
FirstUnquoted(s, i, words) ==
  IF i > Len(s) THEN 0
  ELSE IF s[i] \in {"\"", "'"} THEN FirstUnquoted(s, skip_quoted_string(s, i + 1, s[i]), words)
  ELSE IF \E w \in words : Has(s, i, w) THEN i
  ELSE FirstUnquoted(s, i + 1, words)

phoenix_self_closing_tag_end(s) ==
  LET i == FirstUnquoted(s, 2, {"/>", ">"})
  IN  IF Len(s) >= 4 /\ s[1] = "<" /\ i # 0 /\ Has(s, i, "/>") THEN i + 1 ELSE None

\* A comment, a short comment, or a directive that ends at the first "%>" outside quotes
phoenix_directive(s) ==
  LET Comment == Then(<<Word("<%!--"),
                        Many(Either(<<NotIn({"-"}), Then(<<Word("-"), NotIn({"-"})>>),
                                      Then(<<Word("--"), NotIn({"%"})>>)>>)), Word("--%>")>>)
      Short == Then(<<Word("<%#"), Many(Either(<<NotIn({"%"}), Then(<<Word("%"), NotIn({">"})>>)>>)), Word("%>")>>)
      i == FirstUnquoted(s, 3, {"%>"})
  IN  IF Len(s) < 4 \/ ~Has(s, 1, "<%") THEN None
      ELSE IF s[3] = "!" /\ Len(s) >= 7 THEN Longest(Comment, s)
      ELSE IF s[3] = "#" THEN Longest(Short, s)
      ELSE IF i = 0 THEN None ELSE i + 1

phoenix_block_directive_start(s) == IF Has(s, 1, "<%") THEN 2 ELSE None
phoenix_block_expression_start(s) == IF Has(s, 1, "{") THEN 1 ELSE None
phoenix_block_directive_end(s) == FirstUnquoted(s, 1, {"--%>", "%>"}) # 0
phoenix_block_comment_end(s) == FirstUnquoted(s, 1, {"%>"}) # 0
phoenix_block_multiline_comment_end(s) == FirstUnquoted(s, 1, {"--%>"}) # 0
phoenix_block_expression_end(s) == FirstUnquoted(s, 1, {"}"}) # 0
===============================================================================
