------------------------------ MODULE References -------------------------------
\* Link reference definitions: taken one by one from the front of a paragraph when it
\* is finalized, the first of a label kept for the document, and looked up later by
\* the links of the document, whose destinations together may not grow beyond it.
EXTENDS Scanners

CONSTANTS
  MaxLabel,     \* MAX_LINK_LABEL_LENGTH
  MaxParens,    \* how deep parentheses may be in a destination
  MaxRefSize    \* 100000, the most that any document's references may add up to

ASSUME ReferencesAssumption == {MaxLabel, MaxParens, MaxRefSize} \subseteq Nat

VARIABLES
  whole,       \* the paragraph's bytes
  content,     \* what of them is left
  found,       \* rrs: the definitions read, in order: [label, url, title]
  refmap,      \* RefMap::map: what each label stands for
  stage,       \* "definitions", then "links"
  refSize,     \* RefMap::ref_size
  looked       \* the lookups: [label, size, resolved]

refVars == <<whole, content, found, refmap, stage, refSize, looked>>

StartParagraph(bytes) ==
  /\ whole = bytes /\ content = bytes
  /\ found = <<>> /\ refmap = <<>> /\ stage = "definitions"
  /\ refSize = 0 /\ looked = <<>>

-------------------------------------------------------------------------------
(* Reading one definition: the place after each part, or None.                     *)

AfterBlanks(s, i) == Min({j \in i..Len(s) + 1 : Peek(s, j) \notin Blank})
AfterLineEnd(s, i) ==
  IF Has(s, i, "\r\n") THEN i + 2 ELSE IF Peek(s, i) \in {"\r", "\n"} THEN i + 1 ELSE i
EndsLine(s, i) == i > Len(s) \/ AfterLineEnd(s, i) > i

\* Broken: any number of line ends is skipped
spnlAll(s, i) == Min({j \in i..Len(s) + 1 : Peek(s, j) \notin SpaceChar})

\* Scanner::spnl
spnl(s, i) == LET j == AfterBlanks(s, i) IN IF EndsLine(s, j) THEN AfterBlanks(s, AfterLineEnd(s, j)) ELSE j

\* link_label: after the bracket that closes the label; n is its length so far
RECURSIVE LabelEnd(_, _, _)
LabelEnd(s, i, n) ==
  IF n > MaxLabel \/ Peek(s, i) \in {"[", End} THEN None
  ELSE IF s[i] = "]" THEN i + 1
  ELSE IF s[i] = "\\" /\ Peek(s, i + 1) \in Punct THEN LabelEnd(s, i + 2, n + 2)
  ELSE LabelEnd(s, i + 1, n + 1)

\* manual_scan_link_url: after a destination in angle brackets
RECURSIVE PointyEnd(_, _)
PointyEnd(s, i) ==
  IF Peek(s, i) \in {"\n", "\r", "<"} \/ i > Len(s) THEN None
  ELSE IF s[i] = ">" THEN IF i = Len(s) THEN None ELSE i + 1
  ELSE PointyEnd(s, IF s[i] = "\\" THEN i + 2 ELSE i + 1)

\* manual_scan_link_url_2: after any other
RECURSIVE BareEnd(_, _, _)
BareEnd(s, i, parens) ==
  LET c == Peek(s, i)
      stop == IF parens # 0 THEN None ELSE i
  IN  IF c = "\\" /\ Peek(s, i + 1) \in Punct THEN BareEnd(s, i + 2, parens)
      ELSE IF c = "(" THEN IF parens = MaxParens THEN None ELSE BareEnd(s, i + 1, parens + 1)
      ELSE IF c = ")" /\ parens > 0 THEN BareEnd(s, i + 1, parens - 1)
      ELSE IF c \in SpaceChar \cup {")", End} THEN stop
      ELSE BareEnd(s, i + 1, parens)

UrlEnd(s, i) ==
  IF Peek(s, i) = "<" THEN PointyEnd(s, i + 1)
  ELSE IF Peek(s, i) \in SpaceChar \cup {End} THEN None
  ELSE BareEnd(s, i, 0)

TrimBytes(s) ==
  LET Text == {i \in DOMAIN s : s[i] \notin SpaceChar}
  IN  IF Text = {} THEN <<>> ELSE SubSeq(s, Min(Text), Max(Text))

\* normalize_label: whitespace is one space, and case is folded
normalize_label(s) ==
  FoldLeft(LAMBDA v, c : IF c \notin SpaceChar THEN Append(v, Lower(c))
                         ELSE IF v = <<>> \/ Last(v) = " " THEN v ELSE Append(v, " "),
           <<>>, TrimBytes(s))

\* clean_url, clean_title: backslash escapes become what they escape
unescape(s) ==
  LET Escapes(i) == s[i] = "\\" /\ Peek(s, i + 1) \in Punct
      Drop(v, i) == IF Escapes(i) /\ ~v.escaped THEN [v EXCEPT !.escaped = TRUE]
                    ELSE [bytes |-> Append(v.bytes, s[i]), escaped |-> FALSE]
  IN  FoldLeftDomain(Drop, [bytes |-> <<>>, escaped |-> FALSE], s).bytes

NoDefinition == [len |-> None]

\* parse_reference_inline: a title that does not end its line is none, if the
\* destination ends its own
parse_reference_inline(s) ==
  LET label == LabelEnd(s, 2, 0)
      url == spnl(s, label + 1)
      urlEnd == UrlEnd(s, url)
      title == spnl(s, urlEnd)
      titleLen == IF title = urlEnd THEN None ELSE link_title(From(s, title))
      titled == AfterBlanks(s, title + titleLen)
      plain == AfterBlanks(s, urlEnd)
      Inner(i, j) == unescape(TrimBytes(SubSeq(s, i, j)))
      Definition(end, t) ==
        [len |-> AfterLineEnd(s, end) - 1, label |-> normalize_label(SubSeq(s, 2, label - 2)),
         url |-> IF s[url] = "<" THEN Inner(url + 1, urlEnd - 2) ELSE Inner(url, urlEnd - 1), title |-> t]
  IN  IF label = None THEN NoDefinition
      ELSE IF TrimBytes(SubSeq(s, 2, label - 2)) = <<>> \/ Peek(s, label) # ":" \/ urlEnd = None
      THEN NoDefinition
      ELSE IF titleLen # None /\ EndsLine(s, titled)
      THEN Definition(titled, unescape(SubSeq(s, title + 1, title + titleLen - 2)))
      ELSE IF EndsLine(s, plain) THEN Definition(plain, <<>>)
      ELSE NoDefinition

-------------------------------------------------------------------------------
(* The document.                                                                   *)

parse_reference ==
  /\ stage = "definitions"
  /\ content # <<>> /\ content[1] = "["
  /\ LET d == parse_reference_inline(content)
     IN  /\ d # NoDefinition
         /\ content' = From(content, d.len + 1)
         /\ found' = Append(found, [label |-> d.label, url |-> d.url, title |-> d.title])
  /\ UNCHANGED <<whole, refmap, stage, refSize, looked>>

\* All are put in the map together, each only if its label is not there
resolve_reference_link_definitions ==
  /\ stage = "definitions"
  /\ content # <<>> /\ content[1] = "[" => parse_reference_inline(content) = NoDefinition
  /\ refmap' = FoldLeft(LAMBDA m, d : IF \E k \in DOMAIN m : m[k].label = d.label THEN m ELSE Append(m, d),
                        refmap, found)
  /\ stage' = "links"
  /\ UNCHANGED <<whole, content, found, refSize, looked>>

SizeOf(d) == Len(d.url) + Len(d.title)
\* Broken: the budget is what is left when the definitions are gone
max_ref_size_left == Min({Len(content), MaxRefSize})
max_ref_size == Min({Len(whole), MaxRefSize})

\* A link's label is looked up; what it stands for counts each time
lookup ==
  /\ stage = "links"
  /\ \E k \in DOMAIN refmap :
       LET size == SizeOf(refmap[k])
           Fits == ~(size > max_ref_size - refSize)
       IN  /\ looked' = Append(looked, [label |-> refmap[k].label, size |-> size, resolved |-> Fits])
           /\ refSize' = IF Fits THEN refSize + size ELSE refSize
  /\ UNCHANGED <<whole, content, found, refmap, stage>>

references == parse_reference \/ resolve_reference_link_definitions \/ lookup

-------------------------------------------------------------------------------
(* Properties.                                                                     *)

\* CommonMark 4.7 as a pattern, for destinations whose parentheses are at most two deep
Escaped == Then(<<Word("\\"), In(Punct)>>)
WhiteSpace == Then(<<Many(In(Blank)), Maybe(NewLine), Many(In(Blank))>>)
SomeWhiteSpace == Either(<<Then(<<Some(In(Blank)), Maybe(NewLine), Many(In(Blank))>>),
                           Then(<<NewLine, Many(In(Blank))>>)>>)
\* A character that is none of S, escaped or not; a backslash before no punctuation is itself
Unescaped(S) == Either(<<Escaped, NotIn(S \cup {"\\"}), Then(<<Word("\\"), NotIn(Punct \cup S)>>)>>)
Label == Then(<<Word("["), Many(Unescaped({"[", "]"})), Word("]")>>)
UrlChar == Unescaped(SpaceChar \cup {"(", ")"})
Parenthesized(r) == Then(<<Word("("), Many(r), Word(")")>>)
Nested == Either(<<UrlChar, Parenthesized(Either(<<UrlChar, Parenthesized(UrlChar)>>))>>)
Destination ==
  Either(<<Then(<<Word("<"), Many(Unescaped({"<", ">", "\n", "\r"})), Word(">")>>),
           Then(<<Either(<<Unescaped(SpaceChar \cup {"(", ")", "<"}), Parenthesized(Either(<<UrlChar, Parenthesized(UrlChar)>>))>>),
                  Many(Nested), Maybe(Word("\\"))>>),
           Word("\\")>>)
Title ==
  LET Quoted(open, close, not) == Then(<<Word(open), Many(Either(<<EscapedChar, NotIn(not)>>)), Word(close)>>)
  IN  Either(<<Quoted("\"", "\"", {"\""}), Quoted("'", "'", {"'"}), Quoted("(", ")", {"(", ")"})>>)
LineRest == Then(<<Many(In(Blank)), NewLine>>)
Specified ==
  Then(<<Label, Word(":"), WhiteSpace, Destination, Maybe(Then(<<SomeWhiteSpace, Title>>)), LineRest>>)

\* What is taken from the front of a paragraph is the longest text that is a definition
\* by the grammar, and nothing is taken or left otherwise: the scan of the label, of the
\* destination, the search for a title that may be on the next line and the step back
\* when there is none agree with it.
DefinitionsAsSpecified ==
  LET n == Longest(Specified, content)
      read == parse_reference_inline(content).len
      Continued == \E i \in DOMAIN content : content[i] = "\\" /\ Peek(content, i + 1) \in {"\n", "\r"}
  IN  /\ stage = "definitions" /\ content # <<>> /\ content[1] = "["
      /\ Last(content) = "\n" /\ ~Continued
      => read = n

\* A label stands for the first definition of it in the document
FirstOfLabelKept ==
  stage = "links" =>
    /\ \A k \in DOMAIN found :
         LET same == {i \in DOMAIN found : found[i].label = found[k].label}
         IN  \E j \in DOMAIN refmap : refmap[j] = found[Min(same)]
    /\ \A i, j \in DOMAIN refmap : refmap[i].label = refmap[j].label => i = j

\* The budget never goes below zero, and a document that uses each of its definitions
\* once, whatever they are, stays within it: only repeated use leaves a link unresolved
EachOnceFits ==
  /\ 0 <= refSize /\ refSize <= max_ref_size
  /\ refSize = FoldLeft(LAMBDA n, u : IF u.resolved THEN n + u.size ELSE n, 0, looked)
  /\ (Len(whole) <= MaxRefSize /\ \A i, j \in DOMAIN looked : looked[i].label = looked[j].label => i = j)
       => \A i \in DOMAIN looked : looked[i].resolved

\* A label stands for the first definition of it, and what it stands for is given out
\* as long as the document is large enough
LookupsExact == FirstOfLabelKept /\ EachOnceFits
===============================================================================
