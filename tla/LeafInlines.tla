----------------------------- MODULE LeafInlines ------------------------------
\* Subject::parse_inline over the bytes of one block: the inlines that hold no
\* others.  Each handler reads from `pos', leaves an inline and moves on; what it
\* learns of the rest of the text (runs of backticks, raw HTML that never ends) it
\* keeps, so that a later handler need not look again.  Delimiter runs and
\* brackets are one leaf each here: Inlines has what becomes of them.
EXTENDS Autolinks

CONSTANTS
  MaxTicks,    \* MAXBACKTICKS: longer runs of backticks open nothing
  Offsets,     \* what was taken off the front of each line of the block
  Entities     \* the names entity::unescape knows

ASSUME MaxTicksAssumption == MaxTicks \in Nat \ {0}
ASSUME OffsetsAssumption == Offsets \in Seq(Nat)

VARIABLES
  text,           \* the block's bytes
  options,        \* the names of the options that are on
  pos,            \* scanner.pos, the next byte; the first is 1
  line,           \* the line of `pos', from the block's first
  columnOffset,
  backticks,      \* where a run of each length was last seen; 0 for never
  scanned,        \* scanned_for_backticks: a search has reached the end of the text
  flags,          \* HtmlSkipFlags: the kinds of raw HTML not looked for any more
  deadZone,       \* relaxed_autolink_dead_zone_end: no address begins before it
  leaves          \* the inlines so far, in order

leafVars == <<text, options, pos, line, columnOffset, backticks, scanned, flags, deadZone, leaves>>

Kinds == {"comment", "cdata", "declaration", "pi"}

Start(bytes, opts) ==
  /\ text = bytes /\ options = opts
  /\ pos = 1 /\ line = 1 /\ columnOffset = 0
  /\ backticks = [n \in 1..MaxTicks |-> 0] /\ scanned = FALSE
  /\ flags = {} /\ deadZone = 0 /\ leaves = <<>>

-------------------------------------------------------------------------------
(* The bytes.                                                                   *)

On(o) == o \in options
Slice(i, j) == SubSeq(text, i, j)
Rest(i) == From(text, i)
At(i) == Peek(text, i)

\* The bytes from i on that are all c
RunLen(i, c) == Min({n \in 0..Len(text) : At(i + n) # c})
\* Where the runs of c at or after i begin
RunStarts(i, c) == {j \in i..Len(text) : text[j] = c /\ (j = i \/ text[j - 1] # c)}

FirstOf(S) == IF S = {} THEN 0 ELSE Min(S)
SkipBlanks(i) == Min({j \in i..Len(text) + 1 : At(j) \notin Blank})
LineEndAt(i) == IF Has(text, i, "\r\n") THEN i + 2 ELSE IF At(i) \in {"\r", "\n"} THEN i + 1 ELSE i

\* strings::count_newlines
LineEnds(i, j) == {k \in i..j : text[k] = "\n" \/ (text[k] = "\r" /\ ~(k < j /\ text[k + 1] = "\n"))}
SinceNewline(i, j) == IF LineEnds(i, j) = {} THEN j - i + 1 ELSE j - Max(LineEnds(i, j))

-------------------------------------------------------------------------------
(* Leaving an inline.                                                           *)

\* make_inline: where it begins and ends, in bytes and in the source
Inline(kind, i, j) ==
  [kind |-> kind, from |-> i, to |-> j,
   at |-> <<line, i + columnOffset + Offsets[line]>>,
   till |-> <<line, j + columnOffset + Offsets[line]>>]

Leave(leaf) == leaves' = Append(leaves, leaf)
KeepLine == UNCHANGED <<line, columnOffset>>
KeepCaches == UNCHANGED <<backticks, scanned, flags, deadZone>>
KeepInput == UNCHANGED <<text, options>>

\* A leaf that stays on its line
LeaveShort(kind, i, j) == Leave(Inline(kind, i, j)) /\ pos' = j + 1 /\ KeepLine

\* Broken: the fence is not counted into the last line's columns
LeaveLongFenceless(kind, i, j, extra) ==
  LET n == Cardinality(LineEnds(i, j - extra))
      since == SinceNewline(i, j - extra)
  IN  /\ pos' = j + 1
      /\ IF n = 0 THEN Leave(Inline(kind, i, j)) /\ KeepLine
         ELSE /\ Leave([Inline(kind, i, j) EXCEPT !.till = <<line + n, Offsets[line + n] + since>>])
              /\ line' = line + n
              /\ columnOffset' = since - j

\* adjust_node_newlines: the leaf from i to j may cross lines; its last `extra'
\* bytes are a fence and do not
LeaveLong(kind, i, j, extra) ==
  LET n == Cardinality(LineEnds(i, j - extra))
      since == SinceNewline(i, j - extra) + extra
  IN  /\ pos' = j + 1
      /\ IF n = 0 THEN Leave(Inline(kind, i, j)) /\ KeepLine
         ELSE /\ Leave([Inline(kind, i, j) EXCEPT !.till = <<line + n, Offsets[line + n] + since>>])
              /\ line' = line + n
              /\ columnOffset' = since - j

NextLine(q) == line' = line + 1 /\ columnOffset' = 1 - q /\ pos' = SkipBlanks(q)

-------------------------------------------------------------------------------
(* Line ends and escapes.                                                       *)

Sees(c) == pos <= Len(text) /\ text[pos] = c /\ KeepInput

handle_newline ==
  /\ \E c \in {"\r", "\n"} : Sees(c)
  /\ LET q == LineEndAt(pos)
         hard == pos > 2 /\ Slice(pos - 2, pos - 1) = <<" ", " ">>
     IN  /\ Leave(IF hard THEN Inline("linebreak", pos - 2, q - 1) ELSE Inline("softbreak", pos, q - 1))
         /\ NextLine(q)
  /\ KeepCaches

\* Where "\)" or "\]" begins; the formula may not be empty
LatexEnd ==
  LET close == IF At(pos + 1) = "(" THEN ")" ELSE "]"
      e == FirstOf({i \in (pos + 2)..Len(text) : text[i] = "\\" /\ At(i + 1) = close})
  IN  IF On("math_latex") /\ At(pos + 1) \in {"(", "["} /\ e > pos + 2 THEN e ELSE 0

handle_backslash ==
  /\ Sees("\\")
  /\ \E e \in {LatexEnd}, c \in {At(pos + 1)} :
       \/ e # 0 /\ LeaveLong("math", pos, e + 1, 2)
       \/ e = 0 /\ c \in Punct /\ LeaveShort("escaped", pos, pos + 1)
       \/ /\ e = 0 /\ c \in {"\r", "\n"}
          /\ Leave(Inline("linebreak", pos, LineEndAt(pos + 1) - 1)) /\ NextLine(LineEndAt(pos + 1))
       \/ e = 0 /\ c \notin Punct \cup {"\r", "\n"} /\ LeaveShort("text", pos, pos)
  /\ KeepCaches

\* entity::unescape: the bytes of the entity whose "&" is before i, its ";" included
EntityLen(i) ==
  LET Numeric(r, most) == Longest(Then(<<r, Times(1, most, In(Digit)), Word(";")>>), Rest(i))
      Hex == Longest(Then(<<Word("#x"), Times(1, 6, In(Digit \cup CharSet("abcdefABCDEF"))), Word(";")>>), Rest(i))
      Named == {w \in Entities : Has(text, i, w)}
  IN  Max({Numeric(Word("#"), 7), Hex} \cup {Len(w) : w \in Named})

handle_entity ==
  /\ Sees("&")
  /\ \E n \in {EntityLen(pos + 1)} :
       IF n = None THEN LeaveShort("text", pos, pos) ELSE LeaveShort("entity", pos, pos + n)
  /\ KeepCaches

-------------------------------------------------------------------------------
(* Code and formulas between fences.                                            *)

\* Where the run of `n' backticks that closes a code span begins, for a search from
\* i; 0 if there is none
ClosingTicks(n, i) == FirstOf({j \in RunStarts(i, Tick) : RunLen(j, Tick) = n})

\* scan_to_closing_backtick does not search when a search that reached the end
\* has seen the last run of that length before here
Searches(n, i) == n <= MaxTicks /\ ~(scanned /\ backticks[n] <= i)

\* The runs a search from i passes, up to the one it ends at, and the last of each length
Seen(n, i, j) == {k \in RunStarts(i, Tick) : j = 0 \/ k <= j}
\* Broken: the first run of each length is remembered
RememberedFirst(n, i, j) ==
  [m \in 1..MaxTicks |->
     LET Of == {k \in Seen(n, i, j) : RunLen(k, Tick) = m} IN IF Of = {} THEN backticks[m] ELSE Min(Of)]

Remembered(n, i, j) ==
  [m \in 1..MaxTicks |->
     LET Of == {k \in Seen(n, i, j) : RunLen(k, Tick) = m} IN IF Of = {} THEN backticks[m] ELSE Max(Of)]

\* The n backticks before i, whose closing run a search has found at j; 0 if it has not
Ticked(n, i, searches, j) ==
  /\ IF j = 0 THEN LeaveShort("ticks", pos, i - 1) ELSE LeaveLong("code", pos, j + n - 1, n)
  /\ backticks' = IF searches THEN Remembered(n, i, j) ELSE backticks
  /\ scanned' = (scanned \/ (searches /\ j = 0))

handle_backticks ==
  /\ Sees(Tick)
  /\ \E n \in {RunLen(pos, Tick)} : \E searches \in {Searches(n, pos + n)} :
       \E j \in {IF searches THEN ClosingTicks(n, pos + n) ELSE 0} : Ticked(n, pos + n, searches, j)
  /\ UNCHANGED <<flags, deadZone>>

\* scan_to_closing_dollar: the place after the dollars that close those before i; 0 if none.
\* After one dollar no space, before the last neither a space nor a backslash, nor a digit after
RECURSIVE ClosingDollars(_, _)
ClosingDollars(n, i) ==
  LET d == FirstOf({j \in i..Len(text) : text[j] = "$"})
      k == Min({n, RunLen(d, "$")})
  IN  IF d = 0 THEN 0
      ELSE IF n = 1 /\ text[d - 1] \in SpaceChar THEN 0
      ELSE IF n = 1 /\ text[d - 1] = "\\" THEN ClosingDollars(n, d + 1)
      ELSE IF n = 1 /\ At(d + 1) \in Digit THEN 0
      ELSE IF k = n THEN d + k
      ELSE ClosingDollars(n, d + k)

DollarsEnd(n) ==
  IF ~On("math_dollars") \/ n > 2 \/ (n = 1 /\ At(pos + 1) \in SpaceChar) THEN 0
  ELSE ClosingDollars(n, pos + n)

\* scan_to_closing_code_dollar
CodeDollarEnd ==
  LET d == FirstOf({j \in (pos + 2)..Len(text) : text[j] = "$" /\ text[j - 1] = Tick})
  IN  IF d = 0 THEN 0 ELSE d + 1

\* A formula from `pos' to before e, its fences not counted in; or nothing but its dollars
Formula(fence, dollars, e) ==
  IF e # 0 /\ e - pos >= fence * 2 + 1 THEN LeaveLong("math", pos, e - 1, fence)
  ELSE LeaveShort("text", pos, pos + dollars - 1)

handle_dollars ==
  /\ Sees("$")
  /\ \E n \in {RunLen(pos, "$")} :
       IF ~On("math_dollars") /\ ~On("math_code") THEN LeaveShort("text", pos, pos)
       ELSE IF n = 1 /\ On("math_code") /\ At(pos + 1) = Tick THEN Formula(2, 1, CodeDollarEnd)
       ELSE \E e \in {DollarsEnd(n)} : Formula(n, n, e)
  /\ KeepCaches

-------------------------------------------------------------------------------
(* Raw HTML and what else is between angle brackets.                            *)

\* strings::find_matching_brace: after the brace that closes those open at i
RECURSIVE find_matching_brace(_, _, _)
find_matching_brace(s, i, depth) ==
  IF i > Len(s) THEN None
  ELSE IF s[i] \in {"\"", "'"} THEN find_matching_brace(s, skip_quoted_string(s, i + 1, s[i]), depth)
  ELSE IF s[i] = "}" /\ depth = 1 THEN i
  ELSE find_matching_brace(s, i + 1, CASE s[i] = "{" -> depth + 1 [] s[i] = "}" -> depth - 1 [] OTHER -> depth)

phoenix_inline_expression(s) == IF Has(s, 1, "{") THEN find_matching_brace(s, 2, 1) ELSE None

RECURSIVE TagEnd(_, _)
TagEnd(s, i) ==
  IF i > Len(s) THEN None
  ELSE IF Has(s, i, "/>") THEN i + 1
  ELSE IF s[i] = ">" THEN i
  ELSE IF s[i] \in {"\"", "'"} THEN TagEnd(s, skip_quoted_string(s, i + 1, s[i]))
  ELSE IF s[i] = "{" THEN IF find_matching_brace(s, i + 1, 1) = None THEN None
                          ELSE TagEnd(s, find_matching_brace(s, i + 1, 1) + 1)
  ELSE TagEnd(s, i + 1)

phoenix_inline_tag(s) == IF phoenix_opening_tag(s) = None THEN None ELSE TagEnd(s, 2 + phoenix_opening_tag(s))

FirstMatch(tries) ==
  LET Hits == SelectSeq(tries, LAMBDA n : n # None) IN IF Hits = <<>> THEN None ELSE Head(Hits)

Heex(i) ==
  IF ~On("phoenix_heex") THEN None
  ELSE FirstMatch(<<phoenix_directive(Rest(i)), phoenix_inline_tag(Rest(i)), phoenix_closing_tag(Rest(i))>>)

Autolink(i) == Max({autolink_uri(Rest(i)), autolink_email(Rest(i))})

\* The raw HTML whose "<" is before i: the bytes that follow the "<", or None with the
\* kind that is not looked for again
Found(n) == [len |-> n, give_up |-> {}]
GiveUp(kind) == [len |-> None, give_up |-> {kind}]
Nothing == [len |-> None, give_up |-> {}]

\* A scan that ends without the end of its kind has reached the end of the text
UpTo(n, i, kind) == IF i + n > Len(text) + 1 THEN GiveUp(kind) ELSE Found(n)

Comment(i, m) ==
  IF At(i + 3) = ">" THEN Found(4)
  ELSE IF At(i + 3) = "-" /\ At(i + 4) = ">" THEN Found(5)
  ELSE IF m # None THEN Found(m + 1)
  ELSE GiveUp("comment")

\* A section of the kind, if it is still looked for: m bytes and `more'
Section(i, kind, skip, m, more) ==
  IF kind \in skip \/ m = None THEN Nothing ELSE UpTo(m + more, i, kind)

RawHtml(i, skip) ==
  IF i + 1 > Len(text) \/ (At(i) = "!" /\ "comment" \in skip) THEN Nothing
  ELSE IF Has(text, i, "!--") THEN Comment(i, html_comment(Rest(i + 1)))
  ELSE IF Has(text, i, "![")
    THEN Section(i, "cdata", skip, IF i + 2 > Len(text) THEN None ELSE html_cdata(Rest(i + 2)), 5)
  ELSE IF At(i) = "!" THEN Section(i, "declaration", skip, html_declaration(Rest(i + 1)), 2)
  ELSE IF At(i) = "?"
    THEN Section(i, "pi", skip, Max({0, html_processing_instruction(Rest(i + 1))}), 3)
  ELSE Section(i, "tag", {}, html_tag(Rest(i)), 0)

\* What begins with "<" is HEEx, an address or raw HTML, in that order
Angled(heex, link, html) ==
  \/ /\ heex # None
     /\ LeaveLong("heex", pos, pos + heex - 1, 0) /\ UNCHANGED flags
  \/ /\ heex = None /\ link # None
     /\ LeaveShort("autolink", pos, pos + link + 1) /\ UNCHANGED flags
  \/ /\ heex = None /\ link = None /\ html.len # None
     /\ LeaveLong("html", pos, pos + html.len, 1) /\ UNCHANGED flags
  \/ /\ heex = None /\ link = None /\ html.len = None
     /\ LeaveShort("text", pos, pos) /\ flags' = flags \cup html.give_up

handle_pointy_brace ==
  /\ Sees("<")
  /\ IF On("smart") /\ At(pos + 1) = "<"
     THEN LeaveShort("quote", pos, pos + 1) /\ UNCHANGED flags
     ELSE \E heex \in {Heex(pos)}, link \in {Autolink(pos + 1)}, html \in {RawHtml(pos + 1, flags)} :
            Angled(heex, link, html)
  /\ UNCHANGED <<backticks, scanned, deadZone>>

handle_heex_inline_expression ==
  /\ Sees("{") /\ On("phoenix_heex")
  /\ \E n \in {phoenix_inline_expression(Rest(pos))} :
       IF n = None THEN LeaveShort("text", pos, pos) ELSE LeaveLong("heex", pos, pos + n - 1, 0)
  /\ KeepCaches

-------------------------------------------------------------------------------
(* Punctuation.                                                                 *)

\* Two hyphens or more become dashes
handle_hyphen ==
  /\ Sees("-") /\ KeepCaches
  /\ LET n == RunLen(pos, "-")
     IN  IF On("smart") /\ n > 1 THEN LeaveShort("dash", pos, pos + n - 1) ELSE LeaveShort("text", pos, pos)

handle_period ==
  /\ Sees(".") /\ KeepCaches
  /\ LET n == Min({3, RunLen(pos, ".")})
     IN  IF ~On("smart") \/ n = 1 THEN LeaveShort("text", pos, pos)
         ELSE LeaveShort(IF n = 3 THEN "ellipsis" ELSE "text", pos, pos + n - 1)

handle_guillemet_close ==
  /\ Sees(">") /\ On("smart") /\ KeepCaches
  /\ IF At(pos + 1) = ">" THEN LeaveShort("quote", pos, pos + 1) ELSE LeaveShort("text", pos, pos)

\* A comment between "%%" on one line, of any length
handle_ofm_comment ==
  /\ Sees("%") /\ On("ofm_comments") /\ KeepCaches
  /\ LET Stops == {i \in (pos + 2)..(Len(text) - 1) : text[i] \in {"\r", "\n"} \/ Has(text, i, "%%")}
         found == At(pos + 1) = "%" /\ Stops # {} /\ text[Min(Stops)] = "%"
     IN  IF found THEN LeaveShort("ofm comment", pos, Min(Stops) + 1)
         ELSE LeaveShort("text", pos, pos)

-------------------------------------------------------------------------------
(* Brackets, delimiters and plain text.                                         *)

\* wikilink_component: from the "[" or "|" at i up to the next bracket or bar
RECURSIVE ComponentEnd(_)
ComponentEnd(i) ==
  IF At(i) \in {"[", "]", "|", End} THEN i
  ELSE IF text[i] = "\\" /\ At(i + 1) \in Punct THEN ComponentEnd(i + 2)
  ELSE ComponentEnd(i + 1)

\* The last byte of [[url]] or [[url|label]], whose second bracket is at i and whose
\* components end before `left' and `right'; 0 if it is neither
LabelledEnd(left, right) ==
  IF At(left) = "|" /\ Has(text, right, "]]") THEN right + 1 ELSE 0
WikilinkEndFrom(left) ==
  IF Has(text, left, "]]") THEN left + 1 ELSE LabelledEnd(left, ComponentEnd(left + 1))
WikilinkEnd(i) == WikilinkEndFrom(ComponentEnd(i + 1))

OpenBrackets ==
  LET Number(kind) == Cardinality({k \in DOMAIN leaves : leaves[k].kind = kind})
  IN  Number("[") - Number("]")

\* A wiki link only outside brackets; what crosses lines in it does not count as lines
Wikilink(i) ==
  IF On("wikilinks") /\ OpenBrackets = 0 /\ At(i) = "[" /\ At(i + 1) = "[" THEN WikilinkEnd(i + 1) ELSE 0

open_bracket ==
  /\ Sees("[") /\ KeepCaches
  /\ \E e \in {Wikilink(pos)} :
       IF e # 0 THEN LeaveShort("wikilink", pos, e) ELSE LeaveShort("[", pos, pos)

\* Without a definition or a destination a closing bracket pairs nothing
close_bracket ==
  /\ Sees("]") /\ KeepCaches
  /\ LeaveShort(IF OpenBrackets > 0 THEN "]" ELSE "text", pos, pos)

exclamation ==
  /\ Sees("!") /\ KeepCaches
  /\ \E e \in {Wikilink(pos + 1)} :
       IF e # 0 THEN LeaveShort("wikilink", pos, e)
       ELSE IF At(pos + 1) = "[" /\ At(pos + 2) # "^" THEN LeaveShort("[", pos, pos + 1)
       ELSE LeaveShort("text", pos, pos)

\* scan_delims: quotes one at a time
handle_delim ==
  /\ \E c \in CharSet("*_'\"") : Sees(c)
  /\ LeaveShort("delims", pos, IF text[pos] \in {"'", "\""} THEN pos ELSE pos + RunLen(pos, text[pos]) - 1)
  /\ KeepCaches

\* ByteTables::new
Special ==
  {"\n", "\r", Tick} \cup CharSet("_*\"\\&<[]!")
  \cup (IF On("math_dollars") \/ On("math_code") THEN {"$"} ELSE {})
  \cup (IF On("smart") THEN CharSet("\"'.->") ELSE {})
  \cup (IF On("ofm_comments") THEN {"%"} ELSE {})
  \cup (IF On("phoenix_heex") THEN {"{", "<"} ELSE {})

\* is_special_char_at
Stops(i) ==
  \/ At(i) \in Special \cup {End}
  \/ On("autolink") /\ (Has(text, i, "://") \/ Has(text, i, "www."))

find_special_char == Min({i \in pos..Len(text) + 1 : Stops(i)})

\* The bytes parse_inline has a case for, special or not
Cases ==
  {"\n", "\r", Tick} \cup CharSet("*_'\"\\&<[]!-.:$") \cup {"{"}
  \cup (IF On("smart") THEN {">"} ELSE {}) \cup (IF On("ofm_comments") THEN {"%"} ELSE {})
  \cup (IF On("autolink") THEN {"w"} ELSE {})

\* A brace that begins nothing
brace ==
  /\ Sees("{") /\ ~On("phoenix_heex")
  /\ LeaveShort("text", pos, pos) /\ KeepCaches

\* The leaves without their last n bytes, which only texts may hold
Panic == <<[kind |-> "panic", from |-> pos, to |-> 0]>>
RECURSIVE Rewound(_, _)
Rewound(ls, n) ==
  IF n = 0 THEN ls
  ELSE IF ls = <<>> THEN Panic
  ELSE IF Last(ls).kind # "text" THEN Panic
  ELSE IF n < Last(ls).to - Last(ls).from + 1
    THEN [ls EXCEPT ![Len(ls)].to = @ - n, ![Len(ls)].till[2] = @ - n]
  ELSE Rewound(Front(ls), n - (Last(ls).to - Last(ls).from + 1))

AddressHere(relaxed) ==
  IF (OpenBrackets > 0 /\ ~relaxed) \/ pos < deadZone THEN NoAddress
  ELSE IF text[pos] = "w" THEN www_match(text, pos, relaxed)
  ELSE url_match(text, pos, relaxed)

\* An address begins here, or with letters that are in the texts before
handle_autolink_with ==
  /\ On("autolink")
  /\ \E c \in {":", "w"} : Sees(c)
  /\ \E a \in {AddressHere(On("relaxed_autolinks"))} :
       IF a.to = 0
       THEN LeaveShort("text", pos, pos) /\ deadZone' = IF a.dead = 0 THEN deadZone ELSE a.dead
       ELSE /\ leaves' = Append(Rewound(leaves, pos - a.from), Inline("address", a.from, a.to))
            /\ pos' = a.to + 1 /\ KeepLine
            /\ UNCHANGED deadZone
  /\ UNCHANGED <<backticks, scanned, flags>>

colon == Sees(":") /\ ~On("autolink") /\ LeaveShort("text", pos, pos) /\ KeepCaches

\* Up to the next special byte; spaces before a line end are dropped, and with them
\* a text that has nothing else
TextUpTo(i) ==
  IF At(i) \in {"\r", "\n"} THEN Max({pos - 1} \cup {j \in pos..i - 1 : text[j] \notin SpaceChar})
  ELSE i - 1

plain_text ==
  /\ \E c \in {text[i] : i \in DOMAIN text} \ Cases : Sees(c)
  /\ \E i \in {find_special_char} : \E last \in {TextUpTo(i)} :
       /\ leaves' = IF last < pos THEN leaves ELSE Append(leaves, Inline("text", pos, last))
       /\ pos' = i
  /\ KeepLine /\ KeepCaches

parse_inline ==
  \/ handle_newline \/ handle_backticks \/ handle_backslash \/ handle_entity \/ handle_pointy_brace
  \/ handle_heex_inline_expression \/ handle_hyphen \/ handle_period \/ handle_guillemet_close
  \/ handle_ofm_comment \/ handle_dollars \/ open_bracket \/ close_bracket \/ exclamation
  \/ handle_delim \/ brace \/ handle_autolink_with \/ colon \/ plain_text

-------------------------------------------------------------------------------
(* What the leaves have to be.                                                  *)

\* Every byte read is in one leaf, the leaves are in the order of the text, and the
\* only bytes in none are spaces beside a line end: no handler goes back too far or
\* not far enough when what it looked for is not there
LeavesTile ==
  LET Held == UNION {leaves[k].from..leaves[k].to : k \in DOMAIN leaves}
      AtLineEnd(i) == \E j \in DOMAIN text :
        /\ text[j] \in {"\r", "\n"}
        /\ \A m \in (Min({i, j})..Max({i, j})) \ {j} : text[m] \in SpaceChar
  IN  /\ \A k \in DOMAIN leaves : leaves[k].from <= leaves[k].to /\ leaves[k].to < pos
      /\ \A k \in 1..Len(leaves) - 1 : leaves[k].to < leaves[k + 1].from
      /\ \A i \in (1..pos - 1) \ Held : text[i] \in SpaceChar /\ AtLineEnd(i)

\* Where the i-th byte is in the source
Place(i) ==
  LET n == Cardinality(LineEnds(1, i - 1))
  IN  <<1 + n, Offsets[1 + n] + (IF n = 0 THEN i ELSE i - Max(LineEnds(1, i - 1)))>>

CrossesLines(leaf) == LineEnds(leaf.from, leaf.to) # {}

\* A leaf's source position is that of its first and last byte, also after code,
\* formulas and raw HTML that cross lines: the line and the column offset each handler
\* leaves are those the next one needs.  Not so after a wiki link that crosses lines:
\* its handler does not count them
SourceposExact ==
  \A k \in DOMAIN leaves :
    \/ /\ leaves[k].at = Place(leaves[k].from)
       /\ leaves[k].kind \in {"softbreak", "linebreak"} \/ leaves[k].till = Place(leaves[k].to)
    \/ \E j \in 1..k : leaves[j].kind = "wikilink" /\ CrossesLines(leaves[j])

\* The leaves are the block's bytes, each where it says it is in the source
LeavesAreTheirSource == LeavesTile /\ SourceposExact

\* From the "<" at i on there is raw HTML, which a flag of this kind hides
Hides(kind, i) == text[i] = "<" /\ RawHtml(i + 1, flags).len # RawHtml(i + 1, flags \ {kind}).len
HtmlEnd(i) == i + RawHtml(i + 1, {}).len

\* Once declarations or CDATA sections are not looked for any more there is none in the
\* rest of the text.  Not so for the other two kinds: once comments are not looked for,
\* nothing that begins with "<!" is, so declarations and CDATA sections are hidden too,
\* but no comment; and once processing instructions are not looked for, one that ends in
\* "??>" is hidden, for the scan that reached the end of the text took the second "?"
\* for the byte after the first
FlagsExact ==
  \A kind \in flags, i \in pos..Len(text) :
    Hides(kind, i) => \/ kind = "comment" /\ Has(text, i, "<!") /\ ~Has(text, i, "<!--")
                      \/ kind = "pi" /\ Has(text, HtmlEnd(i) - 2, "??>")

\* A run of backticks opens a span
Opens(leaf) == ClosingTicks(leaf.to - leaf.from + 1, leaf.to + 1) # 0 /\ leaf.to - leaf.from < MaxTicks

\* A code span ends at the first run as long as the one it begins with; and a run that
\* could have opened one is left as text only if a run of its length was passed, after a
\* search had failed, inside an earlier span
SpansExact ==
  \A k \in DOMAIN leaves :
    LET n == RunLen(leaves[k].from, Tick)
    IN  /\ leaves[k].kind = "code"
           => ClosingTicks(n, leaves[k].from + n) = leaves[k].to - n + 1
        /\ leaves[k].kind = "ticks" /\ Opens(leaves[k])
           => \E j \in 1..k - 1 :
                /\ leaves[j].kind = "code" /\ \E i \in 1..j - 1 : leaves[i].kind = "ticks"
                /\ \E i \in RunStarts(leaves[j].from, Tick) : i < leaves[j].to /\ RunLen(i, Tick) = n

\* What handlers remember of the text only saves looking again, but for what FlagsExact
\* and SpansExact leave out: declarations and CDATA sections after a comment that never
\* ends, processing instructions that end in "??>" after one that never ends, and code
\* spans a run of whose length an earlier span holds.  HtmlSkipFlags, backticks and
\* scanned_for_backticks hide nothing else
CachesSaveWork == FlagsExact /\ SpansExact

\* CommonMark 6.1, with which the parser complies: a run of backticks that another of
\* its length follows opens a code span
NoSpanLost == \A k \in DOMAIN leaves : leaves[k].kind = "ticks" => ~Opens(leaves[k])
===============================================================================
