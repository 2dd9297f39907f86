----------------------------- MODULE BlobWriter -----------------------------
(***************************************************************************)
(* The blob writer: one walk over the tree writes the words of a document  *)
(* and, as nodes close, records that say where their words lie, counted in *)
(* UTF-16 units.  Newlines are owed until words follow.  In a document of  *)
(* ASCII the units are first taken to be the bytes, and the walk is done   *)
(* again when the words turn out to hold something else.                   *)
(*                                                                         *)
(* Words are sequences of glyphs, each with its width in bytes and units;  *)
(* addresses and cells are one entry of the url data each.                 *)
(***************************************************************************)
EXTENDS DocTree

CONSTANTS
  Bullet,        \* what a bullet's item has for a number; ordered items stay below it
  MaxUrlOffset   \* how many entries of the url data a link's record can address

VARIABLES
  writer,     \* the BlobWriter
  held,       \* the walk's open containers
  at,         \* where the walk is: [phase, node, parent, after, root]
  notes,      \* footnotes begun
  blob        \* [text, spans, ascii] once it is whole
blobVars == <<doc, writer, held, at, notes, blob>>

ASSUME BulletAssumption == Bullet \in Nat \ {0}
ASSUME MaxUrlOffsetAssumption == MaxUrlOffset \in Nat \ {0}

\* A glyph, the words of a text, a level, a first number, what an address is: what n's kind wants
Says(n) == doc.says[n]
Reader == doc.site = "reader"

-----------------------------------------------------------------------------
\* Glyphs: bytes and UTF-16 units; all others are one of each
Wide == [accent |-> <<2, 1>>, entity |-> <<2, 1>>, symbol |-> <<2, 1>>, nbsp |-> <<2, 1>>,
         curly |-> <<3, 1>>, emoji |-> <<4, 2>>]
Codes == [code |-> <<3, 3>>]      \* "(c)"
Bytes(g) == IF g \in DOMAIN Wide THEN Wide[g][1] ELSE IF g \in DOMAIN Codes THEN Codes[g][1] ELSE 1
Units(g) == IF g \in DOMAIN Wide THEN Wide[g][2] ELSE IF g \in DOMAIN Codes THEN Codes[g][2] ELSE 1
byte_len(gs) == FoldLeft(LAMBDA sum, g : sum + Bytes(g), 0, gs)
utf16_len(gs) == FoldLeft(LAMBDA sum, g : sum + Units(g), 0, gs)
is_ascii(gs) == \A i \in DOMAIN gs : gs[i] \notin DOMAIN Wide

\* The input is ASCII if what it is typed in is: entities and symbols are not typed
AsciiInput == \A n \in DocNodes : Kind(n) \in {"Text", "Code", "CodeBlock"} =>
                \A i \in DOMAIN Says(n) : Says(n)[i] \notin {"accent", "nbsp", "curly", "emoji"}

collapse_whitespace(gs) ==
  FoldLeft(LAMBDA kept, g : IF g = "space" /\ kept # <<>> /\ Last(kept) = "space"
                            THEN kept ELSE Append(kept, g), <<>>, gs)

prefer_ascii(gs) ==
  LET plain == [curly |-> "quote", nbsp |-> "space"]
  IN [i \in DOMAIN gs |-> IF gs[i] \in DOMAIN plain THEN plain[gs[i]] ELSE gs[i]]

typographic_symbols(gs) == [i \in DOMAIN gs |-> IF gs[i] = "code" THEN "symbol" ELSE gs[i]]

-----------------------------------------------------------------------------
\* BlobWriter: every operator takes the writer and returns what becomes of it
None == -1

New(fast) ==
  [text |-> <<>>, len |-> 0, p |-> 0, spans |-> <<>>, url_data |-> <<>>,
   all_ascii |-> TRUE, fast_path_ascii |-> fast, list_depth |-> 0, quote_depth |-> 0,
   tile |-> IF Reader THEN 0 ELSE None, tile_kind |-> 0, tile_spans |-> 0]

pos(w) == w.len + w.p
Glyphs(w) == [i \in DOMAIN w.text |-> w.text[i].glyph]
byte(w) == IF w.tile # None THEN byte_len(Glyphs(w)) + w.p ELSE 0
nl(w, n) == [w EXCEPT !.p = IF @ < n THEN n ELSE @]

\* A record of node n over what was written since start
span_data(w, t, start, data, n) ==
  IF start < w.len
  THEN [w EXCEPT !.spans = Append(@, [start |-> start, end |-> w.len, type |-> t, data |-> data, of |-> n])]
  ELSE w
span(w, t, start, n) == span_data(w, t, start, 0, n)

\* span_picture and span_table: a record with an entry of its own in the url data
span_entry(w, t, start, n) ==
  IF start >= w.len THEN w
  ELSE [span_data(w, t, start, Len(w.url_data), n) EXCEPT !.url_data = Append(@, n)]

\* A link whose entry its record could not address has neither: its words stay words
span_url(w, t, start, n) ==
  IF Len(w.url_data) >= MaxUrlOffset THEN w ELSE span_entry(w, t, start, n)

\* reader_block: what a tile's lines are, a heading's with its level
PARAGRAPH == 0
HEADING(level) == 1 + 256 * level
QUOTE == 2
GAP == 3
LIST == 4
KEEP == 5
PICTURE == 6
TITLE == 7

HEADINGS == <<"HEADING_1", "HEADING_2", "HEADING_3", "HEADING_4", "HEADING_5", "HEADING_6">>
Level(t) == CHOOSE l \in DOMAIN HEADINGS : HEADINGS[l] = t

\* What the run that starts where the record does is, as far as the record says so
RunKind(t, otherwise) ==
  CASE t \in ToSet(HEADINGS) -> HEADING(Level(t))
    [] t \in {"CODE_BLOCK", "HRULE"} -> KEEP
    [] t = "IMAGE" -> PICTURE
    [] OTHER -> otherwise

close_tile(w) ==
  IF w.tile = None THEN w
  ELSE LET since == SubSeq(w.spans, w.tile_spans + 1, Len(w.spans))
           kind == FoldLeft(LAMBDA k, s : IF s.start = w.tile THEN RunKind(s.type, k) ELSE k,
                            w.tile_kind, since)
       IN span_data(w, "READER_BLOCK", w.tile, kind, 0)

\* The newlines that are owed, and between two blocks of a reader a tile over the last
Flush(w) ==
  LET closed == close_tile(w)
      broken == [closed EXCEPT !.text = @ \o [i \in 1..w.p |-> [glyph |-> "newline", of |-> 0]],
                               !.len = @ + w.p, !.p = 0]
      gap == IF w.p >= 2 THEN span_data(broken, "READER_BLOCK", broken.len - 1, GAP, 0) ELSE broken
  IN IF w.tile = None THEN broken ELSE [gap EXCEPT !.tile = gap.len]

\* A tile opens in the list or quote the walk is in
OpenTile(w) ==
  IF w.tile = None \/ w.tile # w.len THEN w
  ELSE [w EXCEPT !.tile_spans = Len(w.spans),
                 !.tile_kind = IF w.list_depth > 0 THEN LIST
                               ELSE IF w.quote_depth > 0 THEN QUOTE ELSE PARAGRAPH]

write_text(w, gs, n) ==
  IF gs = <<>> THEN w
  ELSE LET opened == OpenTile(IF w.p > 0 THEN Flush(w) ELSE w)
           counted == IF w.fast_path_ascii THEN byte_len(gs) ELSE utf16_len(gs)
       IN [opened EXCEPT !.text = @ \o [i \in DOMAIN gs |-> [glyph |-> gs[i], of |-> n]],
                         !.len = @ + counted,
                         !.all_ascii = @ /\ (w.fast_path_ascii \/ is_ascii(gs))]

at_line_start(w) == w.p > 0 \/ w.len = 0 \/ Last(w.text).glyph = "newline"

\* Whatever was counted (a mutant)
KeepsCountOf(w) == TRUE

\* Where a symbol ends the ASCII, what was counted so far need only be ASCII to be right
KeepsCount(w) == ~w.fast_path_ascii \/ is_ascii(Glyphs(w))

write_prose(w, typed, n) ==
  LET led == IF at_line_start(w) /\ typed # <<>> /\ Head(typed) = "space" THEN Tail(typed) ELSE typed
      s == prefer_ascii(led)
      sym == typographic_symbols(s)
  IN IF sym = s THEN write_text(w, s, n)
     ELSE write_text([w EXCEPT !.fast_path_ascii = @ /\ ~KeepsCount(w)], sym, n)

\* A picture on a line of its own
emit_image(w, n) ==
  LET gap == IF w.list_depth > 0 THEN 1 ELSE 2
      placed == IF w.len # 0 THEN nl(w, gap) ELSE w
  IN nl(span_entry(write_text(placed, <<"picture">>, n), "IMAGE", pos(placed), n), gap)

\* The address itself is named in the words if it was not before; from is where they begin
append_domain_suffix(w, from, n) ==
  IF \E i \in from + 1..Len(w.text) : w.text[i].glyph = "domain" THEN w
  ELSE write_text(write_text(write_text(w, <<"space", "(">>, Parent(n)), <<"domain">>, Parent(n)),
                  <<")">>, Parent(n))

link(w, start, from, n) ==
  LET named == span_url(w, IF Says(n) = "own" THEN "APP_LINK" ELSE "LINK", start, n)
      sized == IF Reader THEN named ELSE span(named, "LINK_SIZE", start, n)
  IN IF Says(n) \notin {"own", "internal"} /\ ~Reader THEN append_domain_suffix(sized, from, n) ELSE sized

-----------------------------------------------------------------------------
\* What is held of a container
Container(is, start, spans, gap) ==
  [is |-> is, start |-> start, spans |-> spans, gap |-> gap,
   number |-> 0, mark |-> <<>>, from |-> 0, byte |-> 0]

gap(top_level) == IF top_level THEN 2 ELSE 1

Styles == [Strong |-> <<"BOLD">>, Emph |-> <<"ITALIC">>, Strikethrough |-> <<"STRIKETHROUGH">>,
          Superscript |-> <<"SUPERSCRIPT", "SUPERSCRIPT_SIZE">>,
          Subscript |-> <<"SUBSCRIPT", "SUBSCRIPT_SIZE">>]

\* A paragraph of nothing but white space is one more blank line
Blank(n) == \A m \in ToSet(Kids(n)) : Kind(m) = "Text" /\ ToSet(Says(m)) \subseteq {"space", "nbsp"}
TopLevel(n) == Kind(Parent(n)) \notin {"BlockQuote", "Item", "TaskItem", "FootnoteDefinition"}

Only(n) == IF Len(Kids(n)) = 1 THEN Kids(n)[1] ELSE 0

\* In the reader a rule before a heading would stand beside the section's own
Dropped(n) == Reader /\ Kind(Parent(n)) = "Document" /\ After(n) # {}
              /\ Kind(CHOOSE m \in After(n) : \A k \in After(n) : m <= k) = "Heading"

Superscripted(w, gs, n) ==
  span(span(write_text(w, gs, n), "SUPERSCRIPT", pos(w), n), "SUPERSCRIPT_SIZE", pos(w), n)

\* The nodes that hold no container open: all that they write
Leaf(w, n) ==
  LET k == Kind(n) start == pos(w) IN
  CASE k = "Paragraph" -> IF w.len > 0 THEN [w EXCEPT !.p = @ + 2] ELSE w
    [] k = "CodeBlock" ->
         IF Says(n) = <<>> THEN w ELSE nl(span(write_text(w, Says(n), n), "CODE_BLOCK", start, n), 2)
    [] k = "Table" -> nl(span_entry(write_text(w, <<"View Table">>, n), "TABLE", start, n), 2)
    [] k = "ThematicBreak" ->
         LET placed == IF w.len # 0 THEN nl(w, IF w.list_depth > 0 THEN 1 ELSE 2) ELSE w
         IN IF Dropped(n) THEN w
            ELSE nl(span(write_text(placed, <<"rule">>, n), "HRULE", pos(placed), n), 2)
    [] k = "FootnoteReference" -> Superscripted(w, <<"digit">>, n)
    [] k = "FootnoteDefinition" -> w
    [] k = "Text" -> write_prose(w, collapse_whitespace(Says(n)), n)
    [] k = "ShortCode" -> write_text(w, <<"emoji">>, n)
    [] k = "Code" -> span(write_text(w, Says(n), n), "CODE", start, n)
    [] k = "HtmlInline" -> write_text(w, prefer_ascii(collapse_whitespace(<<"tag">>)), n)
    [] k = "HtmlBlock" -> nl(write_text(w, <<"tag">>, n), 2)
    [] k \in {"Image", "Link"} -> emit_image(w, n)
    [] k = "LineBreak" -> nl(w, 1)
    [] k = "SoftBreak" ->
         IF w.quote_depth > 0 THEN nl(w, 1)
         ELSE IF at_line_start(w) THEN w ELSE write_text(w, <<"space">>, n)

Leaves(n) ==
  \/ Kind(n) \in {"CodeBlock", "Table", "ThematicBreak", "FootnoteReference", "FootnoteDefinition", "Text",
                  "ShortCode", "Code", "HtmlInline", "HtmlBlock", "LineBreak", "SoftBreak"}
  \/ Kind(n) = "Paragraph" /\ TopLevel(n) /\ Blank(n)
  \/ Kind(n) = "Image" /\ Says(n) # "video"
  \/ Kind(n) = "Link" /\ Says(n) = "picture"

\* An item takes its list's next number; the list is the container above it
Numbered(n) == IF Kind(n) \in {"Item", "TaskItem"} /\ held # <<>> /\ Last(held).is = "List"
                  /\ Last(held).number >= 0
               THEN [held EXCEPT ![Len(held)].number = @ + 1] ELSE held

ItemData(n) ==
  LET indent == IF writer.list_depth = 0 THEN 0 ELSE writer.list_depth - 1
      packed == indent * (Bullet + 1)
      number == IF Numbered(n) = held THEN Bullet
                ELSE IF Last(held).number < Bullet THEN Last(held).number ELSE Bullet - 1
  IN IF Kind(n) = "TaskItem" THEN packed + (IF Says(n) THEN 1 ELSE 0) ELSE packed + number

\* What is opened for the others, on the writer as it is or after a spoiler's title
Opened(n) ==
  LET w == writer start == pos(writer) k == Kind(n) IN
  CASE k = "List" -> [Container("List", start, <<>>, gap(w.list_depth = 0)) EXCEPT !.number = Says(n)]
    [] k \in {"Item", "TaskItem"} ->
         [Container("Item", start, <<>>, 1)
            EXCEPT !.mark = <<IF k = "TaskItem" THEN "TASK_ITEM" ELSE "LIST_ITEM", ItemData(n)>>]
    [] k = "BlockQuote" -> Container("Quote", start, <<>>, gap(w.quote_depth = 0))
    [] k = "Paragraph" -> Container("Plain", start, <<>>, gap(TopLevel(n)))
    [] k = "Heading" -> [Container("Heading", start, <<>>, 2)
                           EXCEPT !.byte = byte(w), !.mark = <<HEADINGS[Says(n)]>>]
    [] k = "Image" \/ (k = "Link" /\ Kind(Only(n)) # "Image") ->
         [Container("Link", start, <<>>, 0) EXCEPT !.from = Len(w.text)]
    [] k \in DOMAIN Styles -> Container("Plain", start, Styles[k], 0)
    [] k = "LemmySpoiler" -> Container("Plain", start, <<"LEMMY_SPOILER_CONTENT">>, 2)
    [] OTHER -> Container("Plain", start, <<>>, 0)

Deeper(n) == [writer EXCEPT !.list_depth = @ + (IF Kind(n) = "List" THEN 1 ELSE 0),
                            !.quote_depth = @ + (IF Kind(n) = "BlockQuote" THEN 1 ELSE 0)]

\* A spoiler's title, a line of its own above what it hides
Titled(n) ==
  LET start == pos(writer)
      title == write_text(writer, <<"title">>, n)
  IN nl(span(span(span(title, "BOLD", start, n), "LINK_SIZE", start, n), "LEMMY_SPOILER_TITLE", start, n), 1)

-----------------------------------------------------------------------------
\* walk: a node is entered, then the next is found from the containers that are held
Entering(n, root) == [phase |-> "enter", node |-> n, parent |-> root, after |-> 0, root |-> root]

WriterInit ==
  /\ writer = New(AsciiInput)
  /\ held = <<>>
  /\ at = Entering(1, 1)
  /\ notes = <<>>
  /\ blob = <<>>

enter ==
  /\ at.phase = "enter"
  /\ LET n == at.node IN
     IF Leaves(n)
     THEN /\ writer' = Leaf(writer, n)
          /\ held' = held
          /\ at' = [at EXCEPT !.phase = "next", !.after = n]
     ELSE /\ IF Kind(n) = "LemmySpoiler"
             THEN /\ writer' = nl(Titled(n), 2)
                  /\ held' = Append(held, [Opened(n) EXCEPT !.start = pos(Titled(n))])
             ELSE /\ writer' = Deeper(n)
                  /\ held' = Append(Numbered(n), Opened(n))
          /\ at' = [at EXCEPT !.phase = "next", !.after = 0, !.parent = n]
  /\ UNCHANGED <<doc, notes, blob>>

\* The child after the last one, in a list's item first those that are not lists, then the lists
Following == {m \in ToSet(Kids(at.parent)) : at.after = 0 \/ m > at.after}
IsList(n) == Kind(n) = "List"
Lowest(S) == CHOOSE m \in S : \A k \in S : m <= k
Own(S) == {m \in S : ~IsList(m)}
Nested(S) == {m \in S : IsList(m)}

NextOwn ==
  /\ at.phase = "next" /\ held # <<>>
  /\ LET top == Last(held)
         next == IF top.is = "Item" THEN Own(Following) ELSE Following
     IN /\ top.is = "Item" => top.mark # <<>>
        /\ next # {}
        /\ writer' = IF top.is = "Quote" /\ at.after # 0 THEN nl(writer, 2) ELSE writer
        /\ at' = [at EXCEPT !.phase = "enter", !.node = Lowest(next)]
  /\ UNCHANGED <<doc, held, notes, blob>>

\* The item's own blocks are written: its record, and its lists are next
Mark == [writer |-> span_data(writer, Last(held).mark[1], Last(held).start, Last(held).mark[2], at.parent),
         held |-> [held EXCEPT ![Len(held)].mark = <<>>]]

NextNested ==
  /\ at.phase = "next" /\ held # <<>> /\ Last(held).is = "Item"
  /\ LET marking == Last(held).mark # <<>>
         lists == Nested(IF marking THEN ToSet(Kids(at.parent)) ELSE Following)
     IN /\ marking => Own(Following) = {}
        /\ lists # {}
        /\ writer' = nl(IF marking THEN Mark.writer ELSE writer, 1)
        /\ held' = IF marking THEN Mark.held ELSE held
        /\ at' = [at EXCEPT !.phase = "enter", !.node = Lowest(lists)]
  /\ UNCHANGED <<doc, notes, blob>>

\* The container's closing; an item without lists has its record written on the way
Left(w, o, n) ==
  CASE o.is = "List" -> [w EXCEPT !.list_depth = @ - 1]
    [] o.is = "Quote" -> span_data([w EXCEPT !.quote_depth = @ - 1], "QUOTE", o.start,
                                   w.quote_depth - 1, n)
    [] o.is = "Link" ->
         LET shown == IF Kind(n) = "Image" /\ Len(w.text) = o.from THEN write_text(w, <<"url">>, n) ELSE w
         IN link(shown, o.start, o.from, n)
    [] o.is = "Heading" -> span_data(w, o.mark[1], o.start, o.byte, n)
    [] OTHER -> w

leave ==
  /\ at.phase = "next" /\ held # <<>>
  /\ LET o == Last(held)
         marking == o.is = "Item" /\ o.mark # <<>>
         marked == IF marking THEN Mark.writer ELSE writer
         closed == FoldLeft(LAMBDA w, t : span(w, t, o.start, at.parent), Left(marked, o, at.parent), o.spans)
     IN /\ CASE marking -> Following \cap Own(DocNodes) = {} /\ Nested(ToSet(Kids(at.parent))) = {}
             [] o.is = "Item" -> Nested(Following) = {}
             [] OTHER -> Following = {}
        /\ writer' = nl(closed, o.gap)
        /\ held' = Front(held)
        /\ at' = [at EXCEPT !.after = at.parent,
                            !.parent = IF Parent(at.parent) = 0 THEN at.root ELSE Parent(at.parent)]
  /\ UNCHANGED <<doc, notes, blob>>

-----------------------------------------------------------------------------
\* visit: the notes under a rule at the end, block by block
Definitions == SelectSeq(Kids(1), LAMBDA n : Kind(n) = "FootnoteDefinition")

Walked == at.phase = "next" /\ held = <<>>

\* The blocks of the note that was begun last which are still to walk
Waiting ==
  IF notes = <<>> THEN {}
  ELSE {m \in ToSet(Kids(Last(notes))) : at.root \in ToSet(Kids(Last(notes))) => m > at.root}

NextBlock ==
  /\ Walked /\ Waiting # {}
  /\ at' = Entering(Lowest(Waiting), Lowest(Waiting))
  /\ UNCHANGED <<doc, writer, held, notes, blob>>

NextNote ==
  /\ Walked /\ Waiting = {} /\ Len(notes) < Len(Definitions)
  /\ LET n == Definitions[Len(notes) + 1]
         ruled == IF notes # <<>> THEN nl(writer, 1)
                  ELSE nl(span(write_text(nl(writer, 2), <<"rule">>, 0), "HRULE", pos(nl(writer, 2)), 0), 2)
     IN /\ writer' = write_text(Superscripted(ruled, <<"digit">>, n), <<"space">>, 1)
        /\ notes' = Append(notes, n)
        /\ at' = [at EXCEPT !.root = 1]
  /\ UNCHANGED <<doc, held, blob>>

Visited == Walked /\ Waiting = {} /\ Len(notes) = Len(Definitions) /\ blob = <<>>

\* render: what was counted in bytes is counted again
Again == writer.fast_path_ascii /\ ~is_ascii(Glyphs(writer))

render_again ==
  /\ Visited /\ Again
  /\ writer' = New(FALSE)
  /\ at' = Entering(1, 1)
  /\ notes' = <<>>
  /\ UNCHANGED <<doc, held, blob>>

-----------------------------------------------------------------------------
\* The order of the records
SpanTypes ==
  <<"QUOTE", "LIST_ITEM", "TASK_ITEM", "HEADING_TITLE">> \o HEADINGS
    \o <<"CODE", "CODE_BLOCK", "IMAGE", "TABLE", "HRULE", "BOLD", "ITALIC", "STRIKETHROUGH", "SUPERSCRIPT",
         "SUBSCRIPT", "SUPERSCRIPT_SIZE", "SUBSCRIPT_SIZE", "LINK", "APP_LINK", "LINK_SIZE",
         "READER_BLOCK", "LEMMY_SPOILER_TITLE", "LEMMY_SPOILER_CONTENT">>
Rank(t) == CHOOSE i \in DOMAIN SpanTypes : SpanTypes[i] = t

\* By their starts alone (a mutant)
SoonerByStart(r, s) == r.start < s.start

\* sort_key
Sooner(r, s) ==
  \/ r.start < s.start
  \/ r.start = s.start /\ r.end > s.end
  \/ r.start = s.start /\ r.end = s.end /\ Rank(r.type) < Rank(s.type)

Most(a, b) == IF a < b THEN b ELSE a

\* One record of the pass that finds the title and the places a long body may be cut
Judge(pass, s) ==
  LET free == s.start >= pass.reach
      prev == IF pass.done = <<>> THEN {} ELSE {Last(pass.done)}
      after_gap == \E r \in prev : r.type = "READER_BLOCK" /\ r.data = GAP /\ r.end = s.start
      title == s.start = 0 /\ free
      judged == IF s.type \notin ToSet(HEADINGS) THEN s
                ELSE IF title THEN [s EXCEPT !.type = "HEADING_TITLE", !.data = 0]
                ELSE IF free /\ after_gap THEN s ELSE [s EXCEPT !.data = 0]
  IN [reach |-> IF s.type # "READER_BLOCK" THEN Most(pass.reach, s.end) ELSE pass.reach,
      title |-> pass.title \/ judged.type = "HEADING_TITLE",
      done |-> Append(pass.done, judged)]

Headed(sorted) ==
  LET pass == FoldLeft(Judge, [reach |-> 0, title |-> FALSE, done |-> <<>>], sorted)
  IN [i \in DOMAIN sorted |->
        IF pass.title /\ pass.done[i].start = 0 /\ pass.done[i].type = "READER_BLOCK"
        THEN [pass.done[i] EXCEPT !.data = TITLE] ELSE pass.done[i]]

into_blob ==
  /\ Visited /\ ~Again
  /\ LET w == close_tile(writer)
         sorted == SortSeq(w.spans, Sooner)
     IN blob' = [text |-> w.text, ascii |-> w.all_ascii, urls |-> w.url_data,
                 spans |-> IF Reader THEN Headed(sorted) ELSE sorted]
  /\ UNCHANGED <<doc, writer, held, at, notes>>

WriterNext == enter \/ NextOwn \/ NextNested \/ leave \/ NextBlock \/ NextNote \/ render_again \/ into_blob

-----------------------------------------------------------------------------
(***************************************************************************)
(* Properties                                                              *)
(***************************************************************************)
Whole == blob # <<>>
Records == Range(blob.spans)
Tiles == {r \in Records : r.type = "READER_BLOCK"}

Below(n) ==
  LET up[m \in 0..Len(doc.kind)] == m = n \/ (m # 0 /\ up[Parent(m)])
  IN {m \in DocNodes : up[m]}
Around(n, k) == {m \in DocNodes \ {n} : Kind(m) = k /\ n \in Below(m)}

\* The words that nodes of N wrote, as places in the text, and where a place is in UTF-16 units
Words(N) == {i \in DOMAIN blob.text : blob.text[i].of \in N /\ blob.text[i].glyph # "newline"}
Place(i) == utf16_len([j \in 1..i - 1 |-> blob.text[j].glyph])
PlaceAfter(i) == Place(i) + Units(blob.text[i].glyph)

\* What each node has a record of, over the words of which nodes
Marked(n) ==
  LET k == Kind(n)
      all == Below(n)
      own == {n} \cup UNION {Below(m) : m \in Own(ToSet(Kids(n)))}
      linked == IF Says(n) = "own" THEN "APP_LINK" ELSE "LINK"
  IN CASE n = 0 -> {<<"HRULE", {0}>>}
       [] k \in {"Item", "TaskItem"} -> {<<IF k = "Item" THEN "LIST_ITEM" ELSE "TASK_ITEM", own>>}
       [] k = "BlockQuote" -> {<<"QUOTE", all>>}
       [] k = "Heading" -> {<<HEADINGS[Says(n)], all>>}
       [] k = "CodeBlock" -> {<<"CODE_BLOCK", {n}>>}
       [] k = "Table" -> {<<"TABLE", {n}>>}
       [] k = "ThematicBreak" -> {<<"HRULE", {n}>>}
       [] k \in {"FootnoteReference", "FootnoteDefinition"} ->
            {<<"SUPERSCRIPT", {n}>>, <<"SUPERSCRIPT_SIZE", {n}>>}
       [] k = "Code" -> {<<"CODE", {n}>>}
       [] k \in DOMAIN Styles -> {<<t, all>> : t \in ToSet(Styles[k])}
       [] k = "LemmySpoiler" -> {<<t, {n}>> : t \in {"BOLD", "LINK_SIZE", "LEMMY_SPOILER_TITLE"}}
                                \cup {<<"LEMMY_SPOILER_CONTENT", all \ {n}>>}
       [] k \in {"Image", "Link"} /\ Leaves(n) -> {<<"IMAGE", {n}>>}
       [] k = "Image" \/ (k = "Link" /\ Kind(Only(n)) # "Image") ->
            {<<linked, all>>} \cup (IF Reader THEN {} ELSE {<<"LINK_SIZE", all>>})
       [] OTHER -> {}

\* What the record of n says besides
Earlier(n) == {m \in ToSet(Kids(Parent(n))) : m < n}
Data(n) ==
  LET first == Says(Parent(n))
      number == first + Cardinality(Earlier(n))
      indent == (Cardinality(Around(n, "List")) - 1) * (Bullet + 1)
  IN CASE Kind(n) = "Item" ->
            indent + (IF first < 0 THEN Bullet ELSE IF number < Bullet THEN number ELSE Bullet - 1)
       [] Kind(n) = "TaskItem" -> indent + (IF Says(n) THEN 1 ELSE 0)
       [] Kind(n) = "BlockQuote" -> Cardinality(Around(n, "BlockQuote"))

\* The url data is too long for the record of link n: entries are made as nodes close
Unaddressed(n, type) ==
  /\ type \in {"LINK", "APP_LINK"}
  /\ Cardinality({m \in ToSet(blob.urls) : m < n \/ m \in Below(n) \ {n}}) >= MaxUrlOffset

\* Whatever became of the count in the middle of the text, of the newlines that were owed and of the
\* order in which an item's blocks and lists are written, the blob has one record for each mark of
\* each node with words, over the UTF-16 places of these words and of no others, and none for a link
\* whose address the data could not be read at; the number of an
\* item, the depth of a quote and the address of a link or picture are the node's own, and the text
\* is called ASCII only if it is.
MarksItsWords ==
  Whole =>
    /\ \A n \in DocNodes \cup {0} : \A mark \in Marked(n) :
         LET rs == {r \in Records : r.of = n /\ (r.type = mark[1] \/ r.type = "HEADING_TITLE")}
             words == Words(mark[2])
         IN IF words = {} \/ Unaddressed(n, mark[1]) THEN rs = {}
            ELSE /\ Cardinality(rs) = 1
                 /\ \A r \in rs :
                      /\ words = Words(Below(1) \cup {0}) \cap {i \in DOMAIN blob.text :
                                                               r.start < PlaceAfter(i) /\ Place(i) < r.end}
                      /\ \A i \in words : r.start <= Place(i) /\ PlaceAfter(i) <= r.end
                      /\ Kind(n) \in {"Item", "TaskItem", "BlockQuote"} => r.data = Data(n)
                      /\ r.type \in {"LINK", "APP_LINK", "IMAGE", "TABLE"} => blob.urls[r.data + 1] = n
    /\ \A r \in Records \ Tiles :
         \E mark \in Marked(r.of) : r.type \in {mark[1], "HEADING_TITLE"}
    /\ blob.ascii <=> \A i \in DOMAIN blob.text : blob.text[i].glyph \notin DOMAIN Wide

\* The newlines are between the runs
IsNewline(i) == blob.text[i].glyph = "newline"
RunStart(i) == ~IsNewline(i) /\ (i = 1 \/ IsNewline(i - 1))
RunEnd(i) ==
  CHOOSE j \in i..Len(blob.text) :
    /\ \A k \in i..j : ~IsNewline(k)
    /\ j = Len(blob.text) \/ IsNewline(j + 1)
Crossed(r) ==
  \E s \in Records \ (Tiles \cup {r}) :
    s.start <= r.start /\ r.start < s.end /\ s.of \notin Below(r.of) \ {r.of}
HeadingRecords == {r \in Records : r.type \in ToSet(HEADINGS) \cup {"HEADING_TITLE"}}

\* What the run of words from place i to place j is to the reader
KindOfRun(i, j) ==
  LET n == blob.text[i].of
      over == {r \in Records : r.start = Place(i) /\ r.end <= PlaceAfter(j)}
      headings == over \cap HeadingRecords
      level == Says((CHOOSE r \in headings : TRUE).of)
  IN CASE \E r \in HeadingRecords : r.type = "HEADING_TITLE" /\ Place(i) = 0 -> TITLE
       [] headings # {} -> HEADING(level)
       [] \E r \in over : r.type \in {"CODE_BLOCK", "HRULE"} -> KEEP
       [] \E r \in over : r.type = "IMAGE" -> PICTURE
       [] Around(n, "List") # {} -> LIST
       [] Around(n, "BlockQuote") # {} -> QUOTE
       [] OTHER -> PARAGRAPH

\* In a reader's blob each run of words between newlines has one tile, of the run's own kind, and each
\* blank line that words follow has one of its own; nothing else has.  The heading the text begins with
\* is its title unless it is inside of something, and another carries its place in bytes exactly if a
\* blank line is before it and no record but its own begins before and ends after that place: there
\* the text can be cut in two.
TilesTheText ==
  Whole /\ Reader =>
    /\ Tiles = {[start |-> Place(i), end |-> PlaceAfter(RunEnd(i)), type |-> "READER_BLOCK",
                 data |-> KindOfRun(i, RunEnd(i)), of |-> 0] : i \in {i \in DOMAIN blob.text : RunStart(i)}}
               \cup {[start |-> Place(i), end |-> PlaceAfter(i), type |-> "READER_BLOCK",
                      data |-> GAP, of |-> 0]
                     : i \in {i \in 2..Len(blob.text) - 1 : IsNewline(i - 1) /\ IsNewline(i) /\ RunStart(i + 1)}}
    /\ \A r \in HeadingRecords :
         LET cut == \E g \in Tiles : g.data = GAP /\ g.end = r.start
             before == {i \in DOMAIN blob.text : PlaceAfter(i) <= r.start}
         IN /\ r.type = "HEADING_TITLE" <=> r.start = 0 /\ ~Crossed(r)
            /\ r.data = IF r.type # "HEADING_TITLE" /\ cut /\ ~Crossed(r)
                        THEN byte_len([i \in 1..Cardinality(before) |-> blob.text[i].glyph]) ELSE 0
=============================================================================
