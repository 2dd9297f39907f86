------------------------------- MODULE TextPost --------------------------------
\* postprocess_text_nodes over the children of one block: neighbouring texts are
\* joined, a marker at the front of a list item makes it a task, mentions and email
\* addresses become links, and escaped characters become text.  The source columns
\* of the joined texts are kept beside them (Spx) and handed out as the text is cut.
EXTENDS Autolinks

VARIABLES
  settings,    \* the names of the options that are on
  context,     \* what holds the block: "item" of a list, table "cell" or "other"
  pieces,      \* the block's children as the inline parser left them
  nodes,       \* its children
  walk,        \* `it', the place of the next child
  task,        \* the symbol's columns of the task the item has become, or <<>>
  blockStart,  \* the column its block starts in; 0 when the block was taken out
  panicked     \* an assertion has failed: Spx::consume's or process_tasklist's

postVars == <<settings, context, pieces, nodes, walk, task, blockStart, panicked>>

\* A child: its bytes, and its first and last column.  Texts, links made here,
\* "escaped" with its one character (the column before it is the backslash's), and
\* any "other", which has no text
Child(kind, bytes, start, end) == [kind |-> kind, bytes |-> bytes, start |-> start, end |-> end]
TextNode(bytes, start, end) == Child("text", bytes, start, end)
IsText(n) == n.kind = "text"

StartPost(children, opts, where) ==
  /\ settings = opts /\ context = where
  /\ pieces = children /\ nodes = children
  /\ walk = 1 /\ task = <<>> /\ panicked = FALSE
  /\ blockStart = IF children = <<>> THEN 0 ELSE children[1].start

Asked(o) == o \in settings
Flat(ns) == FlattenSeq([k \in DOMAIN ns |-> ns[k].bytes])

-------------------------------------------------------------------------------
(* Spx: [start, end, len] of each text joined.                                     *)

Spans(ns) == [k \in DOMAIN ns |-> [start |-> ns[k].start, end |-> ns[k].end, len |-> Len(ns[k].bytes)]]

\* Broken: what is left of a span still starts where the span did
RECURSIVE ConsumeInPlace(_, _)
ConsumeInPlace(spx, n) ==
  LET sp == Head(spx)
  IN  IF n > sp.len THEN ConsumeInPlace(Tail(spx), n - sp.len)
      ELSE IF n = sp.len THEN [col |-> sp.end, rest |-> Tail(spx), exact |-> TRUE]
      ELSE [col |-> sp.start + n - 1, rest |-> <<[sp EXCEPT !.len = @ - n]>> \o Tail(spx),
            exact |-> n = 0 \/ sp.end - sp.start + 1 = sp.len]

\* The last column of the next n bytes, the spans after them, and whether the
\* assertion held: part of a span is asked for only if its columns are its bytes
RECURSIVE Consume(_, _)
Consume(spx, n) ==
  LET sp == Head(spx)
  IN  IF n > sp.len THEN Consume(Tail(spx), n - sp.len)
      ELSE IF n = sp.len THEN [col |-> sp.end, rest |-> Tail(spx), exact |-> TRUE]
      ELSE [col |-> sp.start + n - 1,
            rest |-> <<[sp EXCEPT !.start = @ + n, !.len = @ - n]>> \o Tail(spx),
            exact |-> n = 0 \/ sp.end - sp.start + 1 = sp.len]

RECURSIVE col_at(_, _)
col_at(spx, n) ==
  LET sp == Head(spx)
  IN  IF n > sp.len THEN col_at(Tail(spx), n - sp.len)
      ELSE IF n = sp.len THEN sp.end
      ELSE IF n = 0 THEN sp.start - 1
      ELSE Max({Max({0, sp.end + n - sp.len}), sp.start})

-------------------------------------------------------------------------------
(* What is cut from a joined text.                                                 *)

\* process_lemmy_mentions: the text from byte `base' on cut at its mentions, m the first of them
RECURSIVE Mentions(_, _, _, _)
Mentions(node, spx, base, m) ==
  LET start == col_at(spx, base + m.from - 1)
      till == col_at(spx, base + m.to)
      after == TextNode(From(node.bytes, m.to + 1), till + 1, node.end)
  IN  IF m.from = 0 THEN <<node>>
      ELSE <<TextNode(SubSeq(node.bytes, 1, m.from - 1), node.start, start),
             Child("link", SubSeq(node.bytes, m.from, m.to), start + 1, till)>>
           \o (IF m.to = Len(node.bytes) THEN <<>>
               ELSE Mentions(after, spx, base + m.to, FirstMention(after.bytes)))

\* process_email_autolinks: the nodes, and whether the spans could be cut so
RECURSIVE Emails(_, _)
EmailLink(node, e, before, link) ==
  LET after == TextNode(From(node.bytes, e.to + 1), link.col + 1, node.end)
      more == IF after.bytes = <<>> THEN [nodes |-> <<>>, exact |-> TRUE] ELSE Emails(after, link.rest)
  IN  [nodes |-> <<TextNode(SubSeq(node.bytes, 1, e.from - 1), node.start, before.col),
                   Child("link", SubSeq(node.bytes, e.from, e.to), before.col + 1, link.col)>> \o more.nodes,
       exact |-> before.exact /\ link.exact /\ more.exact]

EmailAfter(node, e, before) == EmailLink(node, e, before, Consume(before.rest, e.to - e.from + 1))

EmailAt(node, spx, e) ==
  IF e.from = 0 THEN [nodes |-> <<node>>, exact |-> TRUE] ELSE EmailAfter(node, e, Consume(spx, e.from - 1))

Emails(node, spx) == EmailAt(node, spx, find_email_autolink(node.bytes, Asked("relaxed_autolinks")))

\* process_tasklist: the marker's length and the columns of its symbol, or no marker
NoMarker == [len |-> 0, symbol |-> <<>>]
Continuation == {"A9"}
process_tasklist(node, isFirst, isOnly) ==
  LET t == tasklist(node.bytes)
      matched == SubSeq(node.bytes, t.from + 1, t.to)
      chars == {i \in DOMAIN matched : matched[i] \notin Continuation}
      Wanted == \/ Asked("relaxed_tasklist_matching")
                \/ Len(matched) = 1 /\ matched[1] \in {" ", "x", "X"}
      Placed == \/ context = "cell" /\ Asked("tasklist_in_table") /\ isOnly /\ t.len = Len(node.bytes)
                \/ context = "item" /\ isFirst /\ task = <<>>
  IN  IF Asked("tasklist") /\ t.len # None /\ Cardinality(chars) = 1 /\ Wanted /\ Placed
      THEN [len |-> t.len, symbol |-> <<node.start + t.from, node.start + t.to - 1>>]
      ELSE NoMarker

-------------------------------------------------------------------------------
(* The walk.                                                                       *)

HasAt(ns) == \E k \in DOMAIN ns : \E i \in DOMAIN ns[k].bytes : ns[k].bytes[i] = "@"

\* The end of the run of texts that begins at k
RunEnd(k) == Max({m \in k..Len(nodes) : \A i \in k..m : IsText(nodes[i])})

\* A list item's text without its marker: it begins where its paragraph does, which is asserted,
\* the marker's columns are consumed, and a text that
\* was nothing else may take its paragraph with it
Unlisted(joined, marker, cut, isLast) ==
  LET Vanishes == joined.end < cut.col + 1 /\ isLast
  IN  [text |-> [joined EXCEPT !.bytes = From(@, marker.len + 1),
                               !.start = IF Vanishes THEN @ ELSE cut.col + 1],
       spx |-> cut.rest, exact |-> cut.exact /\ joined.start = blockStart, task |-> marker.symbol,
       blockStart |-> IF Vanishes THEN 0 ELSE cut.col + 1]

Unmarked(joined, spx, marker, isLast) ==
  IF marker # NoMarker /\ context = "item" THEN Unlisted(joined, marker, Consume(spx, marker.len), isLast)
  ELSE [text |-> [joined EXCEPT !.bytes = From(@, marker.len + 1)], spx |-> spx, exact |-> TRUE,
        task |-> IF marker = NoMarker THEN task ELSE marker.symbol, blockStart |-> blockStart]

\* The mentions of the text, and the addresses of what is before the first of them
Mentioned(u) ==
  IF Asked("lemmy_mention") /\ HasAt(<<u.text>>) THEN Mentions(u.text, u.spx, 0, FirstMention(u.text.bytes))
  ELSE <<u.text>>
Addressed(u, mentions) ==
  IF Asked("autolink") /\ HasAt(<<u.text>>) THEN Emails(Head(mentions), u.spx)
  ELSE [nodes |-> <<Head(mentions)>>, exact |-> TRUE]

\* The run of texts from the walk's place to `last' becomes these nodes
Replace(last, u, mentions, emails) ==
  LET produced == emails.nodes \o Tail(mentions)
      emptied == Head(produced).bytes = <<>>
  IN  /\ nodes' = SubSeq(nodes, 1, walk - 1) \o (IF emptied THEN Tail(produced) ELSE produced)
                  \o From(nodes, last + 1)
      /\ walk' = IF emptied THEN walk ELSE walk + 1
      /\ panicked' = ~(u.exact /\ emails.exact)
      /\ task' = u.task
      /\ blockStart' = u.blockStart

Link(last, u, mentions) == Replace(last, u, mentions, Addressed(u, mentions))
Unmark(last, u) == Link(last, u, Mentioned(u))

postprocess_text_node ==
  /\ ~panicked /\ walk <= Len(nodes) /\ IsText(nodes[walk])
  /\ \E last \in {RunEnd(walk)} :
       LET run == SubSeq(nodes, walk, last)
           joined == TextNode(Flat(run), nodes[walk].start, nodes[last].end)
           marker == process_tasklist(joined, walk = 1, walk = 1 /\ last = Len(nodes))
       IN  Unmark(last, Unmarked(joined, Spans(run), marker, last = Len(nodes)))
  /\ UNCHANGED <<settings, context, pieces>>

pass_over ==
  /\ ~panicked /\ walk <= Len(nodes) /\ ~IsText(nodes[walk])
  /\ walk' = walk + 1
  /\ UNCHANGED <<settings, context, pieces, nodes, task, blockStart, panicked>>

\* An escaped character, the first left, becomes a text and is joined to those beside it
coalesce_escaped ==
  /\ ~panicked /\ walk > Len(nodes) /\ ~Asked("escaped_char_spans")
  /\ \E k \in DOMAIN nodes :
       /\ nodes[k].kind = "escaped" /\ \A i \in 1..k - 1 : nodes[i].kind # "escaped"
       /\ LET from == IF k > 1 /\ IsText(nodes[k - 1]) THEN k - 1 ELSE k
              to == IF k < Len(nodes) /\ IsText(nodes[k + 1]) THEN k + 1 ELSE k
              inner == [nodes EXCEPT ![k] = TextNode(@.bytes, @.start + 1, @.end)]
              joined == TextNode(Flat(SubSeq(nodes, from, to)), inner[from].start, nodes[to].end)
              all == SubSeq(nodes, 1, from - 1) \o <<joined>> \o From(nodes, to + 1)
          IN  nodes' = all /\ walk' = Len(all) + 1
  /\ UNCHANGED <<settings, context, pieces, task, blockStart, panicked>>

\* On the blob path, before: texts that are neighbours in the source, byte by byte
merge_borrowed_text_runs ==
  /\ nodes = pieces /\ walk = 1
  /\ LET Borrowed(n) == IsText(n) /\ n.end - n.start + 1 = Len(n.bytes)
         Follows(k) == /\ k > 1 /\ Borrowed(nodes[k - 1]) /\ Borrowed(nodes[k])
                       /\ nodes[k - 1].end + 1 = nodes[k].start
         Add(ns, k) ==
           IF Follows(k)
           THEN Append(Front(ns), [Last(ns) EXCEPT !.bytes = @ \o nodes[k].bytes, !.end = nodes[k].end])
           ELSE Append(ns, nodes[k])
     IN  nodes' = FoldLeftDomain(Add, <<>>, nodes)
  /\ UNCHANGED <<settings, context, pieces, walk, task, blockStart, panicked>>

postprocess == merge_borrowed_text_runs \/ postprocess_text_node \/ pass_over \/ coalesce_escaped

-------------------------------------------------------------------------------
(* Properties.                                                                     *)

\* What was cut from the front as a task's marker
Cut == Len(Flat(pieces)) - Len(Flat(nodes))

\* The piece the i-th byte of the text is of, and the byte's first and last column:
\* one for each byte, unless what it stands for is longer in the source
PieceOf(i) == Min({k \in DOMAIN pieces : Len(Flat(SubSeq(pieces, 1, k))) >= i})
ByteColumns(i) ==
  LET k == PieceOf(i)
      p == pieces[k]
      n == i - Len(Flat(SubSeq(pieces, 1, k - 1)))
  IN  IF p.kind = "escaped" THEN <<p.start + 1, p.end>>
      ELSE IF p.end - p.start + 1 = Len(p.bytes) THEN <<p.start + n - 1, p.start + n - 1>>
      ELSE <<p.start, p.end>>

Texts == {k \in DOMAIN nodes : nodes[k].bytes # <<>> /\ nodes[k].kind # "escaped"}

\* Every text and every link, however often its text was joined and cut, starts in the
\* column of its first byte and ends in that of its last: after a task's marker, an
\* address, an entity or an escaped character as well
ColumnsFollowBytes ==
  ~panicked =>
    \A k \in Texts :
      LET before == Cut + Len(Flat(SubSeq(nodes, 1, k - 1)))
      IN  /\ nodes[k].start = ByteColumns(before + 1)[1]
          /\ nodes[k].end = ByteColumns(before + Len(nodes[k].bytes))[2]

\* No byte of the block's text is lost, added or moved, whatever becomes of it: what is
\* missing in front is the task's marker, nothing else; and when all is done no two
\* texts are neighbours and none is empty
TextIsKept ==
  /\ ~panicked => Flat(nodes) = From(Flat(pieces), Cut + 1)
  /\ ~panicked /\ Cut > 0 =>
       /\ task # <<>> \/ context = "cell"
       /\ \E i \in 1..Cut : Flat(pieces)[i] = "]"
       /\ \A i \in 1..Cut : Flat(pieces)[i] = "]" => i >= Cut - 1
  /\ walk > Len(nodes) /\ ~panicked /\ (\A k \in DOMAIN nodes : nodes[k].kind # "escaped") =>
       \A k \in DOMAIN nodes : IsText(nodes[k]) =>
         nodes[k].bytes # <<>> /\ (k > 1 => ~IsText(nodes[k - 1]))

\* The columns of a task's symbol are those of what is between its brackets, when all up
\* to it is in the source as it is read
SymbolIsWhereItSays ==
  task # <<>> =>
    LET all == Flat(pieces)
        open == Min({i \in DOMAIN all : all[i] = "["})
        close == Min({i \in DOMAIN all : all[i] = "]"})
        AsRead == \A i \in 1..close : ByteColumns(i) = <<pieces[1].start + i - 1, pieces[1].start + i - 1>>
    IN  AsRead => task = <<ByteColumns(open + 1)[1], ByteColumns(close - 1)[2]>>

\* The assertion of Spx::consume holds unless a mention was cut before an entity: the
\* text after the mention has one span for bytes that are not their columns
ConsumesWhatItCan ==
  panicked => Asked("lemmy_mention") /\ \E k \in 2..walk : k <= Len(nodes) /\ nodes[k - 1].kind = "link"

\* The columns handed out from the front of a joined text are those of what is cut off, and
\* its bytes all stay
ColumnsHandedOut == TextIsKept /\ ColumnsFollowBytes /\ SymbolIsWhereItSays /\ ConsumesWhatItCan

\* "This is a bug if it happens" (mod.rs, Spx::consume)
NeverPanics == ~panicked
===============================================================================
