----------------------------- MODULE SpareBuffers ------------------------------
\* Where the text of a document is kept while it is parsed.  A block's lines are copied to a
\* buffer that goes on to a literal, to the arena of strings that inlines borrow from, or
\* to the parser's working_content for the next block; and, on the blob path, back to
\* the thread's spares for the next document.  A buffer that is not emptied on its way
\* puts the text of one block in another.
EXTENDS Integers, SequencesExt

CONSTANTS
  SpareMax,         \* SPARE_MAX: how many spares of each kind a thread keeps
  MaxBlocks,        \* bound: the blocks of a document
  MaxLines          \* bound: the lines of all documents

ASSUME SpareBuffersAssumption == {SpareMax, MaxBlocks, MaxLines} \subseteq Nat

VARIABLES
  spareBlocks, spareStrings,   \* of the thread
  working,      \* working_content
  blocks,       \* of the document: [kind, lines, literal, open], in the arena's order
  strings,      \* the string arena
  stage,        \* "idle" between documents, then "blocks", "inlines" and "drains"
  zerocopy,     \* the blob path: there is a string arena
  lines,        \* how many lines have been read, of all documents
  own           \* history: the lines that each block was given, and that each string is of

bufferVars == <<spareBlocks, spareStrings, working, blocks, strings, stage, zerocopy, lines, own>>

\* A String: its capacity, which is none, some or more than SPARE_STRING_MAX, and the lines
\* whose text is in it
Unallocated == [capacity |-> "none", text |-> {}]
Cleared(b) == [b EXCEPT !.text = {}]
Owned(text) == [capacity |-> "some", text |-> text]

\* BlockLines
Fresh == [content |-> Unallocated, offsets |-> {}]
NoLines == [content |-> Unallocated, offsets |-> {0}]    \* no lines: no line has the number 0

WithLiteral == {"CodeBlock", "MultilineComment", "HtmlBlock", "HeexBlock"}
WithInlines == {"Paragraph", "Heading"}

--------------------------------------------------------------------------------
(* The spares.                                                                   *)

give_string(pool, s) ==
  IF s.capacity # "some" \/ Len(pool) >= SpareMax THEN pool ELSE Append(pool, Cleared(s))

\* Both pools after a block's lines came back
give_block(pools, b) ==
  [strings |-> give_string(pools.strings, b.content),
   blocks |-> IF Len(pools.blocks) >= SpareMax THEN pools.blocks ELSE Append(pools.blocks, Fresh)]

Pools == [strings |-> spareStrings, blocks |-> spareBlocks]
Keep(pools) == spareStrings' = pools.strings /\ spareBlocks' = pools.blocks

\* The lines of a new block, and the spares left
take_block ==
  LET block == IF spareBlocks = <<>> THEN Fresh ELSE Last(spareBlocks)
      more == block.content.capacity = "none" /\ spareStrings # <<>>
  IN  [lines |-> IF more THEN [block EXCEPT !.content = Last(spareStrings)] ELSE block,
       pools |-> [strings |-> IF more THEN Front(spareStrings) ELSE spareStrings,
                  blocks |-> IF spareBlocks = <<>> THEN <<>> ELSE Front(spareBlocks)]]

NewLines == IF zerocopy THEN take_block ELSE [lines |-> Fresh, pools |-> Pools]

--------------------------------------------------------------------------------
(* The blocks.                                                                   *)

Block(kind, ls) == [kind |-> kind, lines |-> ls, literal |-> Unallocated, open |-> TRUE]

NoLinesOwned == [blocks |-> <<>>, strings |-> <<>>]

parse_document(zero) ==
  /\ stage = "idle"
  /\ stage' = "blocks" /\ zerocopy' = zero
  /\ working' = Unallocated /\ blocks' = <<>> /\ strings' = <<>> /\ own' = NoLinesOwned
  /\ UNCHANGED <<spareBlocks, spareStrings, lines>>

\* Only the last of the blocks may be open; another may still be while a new one is begun
OpenAt(k) == k \in DOMAIN blocks /\ blocks[k].open
OnlyLastOpen == \A k \in DOMAIN blocks : OpenAt(k) => k = Len(blocks)

add_child(kind) ==
  /\ stage = "blocks" /\ OnlyLastOpen /\ Len(blocks) < MaxBlocks
  /\ blocks' = Append(blocks, Block(kind, NewLines.lines))
  /\ Keep(NewLines.pools)
  /\ own' = [own EXCEPT !.blocks = Append(@, {})]
  /\ UNCHANGED <<working, strings, stage, zerocopy, lines>>

\* A buffer that is written to has a capacity, and may grow past what is kept as a spare
Pushed(b, n) ==
  {[capacity |-> c, text |-> b.text \cup {n}] : c \in IF b.capacity = "much" THEN {"much"} ELSE {"some", "much"}}

\* A block without a buffer takes the working content first
add_line ==
  /\ stage = "blocks" /\ lines < MaxLines /\ OnlyLastOpen /\ OpenAt(Len(blocks))
  /\ \E k \in {Len(blocks)}, n \in {lines + 1}, old \in {Last(blocks).lines.content} :
       /\ working' = IF old.capacity = "none" THEN old ELSE working
       /\ \E content \in Pushed(IF old.capacity = "none" THEN working ELSE old, n) :
            blocks' = [blocks EXCEPT ![k].lines.content = content, ![k].lines.offsets = @ \cup {n}]
       /\ own' = [own EXCEPT !.blocks[k] = @ \cup {n}]
       /\ lines' = n
  /\ UNCHANGED <<spareBlocks, spareStrings, strings, stage, zerocopy>>

\* The text of a block that ends, and the working content.  On the blob path the buffer goes
\* with the text; else the text is copied, and the buffer kept for the next block
\* Broken: kept with its text
take_content_uncleared(b) ==
  IF zerocopy THEN [taken |-> b, working |-> working]
  ELSE [taken |-> Owned(b.text), working |-> b]

take_content(b) ==
  IF zerocopy THEN [taken |-> b, working |-> working]
  ELSE [taken |-> Owned(b.text), working |-> Cleared(b)]

\* What resolve_reference_link_definitions leaves of a paragraph: all of it, its end or nothing
Resolved(b) ==
  {[b EXCEPT !.text = {n \in @ : n > first}] : first \in b.text \cup {0}}

\* A paragraph of definitions only is taken out of the tree, and its buffer kept
finalize_paragraph(k) ==
  /\ own.blocks[k] # {}
  /\ \E content \in Resolved(blocks[k].lines.content) : \E taken \in {take_content(content)} :
       IF content.text # {}
       THEN /\ blocks' = [blocks EXCEPT ![k].lines.content = taken.taken, ![k].open = FALSE]
            /\ working' = taken.working
       ELSE /\ blocks' = [blocks EXCEPT ![k].lines = NoLines, ![k].open = FALSE]
            /\ working' = Cleared(content)
  /\ UNCHANGED <<spareBlocks, spareStrings>>

finalize_heading(k) ==
  \E taken \in {take_content(blocks[k].lines.content)} :
    /\ blocks' = [blocks EXCEPT ![k].lines.content = taken.taken, ![k].open = FALSE]
    /\ working' = taken.working
    /\ UNCHANGED <<spareBlocks, spareStrings>>

\* The text becomes the node's literal.  Only a HEEx block does not give its lines back
finalize_literal(k) ==
  \E taken \in {take_content(blocks[k].lines.content)} :
    /\ blocks' = [blocks EXCEPT ![k].literal = taken.taken, ![k].lines = NoLines, ![k].open = FALSE]
    /\ working' = taken.working
    /\ IF zerocopy /\ blocks[k].kind # "HeexBlock"
       THEN Keep(give_block(Pools, [blocks[k].lines EXCEPT !.content = Unallocated]))
       ELSE UNCHANGED <<spareBlocks, spareStrings>>

finalize ==
  /\ stage = "blocks"
  /\ \E k \in DOMAIN blocks :
       /\ OpenAt(k)
       /\ \/ blocks[k].kind = "Paragraph" /\ finalize_paragraph(k)
          \/ blocks[k].kind = "Heading" /\ finalize_heading(k)
          \/ blocks[k].kind \in WithLiteral /\ finalize_literal(k)
  /\ UNCHANGED <<strings, stage, zerocopy, lines, own>>

\* An underline after a paragraph, whose definitions are read first.  One of definitions only
\* stays a paragraph, with its buffer, and is given the underline
handle_setext_heading ==
  /\ stage = "blocks" /\ OnlyLastOpen
  /\ \E k \in DOMAIN blocks :
       /\ OpenAt(k) /\ blocks[k].kind = "Paragraph" /\ blocks[k].lines.content.text # {}
       /\ \E content \in Resolved(blocks[k].lines.content) :
            blocks' = [blocks EXCEPT ![k].lines.content = content,
                                     ![k].kind = IF content.text = {} THEN @ ELSE "Heading"]
  /\ UNCHANGED <<spareBlocks, spareStrings, working, strings, stage, zerocopy, lines, own>>

--------------------------------------------------------------------------------
(* Tables, of one column.                                                        *)

ClosedBlock(kind, ls) == [kind |-> kind, lines |-> ls, literal |-> Unallocated, open |-> FALSE]

\* A cell's text is swapped for the buffer its lines came with, which is dropped
Cell(ls, text) == ClosedBlock("TableCell", [content |-> Owned(text), offsets |-> ls.offsets \cup text])

\* The paragraph's last line is the header, the lines before it are a paragraph again, and its
\* buffer is the working content
try_opening_header ==
  /\ stage = "blocks" /\ OnlyLastOpen /\ Len(blocks) + 2 <= MaxBlocks
  /\ \E k \in DOMAIN blocks :
       /\ OpenAt(k) /\ blocks[k].kind = "Paragraph" /\ blocks[k].lines.content.text # {}
       /\ \E text \in {blocks[k].lines.content.text} : \E last \in text :
            LET others == text \ {last}
                cell == Cell(NewLines.lines, {last})
                preface == ClosedBlock("Paragraph", [content |-> Owned(others), offsets |-> others])
                replaced == [blocks EXCEPT ![k].lines.content = Unallocated,
                                           ![k].kind = "replaced", ![k].open = FALSE]
            IN  /\ \A n \in others : n < last
                /\ IF others = {}
                   THEN /\ blocks' = Append(replaced, cell)
                        /\ own' = [own EXCEPT !.blocks = Append(@, text)]
                   ELSE /\ blocks' = Append(Append(replaced, preface), cell)
                        /\ own' = [own EXCEPT !.blocks = Append(Append(@, others), {last})]
       /\ working' = Cleared(blocks[k].lines.content)
  /\ Keep(NewLines.pools)
  /\ UNCHANGED <<strings, stage, zerocopy, lines>>

\* A row has a cell of its line's text, or one that is filled in
try_opening_row ==
  /\ stage = "blocks" /\ OnlyLastOpen /\ lines < MaxLines /\ Len(blocks) < MaxBlocks
  /\ blocks # <<>> /\ Last(blocks).kind = "TableCell"
  /\ \E text \in {{lines + 1}, {}} :
       /\ blocks' = Append(blocks, IF text = {} THEN ClosedBlock("TableCell", NewLines.lines)
                                   ELSE Cell(NewLines.lines, text))
       /\ own' = [own EXCEPT !.blocks = Append(@, text)]
  /\ Keep(NewLines.pools)
  /\ lines' = lines + 1
  /\ UNCHANGED <<working, strings, stage, zerocopy>>

--------------------------------------------------------------------------------
(* The inlines, and the end of a document.                                       *)

WaitsForInlines(b) == b.kind \in WithInlines \cup {"TableCell"} /\ b.lines # NoLines

end_of_blocks ==
  /\ stage = "blocks" /\ \A k \in DOMAIN blocks : ~OpenAt(k)
  /\ stage' = "inlines"
  /\ UNCHANGED <<spareBlocks, spareStrings, working, blocks, strings, zerocopy, lines, own>>

\* The text goes to the string arena on the blob path, where an inline footnote in it has
\* a copy; else the inlines own it
parse_inlines ==
  /\ stage = "inlines"
  /\ \E k \in DOMAIN blocks :
       /\ WaitsForInlines(blocks[k])
       /\ IF zerocopy
          THEN /\ \E content \in {blocks[k].lines.content}, text \in {own.blocks[k]} :
                    \/ /\ strings' = Append(strings, content)
                       /\ own' = [own EXCEPT !.strings = Append(@, text)]
                    \/ /\ content.text # {}
                       /\ strings' = Append(Append(strings, content), Owned(content.text))
                       /\ own' = [own EXCEPT !.strings = Append(Append(@, text), text)]
               /\ Keep(give_block(Pools, [blocks[k].lines EXCEPT !.content = Unallocated]))
          ELSE UNCHANGED <<strings, own, spareBlocks, spareStrings>>
       /\ blocks' = [blocks EXCEPT ![k].lines = NoLines]
  /\ UNCHANGED <<working, stage, zerocopy, lines>>

\* What a node leaves: its lines, and the literal of a code or an HTML block
GiveNode(pools, b) ==
  LET given == IF b.lines = NoLines THEN pools ELSE give_block(pools, b.lines)
  IN  IF b.kind \in {"CodeBlock", "HtmlBlock"}
      THEN [given EXCEPT !.strings = give_string(@, b.literal)]
      ELSE given

\* The parser and its working content are gone when the document is there.  On the blob path
\* both arenas are drained then
end_of_document ==
  /\ stage = "inlines" /\ \A k \in DOMAIN blocks : ~WaitsForInlines(blocks[k])
  /\ working' = Unallocated
  /\ stage' = IF zerocopy /\ blocks # <<>> THEN "drains" ELSE "idle"
  /\ IF zerocopy THEN UNCHANGED <<blocks, strings, own>>
     ELSE blocks' = <<>> /\ strings' = <<>> /\ own' = NoLinesOwned
  /\ UNCHANGED <<spareBlocks, spareStrings, zerocopy, lines>>

drain_strings ==
  /\ stage = "drains" /\ strings # <<>>
  /\ spareStrings' = give_string(spareStrings, Head(strings))
  /\ strings' = Tail(strings)
  /\ own' = [own EXCEPT !.strings = Tail(@)]
  /\ UNCHANGED <<spareBlocks, working, blocks, stage, zerocopy, lines>>

drain_nodes ==
  /\ stage = "drains" /\ strings = <<>> /\ blocks # <<>>
  /\ Keep(GiveNode(Pools, Head(blocks)))
  /\ blocks' = Tail(blocks)
  /\ own' = [own EXCEPT !.blocks = Tail(@)]
  /\ stage' = IF Len(blocks) = 1 THEN "idle" ELSE "drains"
  /\ UNCHANGED <<working, strings, zerocopy, lines>>

BuffersInit ==
  /\ spareBlocks = <<>> /\ spareStrings = <<>> /\ working = Unallocated
  /\ blocks = <<>> /\ strings = <<>> /\ stage = "idle" /\ zerocopy = FALSE /\ lines = 0
  /\ own = NoLinesOwned

BuffersNext ==
  \/ \E zero \in BOOLEAN : parse_document(zero)
  \/ \E kind \in WithLiteral \cup WithInlines : add_child(kind)
  \/ add_line \/ finalize \/ handle_setext_heading
  \/ try_opening_header \/ try_opening_row
  \/ end_of_blocks \/ parse_inlines
  \/ end_of_document \/ drain_strings \/ drain_nodes

BuffersSpec == BuffersInit /\ [][BuffersNext]_bufferVars

--------------------------------------------------------------------------------
\* Whatever way its buffer came and went, a block and its string hold only lines it was given, its
\* offsets and its literal are of all of them, and what waits for the next block or the next
\* document holds nothing and is not more than a thread may keep (parser/mod.rs:2523,
\* nodes.rs:903-937)
Unmixed ==
  /\ \A k \in DOMAIN blocks :
       /\ blocks[k].lines.content.text \subseteq own.blocks[k]
       /\ blocks[k].lines # NoLines => blocks[k].lines.offsets = own.blocks[k]
       /\ blocks[k].kind \in WithLiteral /\ ~blocks[k].open => blocks[k].literal.text = own.blocks[k]
  /\ \A k \in DOMAIN strings : strings[k].text \subseteq own.strings[k]
  /\ working.text = {}
  /\ \A k \in DOMAIN spareStrings : spareStrings[k] = Owned({})
  /\ \A k \in DOMAIN spareBlocks : spareBlocks[k] = Fresh
  /\ Len(spareStrings) <= SpareMax /\ Len(spareBlocks) <= SpareMax
================================================================================
