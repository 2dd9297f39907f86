-------------------------------- MODULE Tables ---------------------------------
\* Tables.  A paragraph's last line turns out to be a header when the line under it
\* is a row of hyphens with as many cells: the paragraph is cut before it and the
\* table takes its place.  Each further line that reads as a row is one, cut or
\* filled up to the header's number of cells.
EXTENDS Scanners

CONSTANTS
  MaxAutocompleted,   \* MAX_AUTOCOMPLETED_CELLS
  MaxCells,           \* u16::MAX, the most cells of a row
  Spoiler,            \* the spoiler extension: "||" is text
  Container           \* the kind of block the paragraph is in

ASSUME TablesAssumption == MaxAutocompleted \in Nat /\ MaxCells \in Nat \ {0} /\ Spoiler \in BOOLEAN

VARIABLES
  source,      \* the lines read: [indent, bytes], what is before the first character and the rest
  paragraph,   \* the open paragraph: [content, offsets, line, column, visited]
  preface,     \* the paragraph a table has cut off: [content, offsets, line, endLine, endColumn]
  table        \* [alignments, columns, numRows, nonempty, rows, open]

tableVars == <<source, paragraph, preface, table>>

Absent == [kind |-> "nothing"]

NoTable == /\ source = <<>>
           /\ paragraph = Absent /\ preface = Absent /\ table = Absent

-------------------------------------------------------------------------------
(* Reading a row.  Offsets count the bytes before, as in the code.              *)

LineEnding(s) == IF s # <<>> /\ Last(s) = "\n" THEN 1 ELSE 0
LinesIn(s) == Cardinality({i \in DOMAIN s : s[i] = "\n"})

Trim(s) ==
  LET Text == {i \in DOMAIN s : s[i] \notin SpaceChar}
  IN  IF Text = {} THEN <<>> ELSE SubSeq(s, Min(Text), Max(Text))

\* How many backslashes end at the i-th byte
Backslashes(s, i) == Max({n \in 0..i : \A k \in i - n + 1..i : s[k] = "\\"})

\* The backslash of each "\|" goes, unless it is the second of a pair
unescape_pipes(s) ==
  LET Escapes == {i \in DOMAIN s : s[i] = "\\" /\ Backslashes(s, i) % 2 = 1 /\ Peek(s, i + 1) = "|"}
  IN  FoldLeftDomain(LAMBDA kept, i : IF i \in Escapes THEN kept ELSE Append(kept, s[i]), <<>>, s)

\* Broken: a cell begins where its text does, whatever is between it and the bar
CellAtText(s, lineOffset, offset, len) ==
  [content |-> Trim(unescape_pipes(SubSeq(s, offset + 1, offset + len))),
   start |-> offset, end |-> offset + len - 1, internal |-> 1]

\* The cell of `len' bytes at `offset' in the line that begins at `lineOffset': it
\* begins after the bar before it
Cell(s, lineOffset, offset, len) ==
  LET start == Max({i \in lineOffset..offset : i = lineOffset \/ s[i] = "|"})
  IN  [content |-> Trim(unescape_pipes(SubSeq(s, offset + 1, offset + len))),
       start |-> start, end |-> offset + len - 1, internal |-> offset - start]

NoRow == [lineOffset |-> 0, cells |-> <<>>]
Matched(n) == IF n = None THEN 0 ELSE n

\* The cells of the last line of s, if s reads as rows to its end: after `sofar' a cell
\* and a bar end at `after', and the row may end at `next'
RECURSIVE RowFrom(_, _, _, _)
RowAfter(s, lineOffset, sofar, bar, after, next) ==
  LET Found == IF next = Len(s) THEN [lineOffset |-> lineOffset, cells |-> sofar] ELSE NoRow
  IN  IF Len(sofar) > MaxCells THEN NoRow
      ELSE IF bar > 0 THEN RowFrom(s, lineOffset, after, sofar)
      ELSE IF next \in {after, Len(s)} THEN Found
      ELSE RowFrom(s, next, next + Matched(table_cell_end(From(s, next + 1))), <<>>)

RowCell(s, lineOffset, offset, cells, cell, bar) ==
  RowAfter(s, lineOffset,
           IF cell + bar > 0 THEN Append(cells, Cell(s, lineOffset, offset, cell)) ELSE cells,
           bar, offset + cell + bar,
           offset + cell + bar + Matched(table_row_end(From(s, offset + cell + bar + 1))))

RowAt(s, lineOffset, offset, cells, cell) ==
  RowCell(s, lineOffset, offset, cells, cell, Matched(table_cell_end(From(s, offset + cell + 1))))

RowFrom(s, lineOffset, offset, cells) ==
  IF offset < Len(s)
  THEN RowAt(s, lineOffset, offset, cells, Matched(table_cell(From(s, offset + 1), Spoiler)))
  ELSE IF offset = Len(s) THEN [lineOffset |-> lineOffset, cells |-> cells] ELSE NoRow

row(s) == RowFrom(s, 0, Matched(table_cell_end(s)), <<>>)

Alignment(content) ==
  LET left == content # <<>> /\ content[1] = ":"
      right == content # <<>> /\ Last(content) = ":"
  IN  IF left /\ right THEN "center" ELSE IF left THEN "left" ELSE IF right THEN "right" ELSE "none"

-------------------------------------------------------------------------------
(* A line of a paragraph, and the header of a table.                            *)

Indented(l) == l.indent >= 4
Blankly(l) == \A i \in DOMAIN l.bytes : l.bytes[i] \in SpaceChar

AddLine(p, l) == [p EXCEPT !.content = @ \o l.bytes, !.offsets = Append(@, l.indent)]

\* Only the first failure to match a row of hyphens is remembered
TryHeader(l) == ~Indented(l) /\ ~paragraph.visited /\ table_start(l.bytes) # None

\* The line l reads as these cells, and the paragraph ends in this header
OpensTable(l, cells, header) ==
  /\ TryHeader(l)
  /\ cells # <<>> /\ Len(cells) = Len(header.cells)

paragraph_line(l, cells, header) ==
  /\ table = Absent /\ ~Blankly(l)
  /\ source' = Append(source, l)
  /\ IF paragraph = Absent
     THEN /\ ~Indented(l)
          /\ paragraph' = [content |-> l.bytes, offsets |-> <<l.indent>>, line |-> Len(source) + 1,
                           column |-> l.indent + 1, visited |-> FALSE]
     ELSE /\ ~OpensTable(l, cells, header)
          /\ paragraph' = [AddLine(paragraph, l) EXCEPT !.visited = @ \/ TryHeader(l)]
  /\ UNCHANGED <<preface, table>>

\* The blocks that can_contain_type a paragraph: those the parser puts one in
can_contain_paragraph ==
  Container \in {"Document", "BlockQuote", "FootnoteDefinition", "DescriptionTerm", "DescriptionDetails", "Item",
                 "TaskItem", "MultilineBlockQuote", "Alert", "BlockDirective", "LemmySpoiler"}

\* try_inserting_table_header_paragraph: the lines before the header stay a paragraph, in
\* the block it was in; were that one to take no paragraph, nothing is inserted and the
\* table begins where the paragraph did
Preface(p, offset) ==
  LET before == SubSeq(p.content, 1, offset)
      lines == LinesIn(unescape_pipes(before))
      body == SubSeq(before, 1, offset - LineEnding(before))
  IN  [content |-> Trim(unescape_pipes(before)), offsets |-> SubSeq(p.offsets, 1, lines), line |-> p.line,
       endLine |-> p.line + lines - 1,
       endColumn |-> p.offsets[lines] + Len(body) - Max({0} \cup {i \in DOMAIN body : body[i] = "\n"})]

\* A cell of the tree, its row's first byte in column `column'
NodeOf(cell, column) ==
  [content |-> cell.content, column |-> column + cell.start, endColumn |-> column + cell.end,
   offset |-> column + cell.start - 1 + cell.internal]

adjust_table_counters(t, nodes, parsed, at) ==
  [t EXCEPT !.rows = Append(@, [line |-> at, cells |-> nodes, parsed |-> parsed]),
            !.numRows = @ + 1, !.nonempty = @ + parsed]

try_opening_header(l, delimiters, header) ==
  /\ table = Absent /\ paragraph # Absent
  /\ OpensTable(l, delimiters, header)
  /\ LET before == header.lineOffset
         inserts == before > 0 /\ can_contain_paragraph
         lines == IF inserts THEN LinesIn(unescape_pipes(SubSeq(paragraph.content, 1, before))) ELSE 0
         at == paragraph.line + lines
         column == IF inserts THEN paragraph.offsets[lines + 1] + 1 ELSE paragraph.column
         Empty == [alignments |-> [i \in DOMAIN delimiters |-> Alignment(delimiters[i].content)],
                   columns |-> Len(header.cells), numRows |-> 0, nonempty |-> 0, rows |-> <<>>, open |-> TRUE]
         nodes == [i \in DOMAIN header.cells |-> NodeOf(header.cells[i], column - before)]
     IN  /\ table' = adjust_table_counters(Empty, nodes, Len(nodes), at)
         /\ preface' = IF inserts THEN Preface(paragraph, before) ELSE Absent
  /\ paragraph' = Absent
  /\ source' = Append(source, l)

-------------------------------------------------------------------------------
(* A row.                                                                       *)

get_num_autocompleted_cells ==
  IF table.columns * table.numRows < table.nonempty THEN 0
  ELSE table.columns * table.numRows - table.nonempty

OpensRow(l, cells) ==
  /\ table # Absent /\ table.open
  /\ ~Blankly(l) /\ ~Indented(l)
  /\ cells # <<>>
  /\ get_num_autocompleted_cells <= MaxAutocompleted

try_opening_row(l, cells) ==
  /\ OpensRow(l, cells)
  /\ LET parsed == Min({table.columns, Len(cells)})
         column == l.indent + 1
         nodes == [i \in 1..parsed |-> NodeOf(cells[i], column)]
         last == nodes[parsed].endColumn
         Filled == [content |-> <<>>, column |-> last + 1, endColumn |-> last + 1, offset |-> None]
     IN  table' = adjust_table_counters(table, nodes \o [i \in 1..table.columns - parsed |-> Filled],
                                        parsed, Len(source) + 1)
  /\ source' = Append(source, l)
  /\ UNCHANGED <<paragraph, preface>>

\* A line that is no row, or one row too many, begins another block
CloseTable(l, cells) ==
  /\ table # Absent /\ table.open
  /\ ~OpensRow(l, cells)
  /\ table' = [table EXCEPT !.open = FALSE]
  /\ source' = Append(source, l)
  /\ UNCHANGED <<paragraph, preface>>

LineRead(l, cells, header) ==
  \/ paragraph_line(l, cells, header) \/ try_opening_header(l, cells, header)
  \/ try_opening_row(l, cells) \/ CloseTable(l, cells)

table_line(l) ==
  LineRead(l, row(l.bytes).cells, IF paragraph = Absent THEN NoRow ELSE row(paragraph.content))

-------------------------------------------------------------------------------
(* Properties.                                                                  *)

\* The bytes of source line n from column i to column j
Columns(n, i, j) == SubSeq(source[n].bytes, i - source[n].indent, j - source[n].indent)

\* The pieces of a line between the bars that split it: those with no backslash
\* before them (and no bar beside them that makes them a spoiler's)
Bars(s) == {i \in DOMAIN s : s[i] = "|" /\ (i = 1 \/ s[i - 1] # "\\")}
Pieces(s) ==
  LET body == SubSeq(s, 1, Len(s) - LineEnding(s))
      Read(pieces, i) == IF i \in Bars(body) THEN Append(pieces, <<>>)
                         ELSE [pieces EXCEPT ![Len(pieces)] = Append(@, body[i])]
      split == FoldLeftDomain(Read, <<<<>>>>, body)
      all == [k \in DOMAIN split |-> Trim(unescape_pipes(split[k]))]
      opened == IF body # <<>> /\ body[1] = "|" THEN Tail(all) ELSE all
  IN  IF opened # <<>> /\ Last(opened) = <<>> THEN Front(opened) ELSE opened

\* Every row has a cell for every column of the header: the pieces of its line
\* between unescaped bars, as far as there are columns, and then empty ones.  Source
\* of it: two scanners, a loop over both and a second pass that unescapes.
RowsAreTheirLines ==
  table # Absent =>
    \A r \in DOMAIN table.rows :
      LET cells == table.rows[r].cells
          pieces == Pieces(source[table.rows[r].line].bytes)
      IN  /\ Len(cells) = Len(table.alignments) /\ table.columns = Len(table.alignments)
          /\ \A k \in DOMAIN cells : cells[k].content = IF k <= Len(pieces) THEN pieces[k] ELSE <<>>

\* A cell that was read is where its position says: its text is what the source has
\* between the columns it was given, for a header in the middle of a paragraph too,
\* the inlines in it count their columns from the text's first byte, and cells of a
\* row do not overlap.
CellsAreWhereTheySay ==
  table # Absent =>
    \A r \in DOMAIN table.rows :
      LET n == table.rows[r].line
          cells == table.rows[r].cells
      IN  \A k \in 1..table.rows[r].parsed :
            LET c == cells[k]
            IN  /\ c.column <= c.offset + 1 /\ c.offset <= c.endColumn
                /\ Trim(unescape_pipes(Columns(n, c.offset + 1, c.endColumn))) = c.content
                /\ Trim(Columns(n, c.column, c.offset)) = <<>>
                /\ k > 1 => cells[k - 1].endColumn < c.column

\* A paragraph cut by a table keeps every line before the header's, with the offset
\* of each (the inlines of line n look theirs up), and ends where the last of them
\* does; the header's row is the next line.
PrefaceIsWhole ==
  preface # Absent =>
    LET Lines == SubSeq(source, preface.line, table.rows[1].line - 1)
    IN  /\ preface.content = Trim(unescape_pipes(FoldLeft(LAMBDA s, l : s \o l.bytes, <<>>, Lines)))
        /\ preface.offsets = [i \in DOMAIN Lines |-> Lines[i].indent]
        /\ preface.endLine = preface.line + Len(Lines) - 1
        /\ LET l == Last(Lines) IN preface.endColumn = l.indent + Len(l.bytes) - LineEnding(l.bytes)

\* The two counters tell how many cells were filled in, and a table has at most one row
\* more than the limit on those allows
FilledInCounted ==
  table # Absent =>
    LET FilledIn(r) == Len(table.rows[r].cells) - table.rows[r].parsed
        all == MapThenSumSet(FilledIn, DOMAIN table.rows)
    IN  /\ get_num_autocompleted_cells = all
        /\ all < MaxAutocompleted + table.columns + 1

\* A table's cells are the pieces of their lines and lie where they say, but those filled in,
\* which are counted; and what was in front of its header is a paragraph still
CellsAreTheirSource == RowsAreTheirLines /\ CellsAreWhereTheySay /\ PrefaceIsWhole /\ FilledInCounted
===============================================================================
