------------------------------- MODULE LineScans -------------------------------
\* What the callers of the scanners rely on, asked of a line as it is typed: that a
\* length can be cut off the line, that what opens a fence closes it, and that the
\* order in which a caller asks its scanners does not decide what it reads.
EXTENDS Scanners

VARIABLE input     \* the line so far

type(chunk) == input' = input \o chunk

\* Every scanner that answers with a length.  table_start is not one: its callers only
\* ask whether it matched
Lengths(s) ==
  {open_block_directive_fence(s), close_block_directive_fence(s), atx_heading_start(s),
   atx_subtext_start(s), open_code_fence(s), close_code_fence(s), html_tag(s), html_comment(s),
   html_processing_instruction(s), html_declaration(s), html_cdata(s), footnote_definition(s),
   description_item_start(s), open_multiline_block_quote_fence(s),
   close_multiline_block_quote_fence(s), tasklist(s).len, table_cell(s, TRUE), table_cell(s, FALSE),
   table_cell_end(s), table_row_end(s), scheme(s), autolink_uri(s), autolink_email(s), spacechars(s),
   link_title(s), dangerous_url(s), ipv6_url_start(s), ipv6_relaxed_url_start(s), shortcode(s),
   phoenix_opening_tag(s), phoenix_block_closing_tag(s), phoenix_closing_tag(s),
   phoenix_self_closing_tag_end(s), phoenix_directive(s), phoenix_block_directive_start(s),
   phoenix_block_expression_start(s)} \ {None}

\* The byte at n, were a text cut after n bytes, does not continue a character
Boundary(s, n) == n >= 0 /\ n <= Len(s) /\ Peek(s, n + 1) # "A9"

\* The readings of a line that open_new_blocks tries one after another
Openings(s) ==
  {k \in 1..8 :
     CASE k = 1 -> open_block_directive_fence(s) # None
       [] k = 2 -> atx_heading_start(s) # None \/ atx_subtext_start(s) # None
       [] k = 3 -> open_code_fence(s) # None
       [] k = 4 -> html_block_start(s) # None \/ html_block_start_7(s) # None
       [] k = 5 -> setext_heading_line(s) # "none"
       [] k = 6 -> footnote_definition(s) # None
       [] k = 7 -> description_item_start(s) # None
       [] k = 8 -> open_multiline_block_quote_fence(s) # None \/ alert_start(s) # "none"}

\* The readings of what follows a "<" that handle_pointy_brace tries
Angles(s) == {k \in 1..3 : CASE k = 1 -> autolink_uri(s) # None
                             [] k = 2 -> autolink_email(s) # None
                             [] k = 3 -> html_tag(s) # None}

OneLine == \A i \in 1..Len(input) - 1 : input[i] \notin {"\r", "\n"}

\* The bytes of a line without its end and the blanks around it
Bare(s) == SelectSeq(s, LAMBDA c : c \notin SpaceChar)

\* A length is never more than there is to cut, though some patterns match past the end
\* of the line, and never cuts a character in two
LengthsCut == \A n \in Lengths(input) : n > 0 /\ Boundary(input, n)

\* A line that closes a fence would open one of the same length, so a nested fence is
\* told from an end by its length alone
ClosersOpen ==
  /\ close_code_fence(input) \in {None, open_code_fence(input)}
  /\ close_block_directive_fence(input) \in {None, open_block_directive_fence(input)}

\* No text is read in two ways, so the order of the tests is of no account; but a line of
\* hyphens, which underlines a heading, is a table's too
OneReading ==
  OneLine =>
  /\ Cardinality(Openings(input)) <= 1
  /\ Cardinality(Angles(input)) <= 1
  /\ setext_heading_line(input) = "-" => table_start(input) # None
  /\ table_start(input) # None => \A i \in DOMAIN Bare(input) : Bare(input)[i] \in {"-", ":", "|"}

\* A tag alone on its line begins an HTML block, as does any of the other kinds of raw HTML
TagsBegin ==
  OneLine =>
  \A n \in {html_tag(Tail(input))} \cap 1..Len(input) :
    input[1] = "<" /\ (\A i \in n + 2..Len(input) : input[i] \in {" ", "\t"})
    => html_block_start(input) # None \/ html_block_start_7(input) # None

\* The lengths can be cut, what closes opens, no line has two readings
ScansAgree == input # <<>> => LengthsCut /\ ClosersOpen /\ OneReading /\ TagsBegin
===============================================================================
