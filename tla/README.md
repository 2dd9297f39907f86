# A verification development for comrak

comrak turns Markdown (CommonMark, GFM and a good many extensions) into HTML, CommonMark, XML or a
"blob", a text with a table of ranges for a mobile view. It is a single-threaded library: nothing
waits, nothing is sent over a network, nothing is persisted. What makes it hard is different. A
document is parsed in passes that leave state for one another (an open path in a tree, a stack of
delimiters, a map of definitions, counters), each pass rewrites the tree the one before built, and
shortcuts (caches, cursors, flags, assumed ASCII) must not change what the plain algorithm would
do. Long sequences of ordinary lines reach combinations that no test was written for, and an
`assert!` is a panic in the reader's process. The modules here model those passes; TLC checks them
on small inputs exhaustively, and TLAPS proves what matters most for all of them.

Paths are those of the repository; `mod.rs` is `src/parser/mod.rs`, and so on.

## 1. Inventory

| component | source | state it keeps | modelled |
|---|---|---|---|
| Arena tree | `arena_tree.rs` | five pointers a node; iterators hold their next node | yes |
| Typed arena | `arena.rs` | the buffer in use, those put by; a drain's place | yes |
| Spare strings and line vectors | `nodes.rs`, `mod.rs` | `SPARE_STRINGS`, `SPARE_BLOCKS` of the thread, `working_content`, string arena | yes |
| Block parser | `parser/mod.rs`, `nodes.rs` | open path, `current`, `open`, `last_line_blank`, list data, reference map | partly |
| Inline parser: delimiters, brackets | `parser/inlines.rs` | delimiter list, bracket stack, `no_link_openers`, `openers_bottom` | partly |
| Inline parser: leaf inlines | `parser/inlines.rs` | `pos`, `line`, `column_offset`, `backticks`, `scanned_for_backticks`, skip flags, dead zone | partly |
| Addresses in text | `parser/autolink.rs` | none; matched against bytes already in the tree | yes |
| Scanners | `scanners.re`, `scanners.rs`, `phoenix_heex.rs` | none | yes |
| Tables | `parser/table.rs` | rows, cells, counters of the cells filled in, the paragraph cut in two | yes |
| Text postprocessing | `mod.rs` (`postprocess_text_nodes`, `Spx`) | joined text, queue of source columns | yes |
| Reference definitions and lookups | `mod.rs`, `inlines.rs` | `RefMap`: `map`, `ref_size`, `max_ref_size` | yes |
| Heading ids | `html/anchorizer.rs` | ids given, `next_suffix` | yes |
| Footnotes | `mod.rs`, `inlines.rs`, `html.rs` | `FootnoteDefs`, `fd_map`, `ref_num`, `footnote_ix`, `written_footnote_ix` | yes |
| HTML renderer | `html.rs`, `html/context.rs` | traversal stack, `last_was_lf`, heading kept, footnote indices | all but attributes, positions and adapters |
| Blob writer | `blob.rs` | text, `len` in UTF-16 units, `all_ascii`, newlines owed, open containers, tiles | all but the bytes of the format |
| Blob translation | `blob/translate.rs` | plan of pieces, edges, moved ranges, markers seen | partly |
| CommonMark formatter | `cm.rs` | `need_cr`, prefix, `begin_line`, `begin_content` | no |
| Alerts, front matter, HEEx blocks, attributes | `mod.rs`, `phoenix_heex.rs` | none that outlives its line | no |
| XML, text, string helpers, entities | `xml.rs`, `text.rs`, `strings.rs`, ... | none | no: pure functions of a tree or string |
| Web pages and sites to blobs | `blob/html.rs`, `blob/article*`, `blob/site*` | scores of elements | no: heuristics over data |
| Command line, options, adapters | `main.rs`, `lib.rs`, `options.rs`, `plugins/` | none between calls | no: I/O and arguments |

**How they interact.** `Parser::parse` feeds each line to `process_line`, which grows the tree of
blocks through the arena tree's methods; nodes live in the typed arena, their text in buffers the
thread may have spare. `finalize` takes reference definitions from the front of a paragraph, and the
table code cuts a paragraph in two. `finalize_document` closes what is open, then `process_inlines`
traverses the tree and lets a `Subject` append inlines to the blocks it is handed (the iterator must
survive that), consulting the reference map the block phase filled. Inline footnotes leave definitions
in `FootnoteDefs` that are appended to the document afterwards; `process_footnotes` then pairs, numbers
and moves definitions; text postprocessing joins texts and finds addresses. The formatters traverse
the result: the HTML one keeps the Anchorizer and the footnote indices, the blob one a writer whose
output `blob/translate.rs` reads back, cuts up for a translator and puts together again.

**What is hard, by component, and what makes it correct.**

* *Arena tree.* A node is detached from, moved in and inserted into a list by rewriting up to six
  pointers of four nodes, in an order that reads fields written a line before. Correct: the five
  pointers always say what plain lists of children would; no node is below itself; an iterator hands
  out what was there when it was made, although the loop bodies detach or fill the node in hand.
* *Typed arena.* References stay good while values are added: a buffer that is full is put by and
  never grows. Correct: what the references read is a list that only grows, and a drain hands it out
  once and in order.
* *Buffers.* The text of a block goes from `working_content` to a literal, the string arena, a cell
  or the thread's spares and back; who takes it must empty it. Correct: no block, and no later
  document, holds a line it was not given.
* *Block parser.* Three descents over the open last children (matching, the closing loop,
  laziness) must meet each other although blocks are finalized early by fences, comment ends, HTML
  ends and description lists. Correct: no assert fails and no climb leaves the root; the tree obeys
  `can_contain_type`; at the end everything was finalized; the first definition of a label wins;
  tight lists are those without blank lines; every loop ends.
* *Delimiters and brackets.* `openers_bottom` remembers failed searches; brackets trigger the pairing
  of what is inside them; two runs shrink from both ends. Correct: the cache hides no opener; the
  nodes nest; the lengths never underflow; in a text without tildes nothing that could be paired is left
  (with tildes something is: finding 2); the loop ends.
* *Leaf inlines, addresses.* Each handler moves `pos` and, when it crosses lines, `line` and
  `column_offset`, which every later one reads; failed searches are remembered; an address is found
  when its first letters are in the tree already. Correct: the leaves are the block's bytes, each where
  it says it is in the source; what is remembered changes nothing that is found, but for exceptions that
  are stated exactly and of which one is a finding.
* *Scanners.* A pattern may match the byte read past the end; callers cut by the length they get, and
  ask several scanners in an order. Correct: a length can be cut, what opens a fence closes it, no line
  has two readings.
* *Tables.* Offsets of cells are computed after escapes and blanks are taken away; the number of cells
  filled in is reckoned from two counters. Correct: cells are the pieces of their lines, where they say;
  the counters count; the text before the header stays a paragraph.
* *Text postprocessing.* Joined texts are cut again, and `Spx` hands out the columns of each cut,
  where a span may be longer or shorter than its bytes. Correct: the columns are those of the text cut
  off, no byte is lost, the assert holds.
* *References.* A definition's title may be on the next line, or not be one, and the reader goes back;
  lookups share a budget. Correct: exactly what the grammar calls a definition is taken; the first
  keeps its label; the budget is exact.
* *Heading ids.* A per-text suffix cache over a set of ids all texts share. Correct: ids are
  distinct, and the same ones the uncached search gives.
* *Footnotes.* Definitions can be nested, doubled, in another case, inline and inside each other;
  references are counted in a walk that sees definitions later removed. Correct: each reference
  leads to an item, numbers agree with positions, links back lead to references and are written once.
* *HTML renderer.* A stack stands for a recursion; what a node writes on the way in and on the way
  out depends on its parent, siblings, children and options, and tight paragraphs write no tags at
  all. Correct: tags close in the order they opened (unless a definition left inside a block begins the
  notes' section there, a finding), alt texts hold no tags, the stack visits what
  the recursion would, and words of two blocks never run together.
* *Blob writer.* The length is counted in bytes until a symbol outside ASCII shows that it cannot be,
  and the walk is done again; newlines are owed; an item's paragraphs are walked before its lists.
  Correct: each record lies over the words of its node and no others in UTF-16 units; a reader's tiles
  part the text, and name the places where it can be cut.
* *Blob translation.* A translator loses, doubles, reorders and invents markers. Correct: kept text
  comes back once, records stay over what they covered, or are dropped. Two kinds of kept parts
  do not come back: those over an empty line (a finding) and those in what is taken for the writer's domain.

There are no threads, locks, crashes, messages or timeouts in this code, so no run has them;
the unreliable party is the translator, and the concurrency is that of an iterator with its loop's
body. `PROJECT.json` lists every hazard at its line, with the properties that would catch it.

## 2. The modules

| module | models | state ↔ code |
|---|---|---|
| `ArenaTree` | each method that writes pointers | `links` = the five `Cell`s; `kids` = history of the intended lists |
| `TreeWalk` | `ArenaTree` + the iterators and the bodies that change the tree under them | `iter.next` = the iterator's field; `plan`, `seen` history |
| `GrowingList` | what an arena promises (abstract) | `list`, `leaving`, `each` |
| `TypedArena` | `with_capacity`, `alloc`, `grow`, `drain` | `chunks` = `ChunkList` (`rest`, `current`) over every buffer there has been; `refs`, `going` history |
| `SpareBuffers` | `take_block`, `give_block`, `give_string`, `take_content`, every way of a block's buffer | `spareBlocks`, `spareStrings`, `working` = `working_content`, `strings`; `own` history |
| `BlockParser` | `process_line`, `finalize*` | `nodes` = the blocks; `current`; `refs` = `refmap`; `scan` = program counter and locals of the loops; `panicked` = a failed assert; `vocabulary` = the lines its input is made of |
| `Inlines` | `process_emphasis`, `insert_emph`, bracket stack | `stack` = delimiter list; `left` = lengths of the texts; `emph` = locals of `process_emphasis`; `noLink` |
| `Scanners` | every scanner, as its pattern in `scanners.re` | none: operators over a text |
| `LineScans` | what callers ask of scanners | `input` = the line typed so far |
| `Autolinks` | `autolink.rs` and the bounds of an address | none |
| `LeafInlines` | `parse_inline` and its handlers | names of the code (`pos`, `line`, `columnOffset`, `backticks`, `scanned`, `flags`, `deadZone`); `leaves` = inlines made |
| `Tables` | `try_opening_header`, `try_opening_row`, `row`, `try_inserting_table_header_paragraph`, the counters | `paragraph`, `preface`, `table`; `source` history |
| `TextPost` | `postprocess_text_nodes`, `Spx`, task items, mentions, email addresses | `nodes`, `walk` = `it`, `task`, `panicked`; `pieces` history |
| `References` | `parse_reference_inline`, `resolve_reference_link_definitions`, `RefMap::lookup` | `content`, `refmap`, `refSize`; `whole`, `looked` history |
| `HeadingAnchors` | what heading ids promise (abstract) | `given` = headings with their ids |
| `Anchorizer` | `anchorize`'s loop and cache | `ids`, `next_suffix` as in the code; `call` = locals |
| `Footnotes` | definitions from parsing to the list of notes | `defs`, `fdMap`, `nextIx`, `node[n].ix/num`, `written` = `footnote_ix`, `written_footnote_ix` and the output |
| `DocTree` | the finished tree, `can_contain_type`, and what the parser makes of it (`IsDocument`) | `doc`, read only |
| `HtmlRender` | `format_document_with_formatter`, every `render_*`, `Context` | `stack`, `footnote_ix`, `written_footnote_ix` as in the code; `heading` = `current_heading_text` and `current_anchorized_id`; `out` = tokens written; `visits` history |
| `BlobWriter` | `render_blob`, `visit`, `walk`, `next_child`, `enter`, `leave`, `write_text`, `into_blob` | `writer` = `BlobWriter`; `held` = the walk's containers; `at` = place in the walk; `blob` = what comes out |
| `BlobTranslate` | `Plan::of`, `write_answer`, `build_translated_blob` | names of the code; `text` = places copied, words |
| `*Proofs` | theorems and proofs about the module named; `MemoryProofs`, about `TypedArena` and `SpareBuffers` | |
| `MC*` | the inputs of the runs; `MCMemory`, `MCRendering`, `MCBlobs`, `MCTexts` put together what a run asks about, `MCTrees` makes trees | |

**Abstractions.** Each module keeps the control of its code and as much of the data as its properties
tell apart.

* `BlockParser`: a line is a short sequence of tokens (a marker with its blank, two columns of
  indentation, a fence of three or four characters, a definition, text). The parser's columns and
  scanners decide which token a line starts with; the model starts after that decision, and `Scanners`
  has the decision.
* `Inlines`: a text is a sequence of runs that carry what `scan_delims` found (which character, how
  long, can it open, can it close) and of brackets that carry whether a destination or label resolves.
* The text modules (`Scanners`, `LineScans`, `Autolinks`, `LeafInlines`, `Tables`, `TextPost`,
  `References`) are about bytes and work on bytes: their properties are about lengths, offsets and what
  is remembered of a text. A text is a sequence of one-byte symbols, with `"C3", "A9"` for a character
  of two bytes. Scanners are written with a few combinators (`Then`, `Either`, `Many`, `Longest`), so
  that a pattern of `scanners.re` is one line and nothing of re2c's table is in the model.
* `Anchorizer`: texts are words with suffixes, as only equality with a suffixed text matters.
  `Footnotes`: a name is a base, a number and a case: matching folds the case, the page shows it.
* `HtmlRender`: the output is a sequence of tags, words of nodes and newlines; an option holds for the
  document, and so do tightness and the kind of its lists. `BlobWriter`: words are glyphs with their
  widths in bytes and in UTF-16 units, and a record is a kind, a range and what it carries.
* `BlobTranslate`: a translated text is a sequence of places of the old text, ends of lines and words
  of the translator, so "the kept part came back" is a statement about places.
* `SpareBuffers`: the text of a buffer is the set of the lines it is of, and a capacity is none, some
  or too much.

Loops with a body that matters are machines with a program counter (matching, `add_child`'s search
for a parent, the closing loop, the emphasis closer, `anchorize`'s suffixes, `parse_inline`, the walk
of postprocessing, the walks of `process_footnotes`, both renderers, the two loops of the
translation), so their ends are properties and not assumptions; the body of one handler is one action
with every call it makes. No two of the components run concurrently, so a composition is a sequence or
a choice: `TreeWalk` extends `ArenaTree` with a caller that interleaves iterator steps and tree calls,
`Footnotes` carries one document through parsing, numbering, moving and rendering, `LeafInlines` and
`TextPost` call `Autolinks` and `Scanners`, and both formatters read one `DocTree`.

**Recursion.** The proof modules reach no `RECURSIVE` operator. Those there are (`EdgesBelow` in
`TreeWalk`; repetition and skipping in `Scanners`, `Autolinks`, `LeafInlines`, `References`, `Tables`,
`TextPost`) are in modules that only TLC evaluates.

## 3. The runs

| run | bound | asks |
|---|---|---|
| `memory` | 4 nodes, any sequence of calls; 5 buffers begun; 3 blocks and 3 lines over any number of documents | do the pointers implement the lists; do iterators hand out what was there and end; is an arena a growing list; does text stay in its block |
| `blocks` | 8 topics of 8-16 kinds of lines, three of them with container fences (of two lengths) or descriptions; 4 lines, 5 for nested lists; any 2 lines of all kinds | asserts, open path, valid tree (as `WellFormed`), all loops end; for calm inputs: all closed, first definition, tight lists |
| `blocks_fence_close` | one topic of 4 lines | finding, below |
| `tilde_ends_emphasis` | 4 runs of tildes and stars | finding |
| `texts` | 4 delimiter runs (three lengths, three flankings), 5 tokens with brackets, or 7 brackets (4 topics); lines of 3-4 chunks (5 topics); blocks of 3-6 chunks (10 topics); tables of up to 7 lines (4 topics); up to 4 children of a block (4 topics); paragraphs of 4-5 chunks with 3 lookups | opener cache exact, nodes nest, no underflow, nothing missed in texts without tildes, process_emphasis ends; scanners, leaf inlines, tables, postprocessing and references against their source |
| `code_span_lost` | the topic of backticks | finding |
| `mention_before_entity` | 4 children of a block | finding |
| `rendering` | every tree over nine families of kinds, of up to 3 to 8 nodes by family, 1 to 3 sets of options each, formatters that skip or flatten a kind; 4 footnote nodes nested two deep, 4 names; 6 headings over 6 colliding texts | do tags nest (a section begun in a block apart), is the stack the recursion, are blocks apart; numbers, targets, links back; ids distinct, `HeadingAnchors` implemented, each call ends |
| `footnote_leftovers` | 3 nodes | finding |
| `footnote_section` | one document | finding |
| `blobs` | every tree of up to 4-5 nodes over seven families, for a reader or not; every text of 4 characters with up to one kept part and link, or two links, and two pages with answers of up to 4 tokens | records over their words, tiles part the text; kept once, records exact, copies apart |
| `translation_code` | one page | finding |

What the properties of `texts` say, beside those of the delimiters, one for a stage: `ScansAgree` (a
length can be cut off the line, fences that open close, the order of the questions does not matter, a
tag alone begins a block); `LeavesAreTheirSource` (the leaves tile the block, and the `line`, `column`
of each are those of its bytes); `CachesSaveWork` (backticks and the four skip flags change nothing that
is found, with three exceptions that it states: after a comment that never ends declarations and CDATA
sections are text, after a processing instruction that never ends so are those that end in `??>`, and a
run of backticks may stay text if an earlier code span holds one of its length; finding 6 shows the
third); `CellsAreTheirSource`; `ColumnsHandedOut`; `DefinitionsAsSpecified` (against a grammar written
as one expression); `LookupsExact`.

**Why these bounds.** Four nodes are the fewest with a node, its parent, and both siblings, the nodes
one call of a tree method writes. Five buffers let capacities double and then stay, before and after a drain.
Three blocks and lines let a buffer go from a block to the pool, to a block of the next document and
to its string arena. A block bug needs an opening, something below it, a line that closes
or interrupts, and a line that meets the result: four lines; nested lists need a fifth, for the blank
between two levels. The failed-search cache needs an opener, a closer that fails, and a closer of
another class that does not: three runs, and a fourth to be hidden. Chunks are the spellings that the
byte code treats specially and their neighbours (`<!--`, a run of one to three backticks, `[a]:`, half
an address); a handler's memory needs what fills it, what is skipped because of it, and something
after. A table needs its header, delimiters, and enough short rows to meet the limit on filled cells.
Six headings let a text's cached suffix run into two ids that other texts took. Two definitions of a
label, a reference and a container for one of them make four footnote nodes. What a node writes
depends on no more than its grandparent, its siblings and its children, so three levels and two
siblings of every kind meet each condition; a table with two rows of a cell each, or a description
list with a term and details, needs the larger trees. In the translation every kind of piece meets
every other within a line of four characters, and an answer of four tokens doubles one marker, invents
another and loses the rest. The mutants in `PROJECT.json` show each property failing under the same
configuration when one definition has a plausible bug.

**Constants made small.** These are limits of the code given to the runs at a size they reach:
`MaxTicks` 3 (80), `MaxDomainDots` 2 (10), `MinName`/`MaxName` 1/2 (3/20),
`MaxAutocompleted` 4 (500000), `MaxCells` 5 (65535), `MaxLabel` 8 (1000), `MaxParens` 2 (32), `MaxRefSize`
20 (100000), `SpareMax` 2 (256), `MaxUrlOffset` 2 (entries of the url data, for
`MAX_URL_OFFSET` in bytes), `FirstCapacity` 1 (the `n` of
`with_capacity`), `MinCapacity` 2 (16), `MaxDepth` 2 (5,
`MAX_INLINE_FOOTNOTE_DEPTH`). `Container` is no limit but the block a table's paragraph is in, an
item. **Bounds of the runs**, in guards: `MaxLines`, `MaxTokens`, `MaxHeadings`,
`MaxNodes`, `MaxBlocks`, `MaxBuffers`, and a topic's `most`. No counter of the code is cut off.

**Deadlock.** A module that reads an input has a `Done` step for its end, so that a deadlock is a loop
of the code that is stuck. `CHECK_DEADLOCK FALSE` is in the configurations whose systems really
stop: a line that has been scanned, a block whose inlines are all there (`Texts*.cfg`; that
process_emphasis does not get stuck is `EmphasisEnds`),
and an arena or a thread that has reached the bound of the run (`Memory.cfg`; the tree never stops).

**Fairness.** Weak fairness of the program's own steps only (`Step`, `Process`, which is a step of
process_emphasis, `Advance \/ Choose`, `NextSibling \/ NextEdge \/ Drop`): a single thread that is
inside a loop goes on. None of the input: a caller may stop giving lines, tokens or headings at any
time. So `LinesEnd`, `EmphasisEnds`, `CallsEnd` and `WalkEnds` say that the code's loops come to their
ends, and nothing about callers.

### What the runs found

Seven runs are expected to violate their property, which is what the repository says of itself:

1. `blocks_fence_close`: a closing fence of a directive, spoiler or multiline quote should close
   what is below it (comments, `mod.rs:725-732`), but the descent stops at a list: an open item and
   its open code block are never finalized, and the code block's text is lost.
2. `tilde_ends_emphasis`: `insert_emph` refuses a `~`/`~~` pair it is called for, its `None` ends
   `process_emphasis`, and emphasis after it stays text, in `~~a~ *b*`. The refused pair itself, which
   is never one, does not count as missed.
3. `footnote_leftovers`: unreferenced definitions are removed, `options.rs:942` says; the earlier of
   two definitions of one label stays where it stood.
4. `footnote_section`: such a definition, rendered where it stood, opens the section of the notes
   (`html.rs:1056`), which the document's end closes (`context.rs:52`): inside a block quote the tags do not
   nest. `options.rs:946` has the formatters expect definitions at the end.
5. `translation_code`: code after an empty line in a code block is sent as words to translate.
6. `code_span_lost`: the backtick cache, complete once a search has failed, is overwritten by a later
   search that succeeds (`inlines.rs:2283`), so in ``` ``a`a`a`a`a ``` the second code span stays text.
7. `mention_before_entity`: the assertion of `Spx::consume` (`mod.rs:3365`), whose failure the comment
   at `mod.rs:3343` calls a bug, fails for `@abc@x.y &amp; foo@bar.com` with `lemmy_mention` and
   `autolink`: the text after a mention is joined as one span, whose columns are no longer its bytes.

Facts the models show that nothing in the repository promises otherwise:

* *Blocks.* An outer fence that closes over a spoiler of definitions leaves the spoiler empty
  (`mod.rs:2403`). `TightMeansNoBlank` has the premise that no definition left the tree (its lines are
  gone, and with them the blank's neighbours). Definitions taken from a paragraph's front change neither
  its start line nor its `offsets`, so the positions of inlines after them are lines too early. A
  multiline comment's literal is not given back to the thread's spares.
* *Inlines.* In `[a [b](c) [d] e](f)` a link is made around a link (`inlines.rs:1888`; `NodesNest` says
  exactly when). After a comment that never ends, the flag meant for comments hides declarations and
  CDATA sections (`inlines.rs:771`), as in `<!--<!A b>`, raw HTML by CommonMark; and a processing
  instruction that ends in `??>` is text after one that never ends, as in `<?<??>`. Wiki links, inline
  footnotes and attributes that cross lines do not advance `line`. The scanners know no CDATA that ends
  in `]]]>` and no comment that ends in `--->`.
* *References.* A backslash before a line's end inside `<...>` is skipped together with the end. The
  paragraph cut off in front of a table is never finalized, so a definition in it defines nothing.
* *Tables.* `\\|` does not cut a cell, as any backslash before the bar escapes it, while
  `unescape_pipes` keeps pairs; an empty cell ends a column before it starts; a vertical tab or form
  feed at a cell's start moves its offset.
* *Postprocessing.* A task symbol given as an entity (`[&#120;]`) gets wrong columns.
* *Footnotes.* A reference in a removed definition leaves a link back that leads nowhere
  (`mod.rs:2631`). `NumbersAgree` and `LinkedBackOnce` say in their premises which nestings the code
  does not handle.
* *HTML.* With `compact_html`, raw HTML between two tight paragraphs leaves their words with nothing
  between them but that HTML (`WordsApart` leaves this case out); the emoji of a shortcode is not in an
  image's alt text. `validate` accepts a table's cell outside a table, which the renderer panics on; the
  parser makes none.
* *Translation.* `suffix` (`translate.rs:476`) knows the writer's domain after a link by its text. A user's
  own is taken for it, and the code in it is lost, in ``[see x.com](https://x.com/a) (`x.com`)``, where the
  writer puts none: `KeptOnce` is about the kept parts that are `Spared`.
* *Blobs.* A reader's heading broken over lines closes its first tile before its own record is there,
  so its lines are tiles of a paragraph; an empty heading at the very beginning makes the text begin
  with newlines; a record may start on a newline when its node begins with a picture or a line break
  (the properties speak of words). A heading whose words are all one link loses its record with the
  link's markers (`translate.rs:117`); the digits of a marker can overflow (`translate.rs:433`).

## 4. What is proved

Checked by TLAPS for every value of the constants, from the named assumptions in the modules
(`NoneAssumption`; `CapacitiesAssumption`, `MaxBuffersAssumption`, `NothingAssumption`;
`SpareBuffersAssumption`; `LinesAreLines`, `MaxLinesIsNat`; `RunsAreRuns`, `BracketsAreBrackets`,
`MaxTokensIsNat`; `TitlesAreAnchors`, `MaxHeadingsIsNat`; `NamesAreNames`, `BoundsAreNat`;
`PagesArePages`; `DocumentsAreParsed`), which TLC evaluates in the runs.

* **`PointersImplementLists`**, `TypeCorrect` (`ArenaTreeProofs`). The invariant says that the lists
  `kids` are without repetition and disjoint, and that each pointer is the one the lists imply:
  first and last child are a list's ends, siblings are neighbours, `parent` the owner. It
  is inductive with the types added. Each method has a lemma about the lists it makes (removing,
  appending, inserting in a sequence), then one about its pointer updates. This is a refinement in
  the form of an invariant: each call acts on the pointers as the plain call acts on lists.
* **`NeverCyclic`**. Acyclicity as "no set of nodes is closed under having a parent in it", which
  needs no recursion: a call that hangs a node below another keeps it, because the guards, those
  the callers obey, keep a node from being put below itself.
* **`ArenaImplementsList`** (`MemoryProofs`). The refinement of `GrowingList` by `TypedArena`,
  with the list defined as what the references read, so that a value that moved would show. `ArenaInv`
  says that buffers put by and the one in use are numbered in the order they were begun (`Rising`),
  within their capacities (`Sound`), that the references enumerate every slot of the buffers owned, in
  order and once (`AllOf`), and those `going` every slot a drain has not handed out (`Draining`).
  `alloc` is then `Add` whether the buffer is full or not, `drain` is `Drain`, each value handed out
  is `Each`, and a step from a finished buffer to the next stutters.
* **`TextNeverMixed`** (`MemoryProofs`): `Unmixed` for any number of spares, blocks and lines. It is not
  inductive: a literal is all of its block's lines only because the buffer it is taken from was. `Good`
  adds, block by block, that the offsets of an open block and the text of an open block with a literal
  are of all its lines, and that a buffer of no capacity has no text (so that `add_line` may put the
  working content in its place); `NoneOpen` adds that no block is open once blocks are over, so that no
  arena is drained of a block still being given lines.
* **`StaysWellFormed`** (`BlockParserProofs`): `WellFormed` for every set of lines and every length of
  the input. `Inv` is types, `Tree` (parents and lists of children agree, `can_contain_type` holds
  along every link, and a parent is older than its child, but for the paragraph that becomes a term)
  and `PathOK`, which says where process_line is. Between lines there is a set of blocks `Q` that is an
  open path: its blocks are open and lead from the root to `current`, each the last child of the one
  before, with nothing open below its tip (`Between`). In the middle of a line the path leads to the
  container, and a second set `U` holds the blocks the line did not match (`Pending`): an open path of
  its own from below `matched` to `current`, which a lazy line joins to the first again and the closing
  loop takes off one by one. `Shut` says that any other open block is below a list, or in `U`: it is
  what makes add_child's climb and the early ends of fences, comments and HTML safe, as each closes a
  tip. `OpenOK` and `AddOK` say what a handler may rely on and what it hands to add_child: a block that
  the container takes, if there is something pending. `WellFormed` follows, with `Above` and
  `SpineEnd` computed along the path.
* **`NothingStaysOpen`**, **`TheFirstIsKept`** (`BlockParserProofs`): `AllSettled` and
  `FirstDefinitionWins` for every input. Both speak of a `CalmInput`, one whose lines (its `vocabulary`,
  which the parser never reads) have no `:::`, `>>>` (or longer) or `:`. The code needs the premise, not
  the proof: these markers belong to extensions that are off by
  default, and with them the properties are false. A closing fence leaves blocks open (the finding of
  `blocks_fence_close`), and a paragraph that becomes a term is never finalized. `SInv` joins to `Inv`
  what `Whole` says. `SnugAt`: apart from the pending blocks `U`, an open block is the last child of an
  open one, so that what is open is the path to `current` and the final climb closes all of it.
  `Defined`: one paragraph is open at most, its lines are what was written in it, and the definition
  kept belongs to a paragraph already finalized and is no later than the first line of any that begins
  with one. `Filled` and `ScanOK`: an open paragraph has lines, except between its beginning and its
  first line, so none is finalized without a first line.
* **`SearchExact`**, `ListedHaveText` (`InlinesProofs`). `SearchIsExact` is not inductive: it speaks
  of one closer. The invariant adds `CacheSound`: no run between the bottom of the call and the
  bottom noted for a class could open for a closer of that class. It survives matches (the list only
  shrinks) and failed searches (nothing in between matched), because a class holds everything the
  rule of three looks at. The properties follow from it.
* **`NodesAlwaysNest`** (`InlinesProofs`). `NodesNest` with what keeps it: open brackets stand in the
  order of the text and before everything process_emphasis works on (`BracketsOpen`), and neither they nor
  a run still on the list is inside a node, but for the runs of the link that has just closed
  (`RunsOutside`, `BracketsOutside`). A pair of runs then either encloses a node or misses it. `Reopened` is
  the reason for the premise about links in links: whenever `no_link_openers` is down, some bracket
  stands behind every link made.
* **`NothingIsMissed`** (`InlinesProofs`): `NothingMissedWithoutTildes`. `ListedOrSettled` says of any two
  runs that could be paired that both are on the list or a span keeps them apart; `OpenersInside`, that
  an opener that has left the list is inside a span, behind which the closers to come stand; `Passed`,
  that between the bottom and the closer no pair is left. The tildes of finding 2 are where the last
  one fails.
* **`IdsDistinct`**, `CacheIsSound`, **`Implements`** (`AnchorizerProofs`). `CacheSound` is inductive
  with `ids = {anchors given}` and the running call's suffix; the last theorem is the refinement of
  `HeadingAnchors` by `Anchorizer`: steps of the loop stutter, its end is `Give`. That the suffix
  never exceeds the number of headings, which makes the abstract choice finite, is a counting
  argument over the ids taken.
* **`NoReferenceIsLost`**, **`NumbersAreTrue`**, **`LinksLeadBack`** (`FootnotesProofs`): all that is
  checked of `Footnotes`, for every set of names, every size of a document and every depth of inline
  notes. `NotesInv` has a part for each phase. The text makes a forest in which a child is made after
  its parent (`Forest`, `TextOrder`), and the reference made with an inline definition stays before it
  (`Paired`). A walk has met a set `D` of nodes (`Met`): the children of what it met are met or ahead of
  it, and nothing else is. So no reference is numbered twice, and none is passed over: the first node
  not met when the walk ends would have a parent that was. `NumberInv` says that the references of `D`
  with a definition's name carry the numbers from 1 to its total, each once (`CountsTo`), and that in a
  document without inline notes the walk meets nodes in the order of the text. `Lined` says of the rounds
  of placing that the last children of the root are the definitions placed, by number. `Framed`
  says of the renderer which children of the root are behind it and which entries of one definition are
  ahead, hence who of the last paragraph and the end of the item writes the links back, and `Aligned`
  that the list items are the numbered definitions in their order.

* **`CopiesApart`**, **`BlocksAlwaysStay`**, **`LinksAlwaysStay`** (`BlobTranslateProofs`): `RangesApart`,
  `BlocksStay` and `LinksStayOnTheirLine` for every page, whatever links overlap, and for
  every answer of any length. None is inductive: the first would fail if two lines could place one kept part,
  the others speak of the end only. `PlanOK` says what Plan::of leaves behind: lines in order with a newline
  between them (`CutOK`), numbers that no two lines share, kept parts in the order of the text and each on
  its own line (`InOrder`, `CutKept`), a link on one line with a number of that line (`LinksOK`). `WriteOK`
  says it of the new text: the lines begun have their edges, in order and nowhere past what is written
  (`EdgesOK`); each range copied is a whole line that came back as it went, or one kept part of its line
  that `put` holds (`CopiedOn`), so a marker that is doubled or of another line adds nothing; a link's
  markers lie in the new text of the line of its number (`LandedOK`). When the records are placed, both
  ends of a block are ends of lines, which `Land` looks up first, or the copied range that holds the block
  can only be the line itself.
* **`KeptComesBackOnce`** (`BlobTranslateProofs`): `KeptOnce` for every page and every answer, under the
  property's own two premises: no kept part runs over an empty line (finding 5 is what happens there),
  and the kept part is `Spared`, it does not begin in a dropped domain. The page is assumed
  to have kept parts that nest, as records of nodes do (`PagesArePages`); a domain, which the code finds
  by its text, may lie over any of them, over one that holds it, that it holds or that it cuts.
  `KeptInv` follows each stretch of a kept part within one line: while it is ahead of the cut, it is in
  an outermost part not yet cut past it (`Gathered`, `OuterAhead`); once behind, in a part that has a
  number (`RunsCut`), on the line of its place. In the new text each copied range stands where it was
  put and holds what it held, and everything else is new words and ends of lines (`TextOf`); a number
  whose marker has not come is not in `put`, so `TakeLost` puts it back before the line ends (`PutOK`).
  Two copies of one place would be two ranges, which `RangesApart` excludes.
* **`RecordsStayExact`** (`BlobTranslateProofs`): `RecordsExact`, with the same premises for the records
  of kept parts. `ExactInv` adds that the lines tile the text (`LinesTile`), and that each new line
  begins just after an end of line written (`EdgesJoin`). With copied ranges apart, the range that holds
  a place is the only one, so the last to begin at or before it, which the binary search takes, is that
  one. For a text that came back as it went, the proof argues by a first line that begins too early and
  by a last one that ends too late: neither can be, as each new line is at least as long as the copy in
  it and all of them together as long as the old text.
* **`TagsAlwaysNest`** (`HtmlRenderProofs`): `WellNested` of `HtmlRender` for every document, its
  definitions anywhere in it, and every set of options: unless a definition inside another block was the
  first to be rendered (finding 4), the tags nest. What a node writes on its way out depends on
  neighbours it looks at again, so nothing in the code says that the tags are those of its way in.
  `Held` lists what each kind leaves open for all that is below it, and a lemma for each kind of node
  shows that entering leads there and leaving leads back. Two kinds of tags are closed by somebody else:
  a table's body, which its second row opens and the table closes by counting its children, and the
  section of the definitions, which the first of them opens and the end of the document closes.
  `Nesting` is what is open at each node of the tree, given which tables have their body and whether a
  definition has been entered. The invariant (`Walk`) says that the stack is a path of entered nodes
  with the children of theirs still to come (`Nested`, `Deeper`, `Once`), that what is open after the
  output is what is open below the last of the entered nodes, and that a heading that is open has its id
  kept (`Kept`), as no heading is in a heading (`Flat`). The step that matters is the entering of a
  second row: it changes what is open below a node that was entered before, which is right as no other
  child of the table is on the stack as entered then (`EnterNesting`). `DocumentsAreParsed` assumes of
  the documents what the parser makes: the links of `can_contain_type`, rows just below tables with the
  header first, cells in rows; and of the embedder's formatters, that they are not for the root, for
  tables or for rows: a table of the embedder's with rows of ours would never close its body.
* **`VisitsFollowTheTree`** (`HtmlRenderProofs`): `VisitsAsRecursion` of `HtmlRender` for every document. Each
  entry of the stack stands for a piece of the recursion (`Ahead`): the whole visit of a node still to be
  entered, the way out of one that was. The stack stands for its pieces from the top down (`Covers`), and
  the invariant is that what has been done, followed by what the stack stands for, is the recursion
  (`Toured`). The step that matters is the entering of a node: its children are pushed in reverse, and
  what they stand for is what the recursion concatenates (`CoversKids`, by `FlattenBackwards`).
* **`WordsStayApart`** (`HtmlRenderProofs`): `WordsApart` of `HtmlRender` for every document that is
  `Ours`. What a block writes around its words depends on its neighbours: a tight paragraph writes no
  tags and a newline only after another paragraph, a comment writes nothing, a rule or raw HTML only
  when it is entered. The invariant bounds the words written since the last thing that separates
  (`Apart`). A text may rely on them being of its own block; a block that may write nothing relies on
  there being none (`Ready`), but for a tight paragraph after another, which separates by itself, and
  for a comment between the two (`Loud`). What is next on the stack is the parent of what is done or its
  next sibling, or in an attribute a text of the same block (`Follows`); so it is shown that what a node
  leaves behind (`Done`) is what its parent and its next sibling rely on (`ParentReady`,
  `SiblingReady`), which is where the places blocks may stand in (`PlacesAre`) and tight paragraphs
  (`NeverTight`) come in. `Ours` leaves out what the property is not true of: a raw node, which
  `src/src/nodes.rs:159` says is never parsed, may stand between two tight paragraphs and writes no
  newline; a formatter of the embedder's for a block may write tags that are not a block's; a described
  item outside of a list of them, which `can_contain_type` allows but `parse_desc_list_details` never
  makes, may be empty. With raw HTML under `compact_html` the property promises nothing.

Only model-checked: liveness (out of the prover's reach); everything the text modules say (their
definitions recurse over data, which the prover has no induction for); everything about `BlobWriter`,
whose places are sums over the glyphs written, folds of the same kind; `TightMeansNoBlank` of
`BlockParser`; iteration (`VisitsPlan` speaks of edges computed by recursion).

Two details of the proofs. A string literal is not known to the provers as a member of `STRING`; `Word`
in `BlockParserProofs` therefore lists those the module uses. A function that a definition of the model
makes by recursion over numbers (`Above`, `LastSpine`; `Outermost`, `Flushed`) is shown to exist by
`RepeatExists`, as the library's theorem about recursive functions takes operators.

## 5. Not modelled, and why

Within modelled components: alerts, front matter, HEEx blocks, greentext, source positions and
`MAX_LIST_DEPTH` in the block parser; broken link callbacks and `ignore_empty_links` in the brackets,
and the flanking of `scan_delims`, which is an input; shortcodes, block attributes, inline footnotes and
what an escape or entity turns into among the leaf inlines; case folding outside ASCII in labels; which
records are kept, the remapping of text outside ASCII and the spelling of markers in the translation;
the bytes of header, records and url data in the blob writer; attributes, positions, escaping and the
heading and code adapters in the HTML renderer (an adapter writes tags of its own, and whether they
nest is the embedder's matter).

The CommonMark formatter has a state as intricate as the blob writer's (pending blank lines, prefixes,
the places where a line may break). What it promises, that its output parses to the tree again, is a
statement about written characters under the whole grammar; only a model of both character by character
could state it, and would be longer than the code. Reading it showed where the promise is at risk: with
wrapping, a word moved to the start of a line is not escaped although it may look like a list marker;
after a hard break a text that begins with a blank writes the prefix twice; HTML, a rule or a table as
the first child of a loose item gets a blank line before it.

Alerts, front matter and attributes are cut off once, from the front of a block or document or the end
of a line, and leave nothing behind. Components without state of their own are listed in
`PROJECT.json` with their reasons. The CLI's `--inplace` truncates the file before it writes it, in one
call: there is no state of the program's own about it.

## 6. What is left to do

1. Alerts, HEEx blocks and greentext as further tokens of `BlockParser`'s lines, and `Tables` joined to
   it by the container that a header leaves.
2. The flanking of `scan_delims` over bytes, so that `LeafInlines` gives `Inlines` its tokens.
3. A theorem for `TightMeansNoBlank` of `BlockParser`.
