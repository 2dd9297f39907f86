------------------------------- MODULE Footnotes -------------------------------
(***************************************************************************)
(* Footnotes from the text to the HTML: references and definitions as the  *)
(* block and inline parsers make them, process_footnotes of                *)
(* src/src/parser/mod.rs, which pairs, numbers and moves them, and the     *)
(* list of notes with its links back that src/src/html.rs writes.          *)
(*                                                                         *)
(* The document is a tree of references and definitions, the root and the  *)
(* definitions being its containers; the blocks around them say nothing    *)
(* about footnotes and are left out.  A node is a number, in the order the *)
(* parser makes them.                                                      *)
(***************************************************************************)
EXTENDS Naturals, Sequences, FiniteSets

CONSTANTS
  Names,     \* the names an author writes: [base, n, caps]
  MaxNodes,  \* the most nodes of a document
  MaxDepth   \* MAX_INLINE_FOOTNOTE_DEPTH

Name == [base : STRING, n : Nat, caps : BOOLEAN]

ASSUME NamesAreNames == Names \subseteq Name
ASSUME BoundsAreNat == MaxNodes \in Nat /\ MaxDepth \in Nat

VARIABLES
  leave,    \* leave_footnote_definitions
  phase,    \* "reading", "numbering", "placing", "rendering", "done"
  node,     \* the nodes: [kind, name, ix, num], num being ref_num or total_references
  kids,     \* the children of the root and of each node
  open,     \* the definitions still being read, the innermost last
  defs,     \* FootnoteDefs: the inline definitions read so far
  next,     \* its counter
  saw,      \* saw_footnote or saw_reference
  fdMap,    \* the definitions by folded label: [node, name, ix, total]
  walk,     \* the stack of a walk over the tree, its top first: [at, leaving]
  nextIx,   \* next_ix
  written,  \* what the renderer wrote: the definitions in the order of their list items, the
            \* references, and the links back as [def, item]; and its written_footnote_ix
  removed   \* the definitions taken out of the tree

notesVars == <<leave, phase, node, kids, open, defs, next, saw, fdMap, walk, nextIx, written, removed>>

Root == 0
Nodes == DOMAIN node
Containers == {Root} \cup Nodes

\* normalize_label: Case::Fold forgets the case, which Case::Preserve keeps
Fold(name) == <<name.base, name.n>>

\* FootnoteDefs::next_name
InlineName(n) == [base |-> "__inline_", n |-> n, caps |-> FALSE]

Node(kind, name) == [kind |-> kind, name |-> name, ix |-> 0, num |-> 0]

NotesInit ==
  /\ leave \in BOOLEAN
  /\ phase = "reading"
  /\ node = <<>>
  /\ kids = [c \in {Root} |-> <<>>]
  /\ open = <<>>
  /\ defs = <<>>
  /\ next = 1
  /\ saw = FALSE
  /\ fdMap = <<>>
  /\ walk = <<>>
  /\ nextIx = 0
  /\ written = [items |-> <<>>, refs |-> {}, backs |-> <<>>, ix |-> 0]
  /\ removed = {}

(***************************************************************************)
(* The text                                                                *)
(***************************************************************************)
Here == IF open = <<>> THEN Root ELSE open[Len(open)]

IsInline(d) == node[d].kind = "inline"
Depth == Cardinality({i \in DOMAIN open : IsInline(open[i])})

\* These nodes are made, the first of them a child of the container
Grow(new) ==
  /\ phase = "reading"
  /\ Len(node) + Len(new) <= MaxNodes
  /\ node' = node \o new
  /\ kids' = [c \in Containers \cup (Len(node) + 1 .. Len(node) + Len(new)) |->
                IF c = Here THEN Append(kids[c], Len(node) + 1)
                ELSE IF c \in Containers THEN kids[c] ELSE <<>>]
  /\ saw' = TRUE
  /\ UNCHANGED <<leave, phase, fdMap, walk, nextIx, written, removed>>

\* handle_close_bracket: "[^name]" is a reference, whether or not it is defined
AddReference(name) ==
  /\ Grow(<<Node("ref", name)>>)
  /\ UNCHANGED <<open, defs, next>>

\* handle_footnote: "[^name]:" opens a definition, inside another one too
OpenDefinition(name) ==
  /\ Depth = 0
  /\ Grow(<<Node("def", name)>>)
  /\ open' = Append(open, Len(node) + 1)
  /\ UNCHANGED <<defs, next>>

CloseDefinition ==
  /\ phase = "reading"
  /\ open # <<>> /\ ~IsInline(Here)
  /\ open' = SubSeq(open, 1, Len(open) - 1)
  /\ UNCHANGED <<leave, phase, node, kids, defs, next, saw, fdMap, walk, nextIx, written, removed>>

\* handle_inline_footnote: a reference here, and a definition outside the tree
OpenInline ==
  /\ Depth < MaxDepth
  /\ Grow(<<Node("ref", InlineName(next)), Node("inline", InlineName(next))>>)
  /\ open' = Append(open, Len(node) + 2)
  /\ next' = next + 1
  /\ UNCHANGED defs

\* add_definition, when the content has been parsed
CloseInline ==
  /\ phase = "reading"
  /\ open # <<>> /\ IsInline(Here)
  /\ defs' = Append(defs, Here)
  /\ open' = SubSeq(open, 1, Len(open) - 1)
  /\ UNCHANGED <<leave, phase, node, kids, next, saw, fdMap, walk, nextIx, written, removed>>

(***************************************************************************)
(* process_footnotes                                                       *)
(***************************************************************************)
\* find_footnote_definitions: the last definition of a label wins, and definitions inside
\* definitions are not seen
Collected(children) ==
  LET places == {i \in DOMAIN children : node[children[i]].kind # "ref"}
      label(i) == Fold(node[children[i]].name)
  IN [l \in {label(i) : i \in places} |->
        LET d == children[CHOOSE i \in places :
                            label(i) = l /\ \A j \in places : label(j) = l => j <= i]
        IN [node |-> d, name |-> node[d].name, ix |-> 0, total |-> 0]]

Entries(s) == [i \in DOMAIN s |-> [at |-> s[i], leaving |-> FALSE]]

\* The inline definitions follow the text
WithInline == kids[Root] \o defs

\* finalize_document: unless no footnote was seen the definitions are collected, and the walk for
\* the references begins
EndOfText ==
  /\ phase = "reading"
  /\ Depth = 0
  /\ open' = <<>>
  /\ kids' = [kids EXCEPT ![Root] = WithInline]
  /\ defs' = <<>>
  /\ phase' = IF saw THEN "numbering" ELSE "rendering"
  /\ fdMap' = IF saw THEN Collected(WithInline) ELSE fdMap
  /\ walk' = Entries(WithInline)
  /\ UNCHANGED <<leave, node, next, saw, nextIx, written, removed>>

Top == walk[1].at
Rest == SubSeq(walk, 2, Len(walk))
Numbering == phase = "numbering" /\ walk # <<>>

Pushed(d) == Entries(kids[d]) \o Rest

\* A definition, whose children are walked
EnterDefinition ==
  /\ Numbering
  /\ node[Top].kind # "ref"
  /\ walk' = Pushed(Top)
  /\ UNCHANGED <<leave, phase, node, kids, open, defs, next, saw, fdMap, nextIx, written, removed>>

\* Broken: the reference keeps the name its author wrote
NumberedOnly(ref, fd) == [ref EXCEPT !.ix = fd.ix, !.num = fd.total]

Numbered(ref, fd) == [ref EXCEPT !.ix = fd.ix, !.num = fd.total, !.name = fd.name]

\* find_footnote_references, a reference with a definition: the first one numbers the definition
Resolve ==
  /\ Numbering
  /\ node[Top].kind = "ref"
  /\ LET l == Fold(node[Top].name) IN
     /\ l \in DOMAIN fdMap
     /\ nextIx' = IF fdMap[l].ix = 0 THEN nextIx + 1 ELSE nextIx
     /\ fdMap' = [fdMap EXCEPT ![l].ix = IF @ = 0 THEN nextIx' ELSE @, ![l].total = @ + 1]
     /\ node' = [node EXCEPT ![Top] = Numbered(@, fdMap'[l])]
  /\ walk' = Rest
  /\ UNCHANGED <<leave, phase, kids, open, defs, next, saw, written, removed>>

\* A reference without one: its text takes its place
Restore ==
  /\ Numbering
  /\ node[Top].kind = "ref"
  /\ Fold(node[Top].name) \notin DOMAIN fdMap
  /\ node' = [node EXCEPT ![Top].kind = "text"]
  /\ walk' = Rest
  /\ UNCHANGED <<leave, phase, kids, open, defs, next, saw, fdMap, nextIx, written, removed>>

EndOfWalk ==
  /\ phase = "numbering"
  /\ walk = <<>>
  /\ phase' = "placing"
  /\ UNCHANGED <<leave, node, kids, open, defs, next, saw, fdMap, walk, nextIx, written, removed>>

\* Broken: the definitions come as the map gives them
AnyFirst(l) == TRUE

\* The definitions are sorted by ix, those without references first and in any order
First(l) == \A m \in DOMAIN fdMap : fdMap[l].ix <= fdMap[m].ix

\* detach
Without(s, x) ==
  LET i == CHOOSE j \in DOMAIN s : s[j] = x
  IN SubSeq(s, 1, i - 1) \o SubSeq(s, i + 1, Len(s))

\* Broken: a definition without references stays where it is
Moved(s, fd) == IF fd.ix = 0 THEN s ELSE Append(Without(s, fd.node), fd.node)

\* A definition with references goes to the end of the root, one without goes
Placed(s, fd) ==
  IF fd.ix = 0 THEN Without(s, fd.node) ELSE Append(Without(s, fd.node), fd.node)

\* A round of the loop over the definitions
Place ==
  /\ phase = "placing"
  /\ \E l \in {m \in DOMAIN fdMap : First(m)} :
       LET fd == fdMap[l] IN
       /\ fdMap' = [m \in DOMAIN fdMap \ {l} |-> fdMap[m]]
       /\ node' = IF fd.ix = 0 THEN node
                  ELSE [node EXCEPT ![fd.node] = [@ EXCEPT !.name = fd.name, !.num = fd.total]]
       /\ kids' = IF leave THEN kids ELSE [kids EXCEPT ![Root] = Placed(@, fd)]
       /\ removed' = IF fd.ix = 0 /\ ~leave THEN removed \cup {fd.node} ELSE removed
  /\ UNCHANGED <<leave, phase, open, defs, next, saw, walk, nextIx, written>>

EndOfPlacing ==
  /\ phase = "placing"
  /\ fdMap = <<>>
  /\ phase' = "rendering"
  /\ walk' = Entries(kids[Root])
  /\ UNCHANGED <<leave, node, kids, open, defs, next, saw, fdMap, nextIx, written, removed>>

(***************************************************************************)
(* The renderer                                                            *)
(***************************************************************************)
Rendering == phase = "rendering" /\ walk # <<>>

\* footnote_ix
FootnoteIx == Len(written.items)

\* Broken: nothing remembers that the links back are written
LinksBackAgain(w, d) == [w EXCEPT !.backs = Append(@, [def |-> d, item |-> Len(w.items)])]

\* put_footnote_backref
LinksBack(w, d) ==
  IF w.ix >= Len(w.items) THEN w
  ELSE [w EXCEPT !.ix = Len(w.items), !.backs = Append(@, [def |-> d, item |-> Len(w.items)])]

\* render_footnote_definition, entering
RenderDefinition ==
  /\ Rendering
  /\ node[Top].kind \in {"def", "inline"} /\ ~walk[1].leaving
  /\ written' = [written EXCEPT !.items = Append(@, Top)]
  /\ walk' = Entries(kids[Top]) \o <<[at |-> Top, leaving |-> TRUE]>> \o Rest
  /\ UNCHANGED <<leave, phase, node, kids, open, defs, next, saw, fdMap, nextIx, removed>>

\* The definitions this paragraph is the last child of
Ended(p) == {d \in Nodes : kids[d] # <<>> /\ kids[d][Len(kids[d])] = p}

\* render_footnote_reference, and the end of the paragraph it stands in: the last one of a
\* definition holds the links back
RenderParagraph ==
  /\ Rendering
  /\ node[Top].kind \in {"ref", "text"}
  /\ LET w == IF node[Top].kind = "ref" THEN [written EXCEPT !.refs = @ \cup {Top}] ELSE written
     IN written' = IF Ended(Top) = {} THEN w ELSE LinksBack(w, CHOOSE d \in Ended(Top) : TRUE)
  /\ walk' = Rest
  /\ UNCHANGED <<leave, phase, node, kids, open, defs, next, saw, fdMap, nextIx, removed>>

\* render_footnote_definition, leaving
LeaveDefinition ==
  /\ Rendering
  /\ walk[1].leaving
  /\ written' = LinksBack(written, Top)
  /\ walk' = Rest
  /\ UNCHANGED <<leave, phase, node, kids, open, defs, next, saw, fdMap, nextIx, removed>>

EndOfRendering ==
  /\ phase = "rendering"
  /\ walk = <<>>
  /\ phase' = "done"
  /\ UNCHANGED <<leave, node, kids, open, defs, next, saw, fdMap, walk, nextIx, written, removed>>

NotesDone == phase = "done" /\ UNCHANGED notesVars

Reading ==
  \/ \E name \in Names : AddReference(name) \/ OpenDefinition(name)
  \/ CloseDefinition \/ OpenInline \/ CloseInline

Process == EnterDefinition \/ Resolve \/ Restore \/ EndOfWalk \/ Place \/ EndOfPlacing

Render == RenderDefinition \/ RenderParagraph \/ LeaveDefinition \/ EndOfRendering

NotesNext == Reading \/ EndOfText \/ Process \/ Render \/ NotesDone

NotesSpec == NotesInit /\ [][NotesNext]_notesVars

(***************************************************************************)
(* Properties                                                              *)
(***************************************************************************)
References == {r \in Nodes : node[r].kind = "ref"}
Definitions == {d \in Nodes : node[d].kind \in {"def", "inline"}}

\* assert!(!nfr.texts.is_empty()): an inline footnote has no text to be restored, so the reference
\* made with an inline definition always finds one, and it is that one
InlineNotesResolve ==
  \A d \in {n \in Nodes : IsInline(n)} :
    /\ node[d - 1].kind = "ref"
    /\ phase \in {"rendering", "done"} => node[d].num > 0 /\ node[d - 1].name = node[d].name

\* Every reference in the page leads to a list item with the name the reference has, however its
\* author wrote it, and wherever its definition stood
ReferencesLead ==
  phase = "done" =>
    \A r \in written.refs : \E i \in DOMAIN written.items : node[written.items[i]].name = node[r].name

\* Every reference, an author's or an inline note's, finds its definition
ReferencesResolve == InlineNotesResolve /\ ReferencesLead

\* The definitions in the tree that were not collected: earlier ones of a label, and nested ones
Leftover == \E d, e \in Definitions : d # e /\ Fold(node[d].name) = Fold(node[e].name)
Nested == \E d, e \in Definitions : \E i \in DOMAIN kids[d] : kids[d][i] = e

\* Without duplicates, definitions in definitions and leave_footnote_definitions, a reference shows
\* the number of the list item it leads to, and the items are numbered from 1
NumbersAgree ==
  phase = "done" /\ ~leave /\ ~Leftover /\ ~Nested =>
    /\ Len(written.items) = nextIx
    /\ \A r \in written.refs : /\ node[r].ix \in DOMAIN written.items
                              /\ node[written.items[node[r].ix]].name = node[r].name

\* The references to a definition are numbered from 1 to its total, each number once
RefNumsExact ==
  phase \in {"rendering", "done"} =>
    \A d \in Definitions : node[d].num > 0 =>
      LET refs == {r \in References : node[r].name = node[d].name} IN
      /\ {node[r].num : r \in refs} = 1..node[d].num
      /\ Cardinality(refs) = node[d].num

\* Without inline notes, whose content is read last, the number of a definition follows its first
\* reference in the text, the references in definitions being read where they stand
FirstUseOrder ==
  phase \in {"placing", "rendering", "done"} /\ (\A n \in Nodes : ~IsInline(n)) =>
    \A r, s \in {n \in References : node[n].num = 1} : r < s => node[r].ix < node[s].ix

\* What a reference shows, where it leads and its place among the others of its definition agree
NumberedAsUsed == NumbersAgree /\ RefNumsExact /\ FirstUseOrder

\* Each list item gets its links back once, with its own number, unless another item stands in it
LinkedBackOnce ==
  phase = "done" /\ ~Nested =>
    \A i \in DOMAIN written.items :
      Cardinality({b \in DOMAIN written.backs :
                     written.backs[b] = [def |-> written.items[i], item |-> i]}) = 1

\* The links back of an item lead to references in the page, unless a definition that was removed
\* held references
LinksBackLead ==
  phase = "done" /\ (\A d \in removed : kids[d] = <<>>) =>
    \A b \in DOMAIN written.backs :
      \A n \in 1..node[written.backs[b].def].num :
        \E r \in written.refs : node[r].name = node[written.backs[b].def].name /\ node[r].num = n

\* The links back are there once and lead back
LinkedBack == LinkedBackOnce /\ LinksBackLead

\* options.rs: the definitions are reordered to the end, and unreferenced ones are removed
OnlyReferencedStay ==
  phase = "done" /\ ~leave => \A i \in DOMAIN written.items : node[written.items[i]].num > 0
================================================================================
