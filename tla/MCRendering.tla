------------------------------ MODULE MCRendering ------------------------------
\* The renderer and what it counts: each behaviour renders one tree of a few nodes,
\* or reads, collects and renders the footnotes of one document, or gives the headings
\* of one their ids
EXTENDS MCHtmlRender, MCFootnotes, MCAnchorizer

VARIABLE part      \* "tree", "footnotes" or "headings"

renderingVars == <<renderVars, notesVars, vars, part>>

Empty == [kind |-> <<"Document">>, parent |-> <<0>>]

RenderingInit ==
  /\ part \in {"tree", "footnotes", "headings"}
  /\ IF part = "tree" THEN RenderInit ELSE Format(Empty, {}, None)
  /\ NotesInit /\ (part # "footnotes" => ~leave)
  /\ Init

Ids == part = "headings" /\ (Advance \/ Choose) /\ UNCHANGED <<renderVars, notesVars, part>>

RenderingNext ==
  \/ part = "tree" /\ RenderNext /\ UNCHANGED <<notesVars, vars, part>>
  \/ part = "footnotes" /\ NotesNext /\ UNCHANGED <<renderVars, vars, part>>
  \/ part = "headings" /\ Next /\ UNCHANGED <<renderVars, notesVars, part>>

RenderingSpec == RenderingInit /\ [][RenderingNext]_renderingVars /\ WF_renderingVars(Ids)
================================================================================
