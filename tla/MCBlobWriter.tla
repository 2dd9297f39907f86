---------------------------- MODULE MCBlobWriter ----------------------------
\* The blobs of every document of a few nodes of a topic's kinds, written for a reader or not
EXTENDS BlobWriter, MCTrees

Text(S) == {"Text"} \X S
Bare(S) == S \X {""}
Par == <<"Paragraph", "">>
Letter == <<"letter">>

BlobTopics ==
  {[choices |-> {<<"List", 1>>, <<"List", Bullet - 1>>, <<"List", -1>>, <<"TaskItem", TRUE>>} \cup Bare({"Item", "Paragraph"}),
    size |-> 5, sites |-> {"plain"}],
   [choices |-> {Par, <<"Emph", "">>, <<"ShortCode", "">>}
       \cup Text({Letter, <<"accent">>, <<"entity">>, <<"code">>, <<"space", "space", "curly">>, <<"emoji", "code">>}),
    size |-> 4, sites |-> {"plain"}],
   [choices |-> {<<"Heading", 1>>, <<"Heading", 2>>, <<"Image", "picture">>, <<"CodeBlock", Letter>>}
                \cup Bare({"Paragraph", "BlockQuote", "ThematicBreak", "LineBreak"}),
    size |-> 4, sites |-> {"reader"}],
   [choices |-> {<<"Heading", 1>>, <<"List", 1>>, <<"CodeBlock", <<>>>>, <<"Image", "picture">>}
                \cup Bare({"Paragraph", "Item", "LemmySpoiler"}) \cup Text({<<"entity">>, <<"nbsp">>}),
    size |-> 5, sites |-> {"reader"}],
   [choices |-> {Par} \cup ({"Link"} \X {"elsewhere", "own", "internal", "picture"})
                \cup ({"Image"} \X {"picture", "video"})
                \cup Text({Letter, <<"domain">>}) \cup Bare({"Strong", "LineBreak"}),
    size |-> 4, sites |-> {"plain", "reader"}],
   [choices |-> Bare({"Paragraph", "FootnoteDefinition", "FootnoteReference", "BlockQuote"})
                \cup {<<"Heading", 1>>, <<"Image", "picture">>},
    size |-> 5, sites |-> {"plain", "reader"}],
   [choices |-> Bare({"Paragraph", "BlockQuote", "LemmySpoiler", "SoftBreak", "Table", "HtmlBlock", "HtmlInline"})
                \cup Text({<<"space">>, <<"nbsp">>, <<"space", "letter">>}) \cup {<<"Code", Letter>>},
    size |-> 4, sites |-> {"plain"}]}

\* An image alone in a link is the link's, and a link that is a picture's address says nothing else
Usual(t) ==
  /\ Complete(t)
  /\ \A n \in DOMAIN t.kind : t.parent[n] # 0 =>
       /\ t.kind[t.parent[n]] = "Link" => t.says[t.parent[n]] # "picture"
       /\ t.kind[n] = "Link" => t.kind[t.parent[n]] # "Link"

BlobInit ==
  /\ \E topic \in BlobTopics : \E t \in {Filled(u, Worded) : u \in {v \in Trees(topic.choices, topic.size) : Usual(v)}},
                                  s \in topic.sites :
       doc = [kind |-> t.kind, parent |-> t.parent, says |-> t.says, site |-> s]
  /\ WriterInit

BlobDone == blob # <<>> /\ UNCHANGED blobVars
BlobSpec == BlobInit /\ [][WriterNext \/ BlobDone]_blobVars
=============================================================================
