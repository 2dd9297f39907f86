---------------------------- MODULE MCHtmlRender ----------------------------
\* Every tree of a few nodes of the kinds of a topic, as the parser could have left it.
EXTENDS HtmlRender, MCTrees

None == [kind |-> "none", children |-> "HTML"]
Plainly(k) == [kind |-> k, children |-> "Plain"]
Skipping(k) == [kind |-> k, children |-> "Skip"]

Topics ==
  {[kinds |-> {"List", "Item", "Paragraph", "MultilineComment", "HtmlBlock"}, size |-> 5,
    options |-> {{"tight"}, {"tight", "compact_html"}, {"ordered", "escape"}}, customs |-> {None}],
   [kinds |-> {"List", "Item", "TaskItem", "Paragraph", "CodeBlock"}, size |-> 5,
    options |-> {{"tight"}}, customs |-> {None, Skipping("Item")}],
   [kinds |-> {"DescriptionList", "DescriptionItem", "DescriptionTerm", "DescriptionDetails",
               "Paragraph"}, size |-> 6,
    options |-> {{"tight"}, {}, {"tight", "compact_html"}}, customs |-> {None}],
   [kinds |-> {"Table", "HeaderRow", "TableRow", "TableCell", "TaskItem", "Code"}, size |-> 8,
    options |-> {{}, {"compact_html"}}, customs |-> {None}],
   [kinds |-> {"Paragraph", "Emph", "Strong", "Link", "Image"}, size |-> 5,
    options |-> {{"gfm_quirks", "relaxed_autolinks", "figure_with_caption"}, {"title"}},
    customs |-> {None, Plainly("Emph")}],
   [kinds |-> {"Paragraph", "Code", "LineBreak", "SoftBreak", "FootnoteReference", "Image",
               "HtmlInline", "Math", "ShortCode", "CommentInline", "HeexInline"}, size |-> 3,
    options |-> {{"figure_with_caption", "title"}, {"hardbreaks", "unsafe"}}, customs |-> {None}],
   [kinds |-> {"Paragraph", "Strikethrough", "Highlight", "Insert", "SpoileredText", "Subscript",
               "Superscript", "Underline", "WikiLink", "Escaped", "EscapedTag"}, size |-> 3,
    options |-> {{"escaped_char_spans"}, {}}, customs |-> {None}],
   [kinds |-> {"Paragraph", "FootnoteDefinition", "List", "Item", "MultilineComment"}, size |-> 5,
    options |-> {{"total_references 2"}, {"tight"}}, customs |-> {None}],
   [kinds |-> {"Heading", "Subtext", "Paragraph", "BlockQuote", "MultilineBlockQuote", "Alert",
               "BlockDirective", "LemmySpoiler", "ThematicBreak", "HeexBlock", "FrontMatter", "Raw"},
    size |-> 3,
    options |-> {{"header_id_prefix", "title"}, {"compact_html"}}, customs |-> {None}]}

\* "> [^a]: one", "[^a]: two" and "x[^a]" as process_footnotes leaves them
LeftInQuote ==
  [kind |-> <<"Document", "BlockQuote", "FootnoteDefinition", "Paragraph", "Text", "Paragraph", "Text",
              "FootnoteReference", "FootnoteDefinition", "Paragraph", "Text">>,
   parent |-> <<0, 1, 2, 3, 4, 1, 6, 6, 1, 9, 10>>]

LeftoverDocuments == {[trees |-> {LeftInQuote}, options |-> {{}}, customs |-> {None}]}

MCDocuments ==
  {[trees |-> {Filled(t, Worded \cup {"Image"}) : t \in {u \in Trees(topic.kinds \X {""}, topic.size) : Complete(u)}},
    options |-> topic.options, customs |-> topic.customs] : topic \in Topics}
=============================================================================
