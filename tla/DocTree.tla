------------------------------- MODULE DocTree -------------------------------
(***************************************************************************)
(* The finished tree that the formatters walk: nodes are numbers in the    *)
(* order of the document, the root is 1 and 0 stands for none.             *)
(***************************************************************************)
EXTENDS Integers, SequencesExt

VARIABLE doc      \* kind and parent by node (siblings in the order of their numbers), and what else its reader wants

DocNodes == DOMAIN doc.kind
Kind(n) == IF n = 0 THEN "none" ELSE doc.kind[n]
Parent(n) == IF n = 0 THEN 0 ELSE doc.parent[n]
WithKid(kids, n, k) == IF doc.parent[k] = n THEN Append(kids, k) ELSE kids
Kids(n) ==
  LET upto[k \in 0..Len(doc.kind)] == IF k = 0 THEN <<>> ELSE WithKid(upto[k - 1], n, k)
  IN upto[Len(doc.kind)]
Before(n) == {m \in DocNodes : doc.parent[m] = doc.parent[n] /\ m < n}
After(n) == {m \in DocNodes : doc.parent[m] = doc.parent[n] /\ m > n}
Highest(S) == CHOOSE m \in S : \A k \in S : k <= m

\* block
Block == {"Document", "BlockQuote", "FootnoteDefinition", "List", "DescriptionList",
          "DescriptionItem", "DescriptionTerm", "DescriptionDetails", "Item", "CodeBlock",
          "HtmlBlock", "Paragraph", "Heading", "ThematicBreak", "Table", "HeaderRow", "TableRow",
          "TableCell", "TaskItem", "MultilineBlockQuote", "MultilineComment", "Alert", "Subtext",
          "BlockDirective", "LemmySpoiler", "HeexBlock"}

Holders == {"Document", "BlockQuote", "FootnoteDefinition", "DescriptionTerm",
            "DescriptionDetails", "Item", "TaskItem", "MultilineBlockQuote", "Alert",
            "BlockDirective", "LemmySpoiler"}

Spans == {"Emph", "Strong", "Link", "Image", "WikiLink", "Strikethrough", "Highlight", "Insert",
          "Superscript", "SpoileredText", "Underline", "Subscript", "EscapedTag"}

NodeKinds == Block \cup Spans \cup
  {"FrontMatter", "Raw", "Text", "SoftBreak", "LineBreak", "Code", "HtmlInline", "HeexInline",
   "CommentInline", "Escaped", "Math", "FootnoteReference", "ShortCode"}

\* can_contain_type
can_contain_type(p, c) ==
  \/ c = "Raw"
  \/ /\ c \notin {"Document", "FrontMatter"}
     /\ \/ p \in Holders /\ c \in Block \ {"Item", "TaskItem"}
        \/ p = "List" /\ c \in {"Item", "TaskItem"}
        \/ p = "DescriptionList" /\ c = "DescriptionItem"
        \/ p = "DescriptionItem" /\ c \in {"DescriptionTerm", "DescriptionDetails"}
        \/ p \in Spans \cup {"Paragraph", "Heading", "Subtext", "ShortCode"} /\ c \notin Block
        \/ p = "Table" /\ c \in {"HeaderRow", "TableRow"}
        \/ p \in {"HeaderRow", "TableRow"} /\ c = "TableCell"
        \/ /\ p = "TableCell"
           /\ c \in Spans \cup {"Text", "Code", "HtmlInline", "Math", "FootnoteReference",
                                "TaskItem", "Escaped", "CommentInline", "ShortCode", "HeexInline"}
        \/ p = "Escaped" /\ c = "Text"
  \/ c = "FrontMatter" /\ p = "Document"

\* A tree as the parser leaves it: what may hold what, and above all that rows are a table's with
\* the header first, and cells are a row's.  A footnote definition may be left wherever it was written:
\* only those that were collected have been moved to the root.
IsDocument(t) ==
  LET above(n) == t.kind[t.parent[n]]
      first(n) == \A m \in 2..(n - 1) : t.parent[m] # t.parent[n]
  IN /\ t.kind \in Seq(NodeKinds) /\ t.parent \in Seq(Nat) /\ Len(t.parent) = Len(t.kind)
     /\ Len(t.kind) > 0 /\ t.kind[1] = "Document" /\ t.parent[1] = 0
     /\ \A n \in 2..Len(t.kind) :
          /\ t.parent[n] \in 1..(n - 1)
          /\ can_contain_type(above(n), t.kind[n])
          /\ t.kind[n] \in {"HeaderRow", "TableRow"} <=> above(n) = "Table"
          /\ t.kind[n] = "HeaderRow" <=> above(n) = "Table" /\ first(n)
          /\ t.kind[n] = "TableCell" => above(n) \in {"HeaderRow", "TableRow"}
=============================================================================
