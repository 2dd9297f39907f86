---------------------------- MODULE HeadingAnchors -----------------------------
(***************************************************************************)
(* What src/src/html/anchorizer.rs promises of the ids of a document's     *)
(* headings: each heading gets the first of its own anchors that no        *)
(* heading before it has.                                                  *)
(*                                                                         *)
(* An anchor is a word, by its number, and the numbers that follow it      *)
(* after dashes: "stuff-1" is <<1, 1>> if "stuff" is <<1>>.  It may be the *)
(* text of a heading or made by adding a suffix.                           *)
(***************************************************************************)
EXTENDS Integers, Sequences

CONSTANTS
  Titles,      \* the anchors of the headings' texts
  MaxHeadings  \* the most headings of a document

VARIABLE given   \* the headings in order: [title, anchor]

Anchor(title, n) == IF n = 0 THEN title ELSE Append(title, n)

Taken == {given[i].anchor : i \in DOMAIN given}

Init == given = <<>>

Give(title, n) ==
  /\ Len(given) < MaxHeadings
  /\ Anchor(title, n) \notin Taken
  /\ \A m \in 0..(n - 1) : Anchor(title, m) \in Taken
  /\ given' = Append(given, [title |-> title, anchor |-> Anchor(title, n)])

\* One of the anchors is free: there is one more of them than headings
Next == \E title \in Titles, n \in 0..Len(given) : Give(title, n)

Spec == Init /\ [][Next]_given

\* Two headings of a document never share an id
Distinct == \A i, j \in DOMAIN given : i # j => given[i].anchor # given[j].anchor
================================================================================
