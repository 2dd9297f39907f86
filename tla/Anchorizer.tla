------------------------------ MODULE Anchorizer -------------------------------
(***************************************************************************)
(* Anchorizer of src/src/html/anchorizer.rs.  The loop of anchorize, which *)
(* tries one suffix after another, starts at the suffix next_suffix        *)
(* remembers for the heading's text.  The headings of one document call it *)
(* one at a time, from render_heading.                                     *)
(***************************************************************************)
EXTENDS Integers, Sequences

CONSTANTS
  Titles,      \* the anchors of the headings' texts
  MaxHeadings  \* the most headings of a document

ASSUME TitlesAreAnchors == Titles \subseteq Seq(Nat)
ASSUME MaxHeadingsIsNat == MaxHeadings \in Nat

VARIABLES
  ids,          \* the anchors given
  next_suffix,  \* where the search for a text's anchor starts
  call,         \* the call of anchorize that runs: its text and suffix
  given         \* history: the headings in order

vars == <<ids, next_suffix, call, given>>

\* The specification the search implements: the headings given so far are those of its own history
Headings == INSTANCE HeadingAnchors WITH Titles <- Titles, MaxHeadings <- MaxHeadings, given <- given

Anchor(title, n) == Headings!Anchor(title, n)

Calls == [title : Titles, uniq : Nat]

\* No call
Idle == [idle |-> TRUE]

Init ==
  /\ ids = {}
  /\ next_suffix = [t \in Titles |-> 0]
  /\ call = Idle
  /\ given = <<>>

Start(title) ==
  /\ call = Idle
  /\ Len(given) < MaxHeadings
  /\ call' = [title |-> title, uniq |-> next_suffix[title]]
  /\ UNCHANGED <<ids, next_suffix, given>>

\* Broken: a suffix that is taken is tried again
TryAgain ==
  /\ call # Idle
  /\ Anchor(call.title, call.uniq) \in ids
  /\ UNCHANGED vars

\* The anchor is taken
Advance ==
  /\ call # Idle
  /\ Anchor(call.title, call.uniq) \in ids
  /\ call' = [call EXCEPT !.uniq = @ + 1]
  /\ UNCHANGED <<ids, next_suffix, given>>

\* Broken: the next heading of the text starts past a suffix nobody has
ChooseAndSkip ==
  /\ call # Idle
  /\ Anchor(call.title, call.uniq) \notin ids
  /\ ids' = ids \cup {Anchor(call.title, call.uniq)}
  /\ next_suffix' = [next_suffix EXCEPT ![call.title] = call.uniq + 2]
  /\ given' = Append(given, [title |-> call.title, anchor |-> Anchor(call.title, call.uniq)])
  /\ call' = Idle

\* Broken: only the text is noted as taken
ChooseTitle ==
  /\ call # Idle
  /\ Anchor(call.title, call.uniq) \notin ids
  /\ ids' = ids \cup {call.title}
  /\ next_suffix' = [next_suffix EXCEPT ![call.title] = call.uniq + 1]
  /\ given' = Append(given, [title |-> call.title, anchor |-> Anchor(call.title, call.uniq)])
  /\ call' = Idle

\* The anchor is free
Choose ==
  /\ call # Idle
  /\ Anchor(call.title, call.uniq) \notin ids
  /\ ids' = ids \cup {Anchor(call.title, call.uniq)}
  /\ next_suffix' = [next_suffix EXCEPT ![call.title] = call.uniq + 1]
  /\ given' = Append(given, [title |-> call.title, anchor |-> Anchor(call.title, call.uniq)])
  /\ call' = Idle

Done == call = Idle /\ Len(given) = MaxHeadings /\ UNCHANGED vars

Next == (\E title \in Titles : Start(title)) \/ Advance \/ Choose \/ Done

Spec == Init /\ [][Next]_vars /\ WF_vars(Advance \/ Choose)

(***************************************************************************)
(* Properties                                                              *)
(***************************************************************************)
\* Ids are words with suffixes, and each heading has one
TypeOK ==
  /\ ids \subseteq Seq(Nat)
  /\ next_suffix \in [Titles -> Nat]
  /\ call \in Calls \cup {Idle}
  /\ given \in Seq([title : Titles, anchor : Seq(Nat)])

\* Every anchor below the suffix a search starts from is taken, whatever other text took it
CacheSound ==
  /\ \A t \in Titles : \A n \in 0..(next_suffix[t] - 1) : Anchor(t, n) \in ids
  /\ call # Idle => \A n \in 0..(call.uniq - 1) : Anchor(call.title, n) \in ids

\* Two headings of a document never share an id, also when the text of one is another's text with
\* its suffix
Distinct == Headings!Distinct

\* next_suffix only saves work: each heading gets what a search from the start would find
ImplementsHeadings == Headings!Spec

\* Each call finds an anchor
CallsEnd == call # Idle ~> call = Idle
================================================================================
