----------------------------- MODULE BlobTranslate -----------------------------
(***************************************************************************)
(* A blob translated, src/src/blob/translate.rs: Plan::of cuts the text    *)
(* into lines of words, link markers and kept parts; a translator answers  *)
(* line for line, and may lose, double, reorder or invent markers;         *)
(* write_answer writes the text again, and build_translated_blob finds     *)
(* each record its place in it.                                            *)
(*                                                                         *)
(* A character of the old text is its place, from 0, of the kind the page  *)
(* gives it: a letter, another character, a citation that reads as a       *)
(* marker, or the end of a line.  The new text is a sequence of places     *)
(* copied from the old one, ends of lines, and words of the translator.    *)
(* Bytes stand for UTF-16 units, as they do in ASCII text.                 *)
(***************************************************************************)
EXTENDS Naturals, SequencesExt

CONSTANT
  Pages       \* [text, keep, sent, most]: the characters, the parts kept as [from, to, dropped], the
              \* links sent as [from, to], and the most tokens of an answer

\* Part a holds part b
Holds(a, b) == a.from <= b.from /\ b.to <= a.to

\* The writer makes no empty record (BlobWriter::span), and a dropped domain has letters.  Records nest
\* as the nodes they are of.  A domain may lie over any of them: it is any " (domain)" after a link's
\* words, also one a user wrote
ASSUME PagesArePages ==
  \A p \in Pages :
    /\ p.text \in Seq({"letter", "other", "citation", "newline"}) /\ p.most \in Nat
    /\ IsFiniteSet(p.keep)
    /\ p.keep \subseteq [from : Nat, to : Nat, dropped : BOOLEAN] /\ p.sent \subseteq [from : Nat, to : Nat]
    /\ \A k \in p.keep \cup p.sent : k.from < k.to /\ k.to <= Len(p.text)
    /\ \A a, b \in {k \in p.keep : ~k.dropped} :
         a.to <= b.from \/ b.to <= a.from \/ Holds(a, b) \/ Holds(b, a)

VARIABLES
  page,
  phase,    \* "planning", "answering", "writing", "landing", "done"
  \* Plan::of
  i, from,  \* the place in the line, and where the words before it begin
  outer,    \* the kept parts not yet cut, outermost ones in the order of the text
  closes,   \* the links open: [end, n]
  pieces,   \* those of this line: [kind, n], and the place for a word
  lines,    \* the lines cut: [start, end, pieces, translates]
  kept,     \* the range of each number, or NoRange for a link's
  links,    \* the links sent: [from, to, n]
  \* build_translated_blob
  line,     \* the number of the line being written
  rest,     \* what is left of its answer
  opened,   \* where each link's words began in the new text
  put,      \* the kept parts already placed
  text,     \* the new text
  edges,    \* where the ends of the old lines landed: [old, now]
  moved,    \* the ranges copied: [from, to, at]
  landed,   \* where each link's markers landed: [s, e]
  records   \* the records placed: [r, s, e]

planVars == <<i, from, outer, closes, pieces, lines, kept, links>>
writeVars == <<line, rest, opened, put, text, edges, moved, landed>>
vars == <<page, phase, planVars, writeVars, records>>

NoRange == [from |-> 0, to |-> 0]
Nowhere == [s |-> 0, e |-> 0]

(***************************************************************************)
(* Plan::of                                                                *)
(***************************************************************************)
\* Those of the kept parts that no earlier one holds, sorted
Outermost(keep) ==
  LET first(S) == CHOOSE k \in S : \A o \in S : k.from < o.from \/ (k.from = o.from /\ k.to >= o.to)
      upto[n \in Nat] ==
        IF n = 0 THEN <<>>
        ELSE LET past == {k \in keep : upto[n - 1] = <<>> \/ k.from >= Last(upto[n - 1]).to}
             IN IF past = {} THEN upto[n - 1] ELSE Append(upto[n - 1], first(past))
  IN upto[Cardinality(keep)]

Init ==
  /\ page \in Pages
  /\ phase = "planning"
  /\ i = 0 /\ from = 0
  /\ outer = Outermost(page.keep)
  /\ closes = <<>> /\ pieces = <<>> /\ lines = <<>>
  /\ kept = <<>> /\ links = <<>>
  /\ line = 1 /\ rest = <<>>
  /\ opened = <<>> /\ put = {}
  /\ text = <<>> /\ edges = <<>> /\ moved = {}
  /\ landed = <<>>
  /\ records = {}

CharAt(p) == page.text[p + 1]
End == Len(page.text)

\* What the new text holds besides places of the old one: a word of the translator, the end of a line
NewWord == End
Newline == End + 1

LineStart == IF lines = <<>> THEN 0 ELSE lines[Len(lines)].end + 1
LineEnd == CHOOSE p \in LineStart..End :
             /\ p = End \/ CharAt(p) = "newline"
             /\ \A q \in LineStart..(p - 1) : CharAt(q) # "newline"

\* flush: the words before i, each citation among them a kept part with a number of its own
Flushed ==
  LET flush[k \in Nat] ==
        IF k = 0 THEN [pieces |-> pieces, kept |-> kept]
        ELSE LET w == flush[k - 1]
                 p == from + k - 1
             IN IF CharAt(p) = "citation"
                THEN [pieces |-> Append(w.pieces, [kind |-> "kept", n |-> Len(w.kept) + 1]),
                      kept   |-> Append(w.kept, [from |-> p, to |-> p + 1])]
                ELSE [w EXCEPT !.pieces = Append(@, [kind |-> "words", n |-> p])]
  IN flush[i - from]

Ending == {j \in DOMAIN closes : closes[j].end = i}
\* The sent links the cursor has not passed, in the text's order; it stands on the first
Coming == {l \in page.sent : l.from >= i /\ \A j \in DOMAIN links : links[j].from # l.from \/ links[j].to # l.to}
Standing == {l \in Coming : \A m \in Coming : l.from < m.from \/ (l.from = m.from /\ l.to >= m.to)}

Opening == {l \in Standing : l.from = i /\ l.to <= LineEnd /\ \A j \in DOMAIN links : links[j].from # i}

\* What is left of the kept parts at i
Ahead ==
  LET k == SelectInSeq(outer, LAMBDA o : o.to > i \/ o.from >= i)
  IN IF k = 0 THEN <<>> ELSE SubSeq(outer, k, Len(outer))
Keeping == Ahead # <<>> /\ Ahead[1].from = i

Cutting == phase = "planning" /\ i < LineEnd

CloseLink ==
  /\ Cutting
  /\ Ending # {}
  /\ LET j == CHOOSE c \in Ending : \A d \in Ending : c <= d
     IN /\ pieces' = Append(Flushed.pieces, [kind |-> "close", n |-> closes[j].n])
        /\ closes' = RemoveAt(closes, j)
  /\ kept' = Flushed.kept
  /\ from' = i
  /\ UNCHANGED <<page, phase, i, outer, lines, links, writeVars, records>>

\* A link is sent when its words end on the line they begin on
OpenLink ==
  /\ Cutting
  /\ Ending = {} /\ Opening # {}
  /\ LET l == CHOOSE m \in Opening : TRUE
         n == Len(Flushed.kept) + 1
     IN /\ pieces' = Append(Flushed.pieces, [kind |-> "open", n |-> n])
        /\ kept' = Append(Flushed.kept, NoRange)
        /\ links' = Append(links, [from |-> l.from, to |-> l.to, n |-> n])
        /\ closes' = Append(closes, [end |-> l.to, n |-> n])
  /\ from' = i
  /\ UNCHANGED <<page, phase, i, outer, lines, writeVars, records>>

\* A kept part that goes past its line begins again on the next one
RestOf(ahead, to) ==
  IF to = ahead[1].to THEN Tail(ahead) ELSE [ahead EXCEPT ![1].from = LineEnd + 1]

KeepPart ==
  /\ Cutting
  /\ Ending = {} /\ Opening = {} /\ Keeping
  /\ LET k == Ahead[1]
         to == IF k.to <= LineEnd THEN k.to ELSE LineEnd
     IN /\ IF k.dropped
           THEN pieces' = Flushed.pieces /\ kept' = Flushed.kept
           ELSE /\ pieces' = Append(Flushed.pieces, [kind |-> "kept", n |-> Len(Flushed.kept) + 1])
                /\ kept' = Append(Flushed.kept, [from |-> i, to |-> to])
        /\ outer' = RestOf(Ahead, to)
        /\ i' = to
        /\ from' = to
  /\ UNCHANGED <<page, phase, closes, lines, links, writeVars, records>>

\* On to the next place where something opens or closes, or the end of the line
Advance ==
  /\ Cutting
  /\ Ending = {} /\ Opening = {} /\ ~Keeping
  /\ outer' = Ahead
  /\ LET places == {closes[j].end : j \in DOMAIN closes} \cup {l.from : l \in Standing}
                   \cup (IF Ahead = <<>> THEN {} ELSE {Ahead[1].from})
         next == {p \in places : i < p /\ p < LineEnd} \cup {LineEnd}
     IN i' = CHOOSE p \in next : \A q \in next : p <= q
  /\ UNCHANGED <<page, phase, from, closes, pieces, lines, kept, links, writeVars, records>>

\* The end of a line closes its links; it is sent if it holds letters or a link
EndLine ==
  /\ phase = "planning" /\ i = LineEnd
  /\ LET all == Flushed.pieces
                \o [j \in DOMAIN closes |-> [kind |-> "close", n |-> Reverse(closes)[j].n]]
         cut == [start |-> LineStart, end |-> LineEnd, pieces |-> all,
                 translates |-> \E p \in ToSet(all) : \/ p.kind = "open"
                                                      \/ p.kind = "words" /\ CharAt(p.n) = "letter"]
     IN lines' = Append(lines, cut)
  /\ kept' = Flushed.kept
  /\ closes' = <<>> /\ pieces' = <<>>
  /\ i' = LineEnd + 1 /\ from' = LineEnd + 1
  /\ IF LineEnd = End
     THEN /\ phase' = "answering"
          /\ landed' = [n \in DOMAIN kept' |-> Nowhere]
     ELSE UNCHANGED <<phase, landed>>
  /\ UNCHANGED <<page, outer, links, line, rest, opened, put, text, edges, moved, records>>

Planning == CloseLink \/ OpenLink \/ KeepPart \/ Advance \/ EndLine

(***************************************************************************)
(* The translator, and write_answer                                        *)
(***************************************************************************)
Cut == lines[line]
Marks == {[kind |-> k, n |-> n] : k \in {"open", "close", "kept"}, n \in DOMAIN kept}
Word == [kind |-> "words", n |-> End]

Answers ==
  {Cut.pieces} \cup UNION {[1..n -> Marks \cup {Word}] : n \in 0..page.most}

Copy(a, b) == [j \in 1..(b - a) |-> a + j - 1]

\* The next line of the answer.  One of kept parts alone, or one that came back as it went, is
\* written as it was
TakeLine ==
  /\ phase = "answering"
  /\ line <= Len(lines)
  /\ LET before == IF line = 1 THEN text ELSE Append(text, Newline) IN
     \E answer \in Answers :
       IF ~Cut.translates \/ answer = Cut.pieces
       THEN /\ text' = before \o Copy(Cut.start, Cut.end)
            /\ moved' = moved \cup {[from |-> Cut.start, to |-> Cut.end, at |-> Len(before)]}
            /\ edges' = edges \o <<[old |-> Cut.start, now |-> Len(before)],
                                   [old |-> Cut.end, now |-> Len(text')]>>
            /\ line' = line + 1
            /\ UNCHANGED <<phase, rest, opened, put>>
       ELSE /\ text' = before
            /\ edges' = Append(edges, [old |-> Cut.start, now |-> Len(before)])
            /\ rest' = answer
            /\ opened' = [n \in DOMAIN kept |-> Nowhere]
            /\ put' = {}
            /\ phase' = "writing"
            /\ UNCHANGED <<line, moved>>
  /\ UNCHANGED <<page, planVars, landed, records>>

\* Broken: a marker of another line counts
OfAnyLine == DOMAIN kept

Mine == {Cut.pieces[j].n : j \in {x \in DOMAIN Cut.pieces : Cut.pieces[x].kind \in {"open", "kept"}}}

Writing(kind) == phase = "writing" /\ rest # <<>> /\ rest[1].kind = kind
Marker == rest[1].n

TakeWord ==
  /\ Writing("words")
  /\ text' = Append(text, NewWord)
  /\ rest' = Tail(rest)
  /\ UNCHANGED <<page, phase, planVars, line, opened, put, edges, moved, landed, records>>

\* The first of its kind counts; nothing is written for a marker of another line, or doubled.
\* A place in the new text is noted one up, 0 being none
TakeOpen ==
  /\ Writing("open")
  /\ opened' = IF Marker \in Mine /\ opened[Marker] = Nowhere
               THEN [opened EXCEPT ![Marker] = [s |-> Len(text) + 1, e |-> 0]] ELSE opened
  /\ rest' = Tail(rest)
  /\ UNCHANGED <<page, phase, planVars, line, put, text, edges, moved, landed, records>>

TakeClose ==
  /\ Writing("close")
  /\ landed' = IF Marker \in Mine /\ opened[Marker] # Nowhere /\ landed[Marker] = Nowhere
               THEN [landed EXCEPT ![Marker] = [s |-> opened[Marker].s, e |-> Len(text) + 1]]
               ELSE landed
  /\ rest' = Tail(rest)
  /\ UNCHANGED <<page, phase, planVars, line, opened, put, text, edges, moved, records>>

MayPut(n) == n \in Mine /\ n \notin put /\ kept[n] # NoRange

TakeKept ==
  /\ Writing("kept")
  /\ IF MayPut(Marker)
     THEN LET k == kept[Marker] IN
          /\ put' = put \cup {Marker}
          /\ moved' = moved \cup {[from |-> k.from, to |-> k.to, at |-> Len(text)]}
          /\ text' = text \o Copy(k.from, k.to)
     ELSE UNCHANGED <<put, moved, text>>
  /\ rest' = Tail(rest)
  /\ UNCHANGED <<page, phase, planVars, line, opened, edges, landed, records>>

\* Broken: what the answer lost is lost
NoneLost == {}

Lost == {n \in Mine : n \notin put /\ kept[n] # NoRange}

\* A kept part the answer lost goes at the end of its line, the first one first
TakeLost ==
  /\ phase = "writing" /\ rest = <<>> /\ Lost # {}
  /\ LET n == CHOOSE m \in Lost : \A o \in Lost : m <= o
         k == kept[n]
     IN /\ put' = put \cup {n}
        /\ moved' = moved \cup {[from |-> k.from, to |-> k.to, at |-> Len(text)]}
        /\ text' = text \o Copy(k.from, k.to)
  /\ UNCHANGED <<page, phase, planVars, line, rest, opened, edges, landed, records>>

EndAnswer ==
  /\ phase = "writing" /\ rest = <<>> /\ Lost = {}
  /\ edges' = Append(edges, [old |-> Cut.end, now |-> Len(text)])
  /\ line' = line + 1
  /\ phase' = "answering"
  /\ UNCHANGED <<page, planVars, rest, opened, put, text, moved, landed, records>>

Write == TakeLine \/ TakeWord \/ TakeOpen \/ TakeClose \/ TakeKept \/ TakeLost \/ EndAnswer

(***************************************************************************)
(* The records                                                             *)
(***************************************************************************)
\* The blob's records: what is kept, the links, and blocks from one line's start to a line's end
Blocks == {[from |-> lines[a].start, to |-> lines[b].end] : a, b \in DOMAIN lines}
Ranges == {[from |-> k.from, to |-> k.to] : k \in {x \in page.keep : ~x.dropped}} \cup page.sent
          \cup {b \in Blocks : b.from < b.to}

\* The last range copied that begins at or before p, or before it
LastFrom(p, strictly) ==
  LET before == {m \in moved : IF strictly THEN m.from < p ELSE m.from <= p} IN
  {m \in before : \A o \in before : o.from < m.from \/ (o.from = m.from /\ o.to <= m.to)}

\* Broken: the ends of the lines are not known
LandCopied(p, isEnd) ==
  LET m == {x \in LastFrom(p, isEnd) : IF isEnd THEN p <= x.to ELSE p < x.to} IN
  IF m = {} THEN 0 ELSE LET x == CHOOSE y \in m : TRUE IN x.at + p - x.from + 1

\* Where an end of a record lands, one up: on a line's end first, or inside what was copied
Land(p, isEnd) ==
  LET at == {e \in DOMAIN edges : edges[e].old = p} IN
  IF at # {} THEN edges[CHOOSE e \in at : \A f \in at : e <= f].now + 1
  ELSE LET m == {x \in LastFrom(p, isEnd) : IF isEnd THEN p <= x.to ELSE p < x.to} IN
       IF m = {} THEN 0 ELSE LET x == CHOOSE y \in m : TRUE IN x.at + p - x.from + 1

\* A record that lies in a copied range moves with it
Held(r) == {m \in LastFrom(r.from, FALSE) : r.to <= m.to}

\* The link whose words the record lies over exactly
LinkOf(r) == {j \in DOMAIN links : links[j].from = r.from /\ links[j].to = r.to}

\* Broken: a record inside a copied range takes its ends' places, a line's first
PlaceOfEnds(r) ==
  IF LinkOf(r) # {} THEN landed[links[CHOOSE j \in LinkOf(r) : TRUE].n]
  ELSE [s |-> Land(r.from, FALSE), e |-> Land(r.to, TRUE)]

PlaceOf(r) ==
  IF Held(r) # {}
  THEN LET m == CHOOSE x \in Held(r) : TRUE
       IN [s |-> m.at + r.from - m.from + 1, e |-> m.at + r.to - m.from + 1]
  ELSE IF LinkOf(r) # {} THEN landed[links[CHOOSE j \in LinkOf(r) : TRUE].n]
  ELSE [s |-> Land(r.from, FALSE), e |-> Land(r.to, TRUE)]

\* A record without a place, or that has become empty, is dropped
Found(r) == PlaceOf(r).s # 0 /\ PlaceOf(r).s < PlaceOf(r).e

PlaceRecords ==
  /\ phase = "answering" /\ line > Len(lines)
  /\ records' = {[r |-> r, s |-> PlaceOf(r).s - 1, e |-> PlaceOf(r).e - 1] :
                   r \in {x \in Ranges : Found(x)}}
  /\ phase' = "done"
  /\ UNCHANGED <<page, planVars, writeVars>>

Done == phase = "done" /\ UNCHANGED vars

Next == Planning \/ Write \/ PlaceRecords \/ Done

Spec == Init /\ [][Next]_vars

(***************************************************************************)
(* Properties                                                              *)
(***************************************************************************)
\* Places lie in the old text, and every record placed has a range of the new one
TypeOK ==
  /\ phase \in {"planning", "answering", "writing", "done"}
  /\ i \in 0..(End + 1) /\ from \in 0..i
  /\ \A j \in DOMAIN lines : lines[j].start <= lines[j].end /\ lines[j].end <= End
  /\ \A n \in DOMAIN kept : kept[n].to <= End
  /\ ToSet(text) \subseteq 0..(End + 1)
  /\ \A x \in records : x.s < x.e /\ x.e <= Len(text)

KeptPlaces == {p \in 0..(End - 1) : CharAt(p) # "newline"
                                      /\ \E k \in page.keep : k.from <= p /\ p < k.to}

\* Each part of a line that is no words to translate is kept: code and the rest
KeptIsKept ==
  phase # "planning" =>
    \A j \in DOMAIN lines : \A x \in DOMAIN lines[j].pieces :
      LET p == lines[j].pieces[x] IN p.kind = "words" => p.n \notin KeptPlaces

\* Does a part run over an empty line?
RunsOverEmptyLine ==
  \E k \in page.keep : \E p \in k.from..(k.to - 1) :
    CharAt(p) = "newline" /\ (p = k.from \/ CharAt(p - 1) = "newline")

\* The kept parts that do not begin in what is dropped
Spared ==
  {k \in page.keep : ~k.dropped /\ \A d \in page.keep : d.dropped => ~(d.from <= k.from /\ k.from < d.to)}

\* Whatever the translator lost, doubled or moved, each kept character is in the new text once
KeptOnce ==
  phase = "done" /\ ~RunsOverEmptyLine =>
    \A k \in Spared : \A p \in k.from..(k.to - 1) :
      CharAt(p) # "newline" => Cardinality({x \in DOMAIN text : text[x] = p}) = 1

\* A text given back as it went is the old text, with every record where it was
Unchanged ==
  /\ phase = "done"
  /\ \A j \in DOMAIN lines : \E m \in moved : m.from = lines[j].start /\ m.to = lines[j].end
  /\ Len(text) = End
  => /\ \A p \in 0..(End - 1) : text[p + 1] = IF CharAt(p) = "newline" THEN Newline ELSE p
     /\ \A r \in Ranges : [r |-> r, s |-> r.from, e |-> r.to] \in records

\* The record of a part kept on one line lies over that part and nothing else
KeptRecordsExact ==
  phase = "done" /\ ~RunsOverEmptyLine =>
    \A k \in Spared :
      (\A p \in k.from..(k.to - 1) : CharAt(p) # "newline") =>
        \E x \in records : x.r = [from |-> k.from, to |-> k.to] /\ SubSeq(text, x.s + 1, x.e) = Copy(k.from, k.to)

\* The record of a block, unless it is also a link's or a kept part's, lies over the lines it lay
\* over, whatever they became
BlocksStay ==
  phase = "done" =>
    \A a, b \in DOMAIN lines :
      LET r == [from |-> lines[a].start, to |-> lines[b].end] IN
      /\ r \in Ranges /\ LinkOf(r) = {}
      /\ \A n \in DOMAIN kept : kept[n] # r
      /\ edges[2 * a - 1].now < edges[2 * b].now
      => [r |-> r, s |-> edges[2 * a - 1].now, e |-> edges[2 * b].now] \in records

\* The record of a link lies in the new line of the one it was in
LinksStayOnTheirLine ==
  phase = "done" =>
    \A l \in DOMAIN links : \A x \in {y \in records : y.r = [from |-> links[l].from, to |-> links[l].to]} :
      \E a \in DOMAIN lines :
        /\ lines[a].start <= links[l].from /\ links[l].to <= lines[a].end
        /\ edges[2 * a - 1].now <= x.s /\ x.e <= edges[2 * a].now

\* "Edges are in the text's order, and the moved ranges, sorted, never overlap" (translate.rs:97): no
\* place of the old text is copied twice, and no two copies share a place of the new one
RangesApart ==
  \A m, o \in moved : m # o => /\ m.to <= o.from \/ o.to <= m.from
                               /\ m.at + m.to - m.from <= o.at \/ o.at + o.to - o.from <= m.at

\* Records move with what they lie over: all of them when the text comes back as it went, those of
\* kept parts in any case; and the ranges they are moved by stay apart in both texts
RecordsExact == TypeOK /\ Unchanged /\ KeptRecordsExact /\ RangesApart
================================================================================
