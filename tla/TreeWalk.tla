------------------------------- MODULE TreeWalk -------------------------------
(***************************************************************************)
(* The iterators of src/src/arena_tree.rs over the tree of ArenaTree.  A   *)
(* caller holds one iterator at a time, and what runs while it does is the *)
(* loop's own body.  Two bodies change the tree under the iterator: that   *)
(* of handle_close_bracket's sibling loop detaches the node it was handed, *)
(* and that of process_inlines' walk appends the inlines it parses to the  *)
(* childless block it was handed.                                          *)
(*                                                                         *)
(* `plan' is what the caller means to visit, read off the lists of         *)
(* children when the iterator is made; `seen' is what it was handed.       *)
(***************************************************************************)
EXTENDS ArenaTree, SequencesExt

VARIABLE iter

walkVars == <<links, kids, iter>>

Idle == [kind |-> "idle", next |-> None, root |-> None, seen |-> <<>>, plan |-> <<>>]

Begin(n) == <<"Start", n>>
Finish(n) == <<"End", n>>

\* The edges of the tree below n: a start, those of each child in turn, an end
RECURSIVE EdgesBelow(_)
EdgesBelow(n) ==
  <<Begin(n)>> \o FlattenSeq([i \in DOMAIN kids[n] |-> EdgesBelow(kids[n][i])]) \o <<Finish(n)>>

\* n and the siblings after it
Following(n) ==
  IF links.parent[n] = None THEN <<n>>
  ELSE LET s == kids[links.parent[n]] IN SubSeq(s, IndexIn(s, n), Len(s))

\* following_siblings, children and the other axes: start at a node
StartSiblings(n) ==
  /\ iter = Idle
  /\ iter' = [kind |-> "siblings", next |-> n, root |-> n, seen |-> <<>>, plan |-> Following(n)]
  /\ UNCHANGED vars

\* An axis iterator that looks for its next node after the body (a mutant)
NextSiblingLate ==
  /\ iter.kind = "siblings"
  /\ iter.next # None
  /\ \/ DetachCall(iter.next)
     \/ UNCHANGED vars
  /\ iter' = [iter EXCEPT !.next = links'.next_sibling[iter.next],
                          !.seen = Append(@, iter.next)]

\* An axis iterator's next: its own next node is read before it hands out
\* this one, whether or not the loop's body then detaches it
NextSibling ==
  /\ iter.kind = "siblings"
  /\ iter.next # None
  /\ iter' = [iter EXCEPT !.next = links.next_sibling[iter.next],
                          !.seen = Append(@, iter.next)]
  /\ \/ DetachCall(iter.next)
     \/ UNCHANGED vars

\* traverse: start at the root's Start edge
StartTraverse(n) ==
  /\ iter = Idle
  /\ iter' = [kind |-> "traverse", next |-> Begin(n), root |-> n, seen |-> <<>>,
              plan |-> EdgesBelow(n)]
  /\ UNCHANGED vars

\* The edge after `item' for a walk below `root'; "panic" where the walk
\* climbs from a node that has lost its parent
EdgeAfter(item, root) ==
  LET n == item[2] IN
  CASE item[1] = "Start" /\ links.first_child[n] # None -> Begin(links.first_child[n])
    [] item[1] = "Start" /\ links.first_child[n] = None -> Finish(n)
    [] item[1] = "End" /\ n = root -> None
    [] item[1] = "End" /\ n # root /\ links.next_sibling[n] # None ->
         Begin(links.next_sibling[n])
    [] item[1] = "End" /\ n # root /\ links.next_sibling[n] = None ->
         IF links.parent[n] = None THEN <<"panic", n>> ELSE Finish(links.parent[n])

\* Traverse's next: the edge to hand out next is found before this one is
\* handed out, so inlines appended to a block without children, at its Start
\* edge, are not walked
NextEdge ==
  /\ iter.kind = "traverse"
  /\ iter.next # None
  /\ iter.next[1] # "panic"
  /\ iter' = [iter EXCEPT !.next = EdgeAfter(iter.next, iter.root),
                          !.seen = Append(@, iter.next)]
  /\ LET block == iter.next[2] IN
     \/ UNCHANGED vars
     \/ /\ iter.next[1] = "Start" /\ kids[block] = <<>>
        /\ \E inline \in Node :
             /\ kids[inline] = <<>> /\ inline # iter.root
             /\ AppendNewCall(block, inline)

\* An iterator that starts over where it should end (a mutant)
DropStartsOver ==
  /\ iter # Idle
  /\ iter.next = None
  /\ iter' = [iter EXCEPT !.next = iter.plan[1], !.seen = <<>>]
  /\ UNCHANGED vars

\* The iterator is dropped once it has handed out None
Drop ==
  /\ iter # Idle
  /\ iter.next = None
  /\ iter' = Idle
  /\ UNCHANGED vars

\* The tree's other calls, made while no iterator is held
Edit == iter = Idle /\ Next /\ UNCHANGED iter

WalkInit == Init /\ iter = Idle

WalkNext ==
  \/ Edit
  \/ \E n \in Node : StartSiblings(n) \/ StartTraverse(n)
  \/ NextSibling
  \/ NextEdge
  \/ Drop

WalkSpec == WalkInit /\ [][WalkNext]_walkVars /\ WF_walkVars(NextSibling \/ NextEdge \/ Drop)

-----------------------------------------------------------------------------
\* An iterator has always handed out a prefix of what was there when it was
\* made, and all of it when it ends: each sibling once, in order, also when
\* the loop detaches them (inlines.rs:2132), and each node's edges nested in
\* document order.
VisitsPlan ==
  /\ IsPrefix(iter.seen, iter.plan)
  /\ iter.kind = "traverse" /\ iter.next # None => iter.next[1] # "panic"
  /\ iter.next = None => iter.seen = iter.plan

\* Every iteration ends: the loop always reaches None and the iterator is
\* dropped, because the links have no cycle.
WalkEnds == iter # Idle ~> iter = Idle
=============================================================================
