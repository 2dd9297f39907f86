------------------------------ MODULE ArenaTree ------------------------------
(***************************************************************************)
(* The document tree of src/src/arena_tree.rs: nodes that live in an arena *)
(* and refer to each other through five pointers.  `links' holds the five  *)
(* pointer fields of every node; each method of Node is an operator from   *)
(* one value of `links' to the next, written field by field in the order   *)
(* of the source, and each action below is one call of a method.           *)
(*                                                                         *)
(* `kids' is a history variable: what the callers mean by the same call,   *)
(* on plain lists of children.  No guard and no pointer update reads it.   *)
(* Linked, the invariant, says the two views never disagree.               *)
(*                                                                         *)
(* The methods state no precondition, but their callers keep one, and the  *)
(* guards carry it: a node is never put below itself, and a sibling is     *)
(* only inserted next to a node that has a parent.                         *)
(***************************************************************************)
EXTENDS Naturals, Sequences

CONSTANTS
  Node,  \* the nodes of the arena, in a tree or not
  None   \* the null pointer, Option::None

ASSUME NoneAssumption == None \notin Node

VARIABLES
  links, \* the pointer fields of every node
  kids   \* history: the children each node is meant to have, in order

vars == <<links, kids>>

Pointer == Node \cup {None}

Fields == [parent: [Node -> Pointer], previous_sibling: [Node -> Pointer],
           next_sibling: [Node -> Pointer], first_child: [Node -> Pointer],
           last_child: [Node -> Pointer]]

-----------------------------------------------------------------------------
(* The methods of Node, on pointers.                                       *)

\* Put without the test for a null pointer (a mutant of Put)
PutUnchecked(f, n, v) == [x \in DOMAIN f \cup {n} |-> IF x = n THEN v ELSE f[x]]

\* Cell::set on one field of node n, where there is a node n
Put(f, n, v) == IF n = None THEN f ELSE [f EXCEPT ![n] = v]

\* Put where `cond' holds
PutIf(cond, f, n, v) == IF cond THEN Put(f, n, v) ELSE f

Unlinked == [n \in Node |-> None]

Detach(t, n) ==
  LET up == t.parent[n]
      before == t.previous_sibling[n]
      after == t.next_sibling[n]
  IN  [parent           |-> Put(t.parent, n, None),
       previous_sibling |-> Put(Put(t.previous_sibling, n, None), after, before),
       next_sibling     |-> Put(Put(t.next_sibling, n, None), before, after),
       last_child       |-> PutIf(after = None, t.last_child, up, before),
       first_child      |-> PutIf(before = None, t.first_child, up, after)]

AppendInner(t, self, child) ==
  LET last == t.last_child[self]
  IN  [parent           |-> Put(t.parent, child, self),
       previous_sibling |-> PutIf(last # None, t.previous_sibling, child, last),
       next_sibling     |-> Put(t.next_sibling, last, child),
       first_child      |-> PutIf(last = None, t.first_child, self, child),
       last_child       |-> Put(t.last_child, self, child)]

PrependInner(t, self, child) ==
  LET first == t.first_child[self]
  IN  [parent           |-> Put(t.parent, child, self),
       previous_sibling |-> Put(t.previous_sibling, first, child),
       next_sibling     |-> PutIf(first # None, t.next_sibling, child, first),
       first_child      |-> Put(t.first_child, self, child),
       last_child       |-> PutIf(first = None, t.last_child, self, child)]

\* insert_after that leaves the parent's last_child alone (a mutant)
InsertAfterKeepsLast(t, self, new) ==
  LET up == t.parent[self]
      after == t.next_sibling[self]
  IN  [parent           |-> Put(t.parent, new, up),
       previous_sibling |-> Put(Put(t.previous_sibling, new, self), after, new),
       next_sibling     |-> Put(PutIf(after # None, t.next_sibling, new, after), self, new),
       first_child      |-> t.first_child,
       last_child       |-> t.last_child]

InsertAfterInner(t, self, new) ==
  LET up == t.parent[self]
      after == t.next_sibling[self]
  IN  [parent           |-> Put(t.parent, new, up),
       previous_sibling |-> Put(Put(t.previous_sibling, new, self), after, new),
       next_sibling     |-> Put(PutIf(after # None, t.next_sibling, new, after), self, new),
       first_child      |-> t.first_child,
       last_child       |-> PutIf(after = None, t.last_child, up, new)]

InsertBeforeInner(t, self, new) ==
  LET up == t.parent[self]
      before == t.previous_sibling[self]
  IN  [parent           |-> Put(t.parent, new, up),
       previous_sibling |-> Put(PutIf(before # None, t.previous_sibling, new, before), self, new),
       next_sibling     |-> Put(Put(t.next_sibling, new, self), before, new),
       first_child      |-> PutIf(before = None, t.first_child, up, new),
       last_child       |-> t.last_child]

-----------------------------------------------------------------------------
(* What the same calls mean on lists of children.                          *)

Has(s, n) == \E i \in 1 .. Len(s) : s[i] = n

IndexIn(s, n) == CHOOSE i \in 1 .. Len(s) : s[i] = n

\* s without its element at position i
Cut(s, i) == [j \in 1 .. Len(s) - 1 |-> IF j < i THEN s[j] ELSE s[j + 1]]

\* s with n put in at position i
Splice(s, i, n) ==
  [j \in 1 .. Len(s) + 1 |-> IF j < i THEN s[j] ELSE IF j = i THEN n ELSE s[j - 1]]

Without(k, n) ==
  [p \in Node |-> IF Has(k[p], n) THEN Cut(k[p], IndexIn(k[p], n)) ELSE k[p]]

With(k, p, i, n) == [k EXCEPT ![p] = Splice(@, i, n)]

-----------------------------------------------------------------------------
(* The calls.                                                              *)

\* The nodes reached from n through the parent function f, n itself included:
\* those in every set that holds n and the parents of its members
Closed(f, S) == \A x \in S : f[x] \in S \cup {None}

Above(f, n) == {m \in Node : \A S \in SUBSET Node : n \in S /\ Closed(f, S) => m \in S}

AncestorsOrSelf(n) == Above(links.parent, n)

\* Node::detach
DetachCall(n) ==
  /\ links' = Detach(links, n)
  /\ kids' = Without(kids, n)

\* append for a caller that does not look where the child is (a mutant)
AppendAnywhere(self, child) ==
  /\ links' = AppendInner(Detach(links, child), self, child)
  /\ LET k == Without(kids, child)
     IN  kids' = With(k, self, Len(k[self]) + 1, child)

\* Node::append: detach the child from where it is, then append_inner
AppendCall(self, child) ==
  /\ child \notin AncestorsOrSelf(self)
  /\ links' = AppendInner(Detach(links, child), self, child)
  /\ LET k == Without(kids, child)
     IN  kids' = With(k, self, Len(k[self]) + 1, child)

\* Node::append_new: a child that is in no tree yet, so detach is skipped
AppendNewCall(self, child) ==
  /\ child \notin AncestorsOrSelf(self)
  /\ links.parent[child] = None
  /\ links' = AppendInner(links, self, child)
  /\ kids' = With(kids, self, Len(kids[self]) + 1, child)

\* Node::prepend
PrependCall(self, child) ==
  /\ child \notin AncestorsOrSelf(self)
  /\ links' = PrependInner(Detach(links, child), self, child)
  /\ kids' = With(Without(kids, child), self, 1, child)

\* Node::insert_after
InsertAfterCall(self, new) ==
  /\ links.parent[self] # None
  /\ new \notin AncestorsOrSelf(self)
  /\ links' = InsertAfterInner(Detach(links, new), self, new)
  /\ LET k == Without(kids, new)
         p == links.parent[self]
     IN  kids' = With(k, p, IndexIn(k[p], self) + 1, new)

\* Node::insert_before
InsertBeforeCall(self, new) ==
  /\ links.parent[self] # None
  /\ new \notin AncestorsOrSelf(self)
  /\ links' = InsertBeforeInner(Detach(links, new), self, new)
  /\ LET k == Without(kids, new)
         p == links.parent[self]
     IN  kids' = With(k, p, IndexIn(k[p], self), new)

Init ==
  /\ links = [parent |-> Unlinked, previous_sibling |-> Unlinked,
              next_sibling |-> Unlinked, first_child |-> Unlinked,
              last_child |-> Unlinked]
  /\ kids = [n \in Node |-> <<>>]

Next ==
  \/ \E n \in Node : DetachCall(n)
  \/ \E self, n \in Node :
       \/ AppendCall(self, n)
       \/ AppendNewCall(self, n)
       \/ PrependCall(self, n)
       \/ InsertAfterCall(self, n)
       \/ InsertBeforeCall(self, n)

Spec == Init /\ [][Next]_vars

-----------------------------------------------------------------------------
(* Properties.                                                             *)

\* The type invariant: five total pointer fields, and lists of nodes.
TypeOK ==
  /\ links \in Fields
  /\ kids \in [Node -> Seq(Node)]

\* The pointers t say what the lists k say, in four parts.  The debug_asserts
\* of append_inner, prepend, insert_after and insert_before follow from it.
\* A node is listed once, under one parent.
Once(k) ==
  \A p, q \in Node : \A i \in 1 .. Len(k[p]), j \in 1 .. Len(k[q]) :
    k[p][i] = k[q][j] => p = q /\ i = j

\* Every parent points to the ends of its list.
Ends(t, k) ==
  \A p \in Node :
    /\ t.first_child[p] = IF Len(k[p]) = 0 THEN None ELSE k[p][1]
    /\ t.last_child[p] = IF Len(k[p]) = 0 THEN None ELSE k[p][Len(k[p])]

\* Every listed child points to its parent and to its neighbours in the list.
Chain(t, k) ==
  \A p \in Node : \A i \in 1 .. Len(k[p]) :
    /\ t.parent[k[p][i]] = p
    /\ t.previous_sibling[k[p][i]] = IF i = 1 THEN None ELSE k[p][i - 1]
    /\ t.next_sibling[k[p][i]] = IF i = Len(k[p]) THEN None ELSE k[p][i + 1]

Unlisted(k, n) == \A p \in Node : ~Has(k[p], n)

\* A node that is not listed points nowhere above or beside itself.
Loose(t, k) ==
  \A n \in Node : Unlisted(k, n) =>
    /\ t.parent[n] = None
    /\ t.previous_sibling[n] = None
    /\ t.next_sibling[n] = None

Linked(t, k) == Once(k) /\ Ends(t, k) /\ Chain(t, k) /\ Loose(t, k)

\* After any sequence of calls the pointers and the intended lists of
\* children agree (arena_tree.rs, every method that writes a pointer).
PointersAgree == Linked(links, kids)

NoCycle(f) == \A n \in Node : f[n] # None => n \notin Above(f, f[n])

\* No node is its own proper ancestor, so a walk up through `parent', as
\* Traverse, add_child and the formatters make, ends (arena_tree.rs, Ancestors and Traverse).
Acyclic == NoCycle(links.parent)
=============================================================================
