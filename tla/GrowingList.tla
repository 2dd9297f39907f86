------------------------------ MODULE GrowingList ------------------------------
\* What an arena promises to whoever holds references into it.  Values are only added,
\* and the k-th reference handed out reads the k-th value for as long as it is held.
\* Draining the arena hands every value to a closure, once, in the order they came.
EXTENDS Sequences

CONSTANTS Value, Nothing

VARIABLES
  list,       \* what the references read
  leaving,    \* the values a drain has still to hand out
  each        \* the last value it has handed out

Init == list = <<>> /\ leaving = <<>> /\ each = Nothing

Add == \E v \in Value : list' = Append(list, v) /\ UNCHANGED <<leaving, each>>

Drain == leaving = <<>> /\ leaving' = list /\ list' = <<>> /\ UNCHANGED each

Each ==
  /\ leaving # <<>>
  /\ each' = Head(leaving) /\ leaving' = Tail(leaving)
  /\ UNCHANGED list

Spec == Init /\ [][Add \/ Drain \/ Each]_<<list, leaving, each>>
================================================================================
