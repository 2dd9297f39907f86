------------------------------ MODULE TypedArena -------------------------------
\* The arena that nodes and the strings they borrow from live in.  Values are pushed to
\* one buffer until it is full; it is then put by and a new one begun, because a buffer
\* that grew would move, and with it what references were handed out to.
EXTENDS Integers, Sequences

CONSTANTS
  Value,
  Nothing,          \* what is read where no value is
  FirstCapacity,    \* of the buffer the arena is made with
  MinCapacity,      \* the least of a buffer begun later
  MaxBuffers        \* bound: how many buffers are begun

ASSUME CapacitiesAssumption == FirstCapacity \in Nat \ {0} /\ MinCapacity \in Nat \ {0}
ASSUME MaxBuffersAssumption == MaxBuffers \in Nat
ASSUME NothingAssumption == Nothing \notin Value

VARIABLES
  chunks,     \* [memory, rest, current]: every buffer there has been, by its number, and the
              \* numbers of those put by and of the one values are pushed to
  drained,    \* the buffers a drain has taken out and not yet handed on
  slot,       \* where the drain is in the first of them
  each,       \* the last value the drain has handed out
  refs,       \* history: the references handed out
  going       \* history: those to the values a drain has still to hand out

arenaVars == <<chunks, drained, slot, each, refs, going>>

Buffer(capacity) == [capacity |-> capacity, items |-> <<>>]

with_capacity(n) == [memory |-> <<Buffer(n)>>, rest |-> <<>>, current |-> 1]

\* A new buffer for the values to come, and the buffers put by
NewBuffer(c, capacity, rest) ==
  [memory |-> Append(c.memory, Buffer(capacity)), rest |-> rest, current |-> Len(c.memory) + 1]

\* Twice the size for the first two, the same from then on
NewCapacity(c) ==
  LET old == c.memory[c.current].capacity
      n == IF Len(c.rest) < 2 THEN old * 2 ELSE old
  IN  IF n < MinCapacity THEN MinCapacity ELSE n

\* Broken: a full buffer is left for push to grow
grow_never(c) == c

grow(c) == NewBuffer(c, NewCapacity(c), Append(c.rest, c.current))

Full(c) == Len(c.memory[c.current].items) = c.memory[c.current].capacity

\* Where a Vec's values go that is pushed to when it is full; where they were is freed
Moved(c) ==
  LET items == c.memory[c.current].items
  IN  [c EXCEPT !.memory = Append(@, [capacity |-> 2 * Len(items) + 1, items |-> items]),
                !.current = Len(c.memory) + 1]

push(c, v) ==
  LET room == IF Full(c) THEN Moved(c) ELSE c
  IN  [room EXCEPT !.memory[room.current].items = Append(@, v)]

ArenaInit ==
  /\ chunks = with_capacity(FirstCapacity)
  /\ drained = <<>> /\ slot = 1 /\ each = Nothing
  /\ refs = <<>> /\ going = <<>>

alloc(v) ==
  /\ drained = <<>> /\ (Full(chunks) => Len(chunks.memory) < MaxBuffers)
  /\ \E pushed \in {push(IF Full(chunks) THEN grow(chunks) ELSE chunks, v)} :
       /\ chunks' = pushed
       /\ refs' = Append(refs, [buffer |-> pushed.current,
                                slot |-> Len(pushed.memory[pushed.current].items)])
  /\ UNCHANGED <<drained, slot, each, going>>

\* The buffers are taken out and an empty arena is left.  Only once no reference is held
drain ==
  /\ drained = <<>> /\ Len(chunks.memory) < MaxBuffers
  /\ drained' = Append(chunks.rest, chunks.current)
  /\ chunks' = NewBuffer(chunks, 0, <<>>)
  /\ slot' = 1
  /\ going' = refs /\ refs' = <<>>
  /\ UNCHANGED each

\* The next value of the buffer at hand, or the next buffer
HandOut ==
  /\ drained # <<>>
  /\ LET items == chunks.memory[Head(drained)].items
     IN  IF slot <= Len(items)
         THEN each' = items[slot] /\ slot' = slot + 1 /\ going' = Tail(going) /\ UNCHANGED drained
         ELSE drained' = Tail(drained) /\ slot' = 1 /\ UNCHANGED <<each, going>>
  /\ UNCHANGED <<chunks, refs>>

ArenaNext == (\E v \in Value : alloc(v)) \/ drain \/ HandOut
ArenaSpec == ArenaInit /\ [][ArenaNext]_arenaVars

--------------------------------------------------------------------------------
Numbers(s) == {s[i] : i \in DOMAIN s}

\* What a reference reads: a buffer no longer owned is freed
Read(r) ==
  IF r.buffer \in Numbers(chunks.rest) \cup {chunks.current} \cup Numbers(drained)
  THEN chunks.memory[r.buffer].items[r.slot]
  ELSE Nothing
ReadAll(rs) == [k \in DOMAIN rs |-> Read(rs[k])]

\* The list the arena stands for is what its references read, not what its buffers hold: an arena
\* that moves a value, forgets one when it begins a buffer or hands the buffers out in the
\* wrong order is not a list
Values == INSTANCE GrowingList WITH list <- ReadAll(refs), leaving <- ReadAll(going)
ImplementsList == Values!Spec
================================================================================
