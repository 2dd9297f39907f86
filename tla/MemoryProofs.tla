------------------------------ MODULE MemoryProofs -----------------------------
\* The two stores that hand out memory again and again: the arena the nodes live in, and the
\* spare strings and line vectors of a thread.
EXTENDS TypedArena, SpareBuffers, SequenceTheorems, TLAPS

--------------------------------------------------------------------------------
\* An arena is the list of values its references read, whatever its capacities and however
\* many buffers it begins.
\*
\* The argument: buffers are numbered as they are begun, those put by and the current one come
\* in that order, and the references handed out are exactly the slots of those, in
\* order.  So a reference reads the value that was put there: nothing writes to a slot twice
\* or frees a buffer that has one.  And a drain, which goes through the slots in order,
\* meets the references in the order they were handed out.

BufferSet == [capacity : Nat, items : Seq(Value)]
Ref == [buffer : Nat, slot : Nat]

Rising(s) == \A i, j \in DOMAIN s : i < j => s[i] < s[j]

\* A list of buffers in the order they were begun
Sound(c) ==
  /\ c \in [memory : Seq(BufferSet), rest : Seq(Nat), current : Nat]
  /\ c.current \in DOMAIN c.memory
  /\ Rising(c.rest)
  /\ \A i \in DOMAIN c.rest : c.rest[i] \in DOMAIN c.memory /\ c.rest[i] < c.current

Owns(c) == Numbers(c.rest) \cup {c.current}

InOrder(rs) ==
  \A k, l \in DOMAIN rs :
    k < l => \/ rs[k].buffer < rs[l].buffer
             \/ rs[k].buffer = rs[l].buffer /\ rs[k].slot < rs[l].slot

\* References are the slots of some buffers, of the first of them from a slot on
Lists(rs, memory, buffers, first, from) ==
  /\ rs \in Seq(Ref)
  /\ InOrder(rs)
  /\ \A k \in DOMAIN rs :
       /\ rs[k].buffer \in buffers
       /\ rs[k].slot \in 1..Len(memory[rs[k].buffer].items)
       /\ rs[k].buffer = first => from <= rs[k].slot
  /\ \A b \in buffers : \A j \in 1..Len(memory[b].items) :
       (b = first => from <= j) => \E k \in DOMAIN rs : rs[k].buffer = b /\ rs[k].slot = j

\* No buffer has the number 0: all slots of all buffers
AllOf(rs, c) == Lists(rs, c.memory, Owns(c), 0, 1)

Draining ==
  /\ drained \in Seq(Nat) /\ Rising(drained)
  /\ \A i \in DOMAIN drained : drained[i] \in DOMAIN chunks.memory
  /\ slot \in Nat \ {0}
  /\ drained = <<>> => going = <<>>
  /\ drained # <<>> => refs = <<>>
  /\ drained # <<>> => Lists(going, chunks.memory, Numbers(drained), Head(drained), slot)

\* The inductive invariant
ArenaInv == Sound(chunks) /\ AllOf(refs, chunks) /\ Draining

--------------------------------------------------------------------------------
(* What the operations on buffers do to them.                                    *)

\* What is known of a sound list of buffers
LEMMA Shape ==
  ASSUME NEW c, Sound(c)
  PROVE  /\ c.memory \in Seq(BufferSet) /\ c.rest \in Seq(Nat) /\ c.current \in Nat
         /\ DOMAIN c.memory = 1..Len(c.memory) /\ Len(c.memory) \in Nat
         /\ c.current \in DOMAIN c.memory
         /\ c \in [memory : Seq(BufferSet), rest : Seq(Nat), current : Nat]
         /\ c = [memory |-> c.memory, rest |-> c.rest, current |-> c.current]
         /\ \A b \in DOMAIN c.memory : /\ c.memory[b] \in BufferSet
                                       /\ c.memory[b].capacity \in Nat
                                       /\ c.memory[b].items \in Seq(Value)
<1>1. c \in [memory : Seq(BufferSet), rest : Seq(Nat), current : Nat] /\ c.current \in DOMAIN c.memory
  BY DEF Sound
<1>2. /\ c.memory \in Seq(BufferSet) /\ c.rest \in Seq(Nat) /\ c.current \in Nat
      /\ c = [memory |-> c.memory, rest |-> c.rest, current |-> c.current]
  BY <1>1
<1>3. DOMAIN c.memory = 1..Len(c.memory) /\ Len(c.memory) \in Nat
  BY <1>2
<1>4. \A b \in DOMAIN c.memory : c.memory[b] \in BufferSet
  BY <1>2, <1>3
<1>5. \A x \in BufferSet : x.capacity \in Nat /\ x.items \in Seq(Value)
  BY DEF BufferSet
<1>6. QED
  BY <1>1, <1>2, <1>3, <1>4, <1>5

\* The new buffer for a full one has room
LEMMA GrowMakesRoom ==
  ASSUME NEW c, Sound(c)
  PROVE  /\ Sound(grow(c)) /\ ~Full(grow(c))
         /\ Owns(grow(c)) = Owns(c) \cup {Len(c.memory) + 1}
         /\ grow(c).memory = Append(c.memory, grow(c).memory[Len(c.memory) + 1])
         /\ grow(c).memory[Len(c.memory) + 1].items = <<>>
         /\ grow(c).current = Len(c.memory) + 1
<1> DEFINE n == Len(c.memory) + 1
           cap == NewCapacity(c)
           new == [capacity |-> cap, items |-> <<>>]
<1>1. cap \in Nat \ {0}
  <2>1. c.memory[c.current].capacity \in Nat /\ c.rest \in Seq(Nat)
    BY Shape
  <2>2. QED
    BY <2>1, CapacitiesAssumption DEF NewCapacity
<1>2. /\ grow(c) = [memory |-> Append(c.memory, new), rest |-> Append(c.rest, c.current), current |-> n]
  BY DEF grow, NewBuffer, Buffer
<1>3. new \in BufferSet
  BY <1>1 DEF BufferSet
<1> HIDE DEF cap, new
<1>4. /\ c.memory \in Seq(BufferSet) /\ c.rest \in Seq(Nat) /\ c.current \in 1..Len(c.memory)
      /\ \A i \in DOMAIN c.rest : c.rest[i] \in 1..Len(c.memory) /\ c.rest[i] < c.current
  BY DEF Sound
<1>5. Append(c.memory, new) \in Seq(BufferSet) /\ Append(c.memory, new)[n] = new
  BY <1>3, <1>4
<1>6. Sound(grow(c))
  <2>1. Rising(Append(c.rest, c.current))
    BY <1>4 DEF Rising, Sound
  <2>2. \A i \in DOMAIN Append(c.rest, c.current) : Append(c.rest, c.current)[i] \in 1..Len(c.memory)
    BY <1>4
  <2>3. Append(c.rest, c.current) \in Seq(Nat)
    BY <1>4
  <2>4. QED
    BY <1>2, <1>4, <1>5, <2>1, <2>2, <2>3 DEF Sound
<1>7. Numbers(Append(c.rest, c.current)) = Numbers(c.rest) \cup {c.current}
  <2>1. DOMAIN Append(c.rest, c.current) = DOMAIN c.rest \cup {Len(c.rest) + 1}
    BY <1>4
  <2>2. /\ \A i \in DOMAIN c.rest : Append(c.rest, c.current)[i] = c.rest[i]
        /\ Append(c.rest, c.current)[Len(c.rest) + 1] = c.current
    BY <1>4
  <2>3. QED
    BY <2>1, <2>2 DEF Numbers
<1>8. new.items = <<>> /\ new.capacity # 0
  BY <1>1 DEF new
<1>9. QED
  <2>1. Len(new.items) # new.capacity
    BY <1>8
  <2>2. ~Full(grow(c))
    BY <1>2, <1>5, <2>1 DEF Full
  <2>3. QED
    BY <1>2, <1>5, <1>6, <1>7, <1>8, <2>2 DEF Owns

\* Pushing to a buffer with room writes one new slot and nothing else
LEMMA PushAddsASlot ==
  ASSUME NEW c, NEW v \in Value, Sound(c), ~Full(c)
  PROVE  /\ Sound(push(c, v))
         /\ push(c, v).rest = c.rest /\ push(c, v).current = c.current
         /\ DOMAIN push(c, v).memory = DOMAIN c.memory
         /\ \A b \in DOMAIN c.memory :
              push(c, v).memory[b].items =
                IF b = c.current THEN Append(c.memory[b].items, v) ELSE c.memory[b].items
<1> DEFINE b0 == c.current
           written == [c.memory[b0] EXCEPT !.items = Append(@, v)]
<1>1. push(c, v) = [c EXCEPT !.memory[b0].items = Append(@, v)]
  BY DEF push
<1>2. /\ c.memory \in Seq(BufferSet) /\ c.rest \in Seq(Nat) /\ b0 \in DOMAIN c.memory
      /\ c \in [memory : Seq(BufferSet), rest : Seq(Nat), current : Nat]
  BY Shape
<1>3. c.memory[b0] \in BufferSet /\ c.memory[b0].items \in Seq(Value) /\ c.memory[b0].capacity \in Nat
  BY <1>2, Shape
<1>4. /\ written \in BufferSet /\ written.items = Append(c.memory[b0].items, v)
  <2>1. Append(c.memory[b0].items, v) \in Seq(Value)
    BY <1>3
  <2>2. \A x \in BufferSet, items \in Seq(Value) :
          [x EXCEPT !.items = items] \in BufferSet /\ [x EXCEPT !.items = items].items = items
    BY DEF BufferSet
  <2>3. QED
    BY <1>3, <2>1, <2>2
<1>5. push(c, v) = [c EXCEPT !.memory = [c.memory EXCEPT ![b0] = written]]
  BY <1>1
<1> HIDE DEF written
<1> DEFINE m == [c.memory EXCEPT ![b0] = written]
<1>6. /\ m \in Seq(BufferSet) /\ DOMAIN m = DOMAIN c.memory
      /\ \A b \in DOMAIN c.memory : m[b] = IF b = b0 THEN written ELSE c.memory[b]
  BY <1>2, <1>4
<1>7. push(c, v) = [memory |-> m, rest |-> c.rest, current |-> c.current]
  BY <1>2, <1>5
<1> HIDE DEF m
<1>8. Sound(push(c, v))
  BY <1>2, <1>6, <1>7 DEF Sound
<1>9. /\ push(c, v).rest = c.rest /\ push(c, v).current = c.current
      /\ push(c, v).memory = m
  BY <1>7
<1>10. QED
  BY <1>4, <1>6, <1>8, <1>9

\* A new buffer has no slots
LEMMA GrowKeepsAll ==
  ASSUME NEW c, NEW rs, Sound(c), AllOf(rs, c)
  PROVE  AllOf(rs, grow(c))
<1> DEFINE n == Len(c.memory) + 1
           g == grow(c)
<1>1. /\ Owns(g) = Owns(c) \cup {n} /\ g.memory[n].items = <<>>
      /\ g.memory = Append(c.memory, g.memory[n])
  BY GrowMakesRoom
<1>2. c.memory \in Seq(BufferSet)
  BY Shape
<1> HIDE DEF g
<1>3. \A b \in 1..Len(c.memory) : g.memory[b] = c.memory[b]
  <2> DEFINE last == g.memory[n]
  <2>1. g.memory = Append(c.memory, last)
    BY <1>1
  <2> HIDE DEF last
  <2>2. \A b \in 1..Len(c.memory) : Append(c.memory, last)[b] = c.memory[b]
    BY <1>2
  <2>3. QED
    BY <2>1, <2>2
<1>4. Owns(c) \subseteq 1..Len(c.memory)
  BY Shape DEF Sound, Owns, Numbers
<1>5. n \notin Owns(c) /\ Len(<<>>) = 0
  BY <1>2, <1>4
<1>6. QED
  <2>1. /\ rs \in Seq(Ref) /\ InOrder(rs)
        /\ \A k \in DOMAIN rs : /\ rs[k].buffer \in Owns(c) /\ rs[k].buffer # 0
                                /\ rs[k].slot \in 1..Len(c.memory[rs[k].buffer].items)
    BY <1>4 DEF AllOf, Lists
  <2>2. \A b \in Owns(c) : \A j \in 1..Len(c.memory[b].items) :
          \E k \in DOMAIN rs : rs[k].buffer = b /\ rs[k].slot = j
    BY <1>4 DEF AllOf, Lists
  <2>3. \A k \in DOMAIN rs : rs[k].buffer \in Owns(g) /\ rs[k].slot \in 1..Len(g.memory[rs[k].buffer].items)
    BY <1>1, <1>3, <1>4, <2>1
  <2>4. \A b \in Owns(g) : \A j \in 1..Len(g.memory[b].items) :
          \E k \in DOMAIN rs : rs[k].buffer = b /\ rs[k].slot = j
    BY <1>1, <1>3, <1>4, <1>5, <2>2
  <2>5. AllOf(rs, g)
    BY <2>1, <2>3, <2>4 DEF AllOf, Lists
  <2>6. QED
    BY <2>5 DEF g

\* The slot a push writes is the one that comes next
LEMMA PushKeepsAll ==
  ASSUME NEW c, NEW rs, NEW v \in Value, Sound(c), ~Full(c), AllOf(rs, c),
         NEW r, r = [buffer |-> c.current, slot |-> Len(c.memory[c.current].items) + 1]
  PROVE  AllOf(Append(rs, r), push(c, v))
<1> DEFINE p == push(c, v)
           new == Append(rs, r)
           items == c.memory[c.current].items
<1>1. /\ p.rest = c.rest /\ p.current = c.current
      /\ \A b \in DOMAIN c.memory :
           p.memory[b].items = IF b = c.current THEN Append(c.memory[b].items, v) ELSE c.memory[b].items
  BY PushAddsASlot
<1>2. /\ c.memory \in Seq(BufferSet) /\ c.current \in DOMAIN c.memory /\ c.current \in Nat \ {0}
      /\ items \in Seq(Value)
  BY Shape
<1>3. Owns(c) \subseteq DOMAIN c.memory /\ (\A b \in Owns(c) : b \in Nat \ {0} /\ b <= c.current)
  BY Shape DEF Sound, Owns, Numbers
<1>4. Owns(p) = Owns(c) /\ c.current \in Owns(c)
  BY <1>1 DEF Owns
<1>5. Len(p.memory[c.current].items) = Len(items) + 1 /\ Len(items) \in Nat
  <2>1. p.memory[c.current].items = Append(items, v)
    BY <1>1, <1>2
  <2> HIDE DEF items, p
  <2>2. QED
    BY <1>2, <2>1
<1>6. \A b \in Owns(c) \ {c.current} : p.memory[b].items = c.memory[b].items
  BY <1>1, <1>3
<1>7. /\ rs \in Seq(Ref) /\ InOrder(rs)
      /\ \A k \in DOMAIN rs : /\ rs[k].buffer \in Owns(c) /\ rs[k].buffer # 0
                              /\ rs[k].slot \in 1..Len(c.memory[rs[k].buffer].items)
  BY <1>3 DEF AllOf, Lists
<1>8. \A b \in Owns(c) : \A j \in 1..Len(c.memory[b].items) :
        \E k \in DOMAIN rs : rs[k].buffer = b /\ rs[k].slot = j
  BY <1>3 DEF AllOf, Lists
<1>9. r \in Ref /\ r.buffer = c.current /\ r.slot = Len(items) + 1
  BY <1>2 DEF Ref
<1> HIDE DEF p, items
<1>10. /\ new \in Seq(Ref) /\ DOMAIN new = DOMAIN rs \cup {Len(rs) + 1}
       /\ DOMAIN rs = 1..Len(rs) /\ Len(rs) \in Nat
       /\ new[Len(rs) + 1] = r /\ \A k \in DOMAIN rs : new[k] = rs[k]
  BY <1>7, <1>9
<1> HIDE DEF new
<1>11. InOrder(new)
  <2>1. \A k \in DOMAIN rs : \/ rs[k].buffer < r.buffer
                             \/ rs[k].buffer = r.buffer /\ rs[k].slot < r.slot
    <3> TAKE k \in DOMAIN rs
    <3>1. rs[k] \in Ref
      BY <1>7
    <3>2. rs[k].buffer \in Nat /\ rs[k].slot \in Nat
      BY <3>1 DEF Ref
    <3>3. rs[k].buffer = c.current => rs[k].slot <= Len(items)
      BY <1>7 DEF items
    <3>4. rs[k].buffer <= c.current
      BY <1>3, <1>7
    <3>5. CASE rs[k].buffer = c.current
      BY <1>5, <1>9, <3>2, <3>3, <3>5
    <3>6. CASE rs[k].buffer # c.current
      BY <1>2, <1>9, <3>2, <3>4, <3>6
    <3>7. QED
      BY <3>5, <3>6
  <2>2. QED
    BY <1>7, <1>10, <2>1 DEF InOrder
<1>12. \A k \in DOMAIN new : /\ new[k].buffer \in Owns(p) /\ new[k].buffer # 0
                             /\ new[k].slot \in 1..Len(p.memory[new[k].buffer].items)
                             /\ 1 <= new[k].slot
  <2>1. \A k \in DOMAIN rs : rs[k].slot \in 1..Len(p.memory[rs[k].buffer].items)
    <3> SUFFICES ASSUME NEW k \in DOMAIN rs
                 PROVE  rs[k].slot \in 1..Len(p.memory[rs[k].buffer].items)
      OBVIOUS
    <3>1. CASE rs[k].buffer = c.current
      BY <1>5, <1>7, <3>1 DEF items
    <3>2. CASE rs[k].buffer # c.current
      BY <1>6, <1>7, <3>2
    <3>3. QED
      BY <3>1, <3>2
  <2>2. r.slot \in 1..Len(p.memory[r.buffer].items)
    BY <1>2, <1>5, <1>9
  <2>3. QED
    BY <1>2, <1>4, <1>7, <1>9, <1>10, <2>1, <2>2
<1>13. ASSUME NEW b \in Owns(p), NEW j \in 1..Len(p.memory[b].items)
       PROVE  \E k \in DOMAIN new : new[k].buffer = b /\ new[k].slot = j
  <2>1. CASE b = c.current /\ j = Len(items) + 1
    BY <1>9, <1>10, <2>1
  <2>2. CASE ~(b = c.current /\ j = Len(items) + 1)
    <3>1. j \in 1..Len(c.memory[b].items)
      BY <1>2, <1>4, <1>5, <1>6, <1>13, <2>2 DEF items
    <3>2. PICK k \in DOMAIN rs : rs[k].buffer = b /\ rs[k].slot = j
      BY <1>4, <1>8, <1>13, <3>1
    <3>3. QED
      BY <1>10, <3>2
  <2>3. QED
    BY <2>1, <2>2
<1>14. QED
  <2>1. AllOf(new, p)
    BY <1>10, <1>11, <1>12, <1>13 DEF AllOf, Lists
  <2>2. QED
    BY <2>1 DEF new, p

\* What alloc does: the next slot, which reads the value, and no other changed or freed
LEMMA AllocAddsAValue ==
  ASSUME NEW c, NEW rs, NEW v \in Value, Sound(c), AllOf(rs, c),
         NEW p, p = push(IF Full(c) THEN grow(c) ELSE c, v),
         NEW r, r = [buffer |-> p.current, slot |-> Len(p.memory[p.current].items)]
  PROVE  /\ Sound(p) /\ AllOf(Append(rs, r), p)
         /\ \A b \in Owns(c) : \A j \in 1..Len(c.memory[b].items) :
              b \in Owns(p) /\ p.memory[b].items[j] = c.memory[b].items[j]
         /\ r.buffer \in Owns(p) /\ p.memory[r.buffer].items[r.slot] = v
<1> DEFINE room == IF Full(c) THEN grow(c) ELSE c
<1>1. /\ Sound(room) /\ ~Full(room) /\ AllOf(rs, room)
      /\ \A b \in Owns(c) : b \in Owns(room) /\ room.memory[b] = c.memory[b]
  <2>1. CASE Full(c)
    <3>1. /\ Sound(grow(c)) /\ ~Full(grow(c)) /\ Owns(c) \subseteq Owns(grow(c))
          /\ grow(c).memory = Append(c.memory, grow(c).memory[Len(c.memory) + 1])
      BY GrowMakesRoom
    <3>2. \A s \in Seq(BufferSet) : \A e : \A b \in 1..Len(s) : Append(s, e)[b] = s[b]
      OBVIOUS
    <3>3. Owns(c) \subseteq 1..Len(c.memory) /\ c.memory \in Seq(BufferSet)
      BY Shape DEF Sound, Owns, Numbers
    <3>4. \A b \in Owns(c) : grow(c).memory[b] = c.memory[b]
      BY <3>1, <3>2, <3>3
    <3>5. AllOf(rs, grow(c))
      BY GrowKeepsAll
    <3>6. QED
      BY <2>1, <3>1, <3>4, <3>5
  <2>2. CASE ~Full(c)
    BY <2>2
  <2>3. QED
    BY <2>1, <2>2
<1> HIDE DEF room
<1> DEFINE items == room.memory[room.current].items
<1>2. /\ Sound(p) /\ p.rest = room.rest /\ p.current = room.current
      /\ \A b \in DOMAIN room.memory :
           p.memory[b].items = IF b = room.current THEN Append(room.memory[b].items, v)
                               ELSE room.memory[b].items
  BY <1>1, PushAddsASlot DEF room
<1>3. /\ room.current \in DOMAIN room.memory /\ Owns(room) \subseteq DOMAIN room.memory
      /\ \A b \in DOMAIN room.memory : room.memory[b].items \in Seq(Value)
  <2>1. Owns(room) \subseteq DOMAIN room.memory
    BY <1>1 DEF Sound, Owns, Numbers
  <2>2. QED
    BY <1>1, <2>1, Shape
<1>4. \A s \in Seq(Value) : /\ Len(Append(s, v)) = Len(s) + 1 /\ Append(s, v)[Len(s) + 1] = v
                            /\ \A j \in 1..Len(s) : Append(s, v)[j] = s[j]
  OBVIOUS
<1>5. p.memory[p.current].items = Append(items, v) /\ items \in Seq(Value)
  BY <1>2, <1>3
<1>6. r = [buffer |-> room.current, slot |-> Len(items) + 1]
  BY <1>2, <1>4, <1>5
<1>7. AllOf(Append(rs, r), p)
  BY <1>1, <1>6, PushKeepsAll DEF room
<1>8. Owns(p) = Owns(room) /\ room.current \in Owns(p)
  BY <1>2 DEF Owns
<1>9. \A b \in Owns(c) : \A j \in 1..Len(c.memory[b].items) :
        b \in Owns(p) /\ p.memory[b].items[j] = c.memory[b].items[j]
  <2> TAKE b \in Owns(c)
  <2> TAKE j \in 1..Len(c.memory[b].items)
  <2>1. b \in Owns(p) /\ b \in DOMAIN room.memory /\ room.memory[b] = c.memory[b]
    <3>1. b \in Owns(room) /\ room.memory[b] = c.memory[b]
      BY <1>1
    <3>2. QED
      BY <1>3, <1>8, <3>1
  <2>2. room.memory[b].items \in Seq(Value)
    BY <1>3, <2>1
  <2>3. CASE b = room.current
    <3>1. p.memory[b].items = Append(room.memory[b].items, v)
      BY <1>2, <2>1, <2>3
    <3>2. j \in 1..Len(room.memory[b].items)
      BY <2>1
    <3>3. Append(room.memory[b].items, v)[j] = room.memory[b].items[j]
      BY <1>4, <2>2, <3>2
    <3>4. QED
      BY <2>1, <3>1, <3>3
  <2>4. CASE b # room.current
    BY <1>2, <2>1, <2>4
  <2>5. QED
    BY <2>1, <2>3, <2>4
<1>10. r.buffer \in Owns(p) /\ p.memory[r.buffer].items[r.slot] = v
  BY <1>2, <1>4, <1>5, <1>6, <1>8
<1>11. QED
  BY <1>2, <1>7, <1>9, <1>10

--------------------------------------------------------------------------------
(* What the references read.                                                     *)

LEMMA AppendIs ==
  ASSUME NEW S, NEW s \in Seq(S), NEW e \in S
  PROVE  Append(s, e) = [k \in 1..(Len(s) + 1) |-> IF k = Len(s) + 1 THEN e ELSE s[k]]
<1> DEFINE t == [k \in 1..(Len(s) + 1) |-> IF k = Len(s) + 1 THEN e ELSE s[k]]
<1>1. Append(s, e) \in Seq(S) /\ Len(Append(s, e)) = Len(s) + 1 /\ Len(s) \in Nat
  OBVIOUS
<1>2. t \in Seq(S) /\ Len(t) = Len(s) + 1
  <2>1. t \in [1..(Len(s) + 1) -> S]
    OBVIOUS
  <2>2. QED
    BY <1>1, <2>1
<1>3. \A k \in 1..(Len(s) + 1) : Append(s, e)[k] = t[k]
  OBVIOUS
<1>4. QED
  BY <1>1, <1>2, <1>3, SeqEqual

LEMMA RefsRead ==
  ASSUME ArenaInv
  PROVE  /\ refs \in Seq(Ref)
         /\ \A k \in DOMAIN refs :
              /\ refs[k].buffer \in Owns(chunks)
              /\ refs[k].slot \in 1..Len(chunks.memory[refs[k].buffer].items)
              /\ Read(refs[k]) = chunks.memory[refs[k].buffer].items[refs[k].slot]
BY DEF ArenaInv, AllOf, Lists, Owns, Read

LEMMA GoingRead ==
  ASSUME ArenaInv, drained # <<>>
  PROVE  /\ going \in Seq(Ref)
         /\ \A k \in DOMAIN going :
              /\ going[k].buffer \in Numbers(drained)
              /\ going[k].slot \in 1..Len(chunks.memory[going[k].buffer].items)
              /\ Read(going[k]) = chunks.memory[going[k].buffer].items[going[k].slot]
BY DEF ArenaInv, Draining, Lists, Read

--------------------------------------------------------------------------------
(* The steps.                                                                    *)

LEMMA AllocStep ==
  ASSUME ArenaInv, NEW v \in Value, alloc(v)
  PROVE  ArenaInv' /\ Values!Add
<1>1. PICK r : /\ Sound(chunks') /\ AllOf(Append(refs, r), chunks')
               /\ \A b \in Owns(chunks) : \A j \in 1..Len(chunks.memory[b].items) :
                    b \in Owns(chunks') /\ chunks'.memory[b].items[j] = chunks.memory[b].items[j]
               /\ r.buffer \in Owns(chunks') /\ chunks'.memory[r.buffer].items[r.slot] = v
               /\ refs' = Append(refs, r)
  <2>1. /\ chunks' = push(IF Full(chunks) THEN grow(chunks) ELSE chunks, v)
        /\ refs' = Append(refs, [buffer |-> chunks'.current,
                                 slot |-> Len(chunks'.memory[chunks'.current].items)])
    BY DEF alloc
  <2>2. Sound(chunks) /\ AllOf(refs, chunks)
    BY DEF ArenaInv
  <2>3. QED
    BY <2>1, <2>2, AllocAddsAValue
<1>2. drained = <<>> /\ going = <<>> /\ drained' = <<>> /\ going' = <<>> /\ slot' = slot /\ each' = each
  BY DEF alloc, ArenaInv, Draining
<1>3. ArenaInv'
  <2>1. Sound(chunks)' /\ AllOf(refs, chunks)'
    BY <1>1
  <2>2. Draining'
    BY <1>2 DEF ArenaInv, Draining, Rising
  <2>3. QED
    BY <2>1, <2>2 DEF ArenaInv
<1>4. ReadAll(refs)' = Append(ReadAll(refs), v)
  <2> DEFINE old == ReadAll(refs)
  <2> PICK n \in Nat : n = Len(refs)
    BY RefsRead
  <2>1. /\ refs \in Seq(Ref) /\ n \in Nat /\ DOMAIN refs = 1..n
        /\ \A k \in 1..n : refs'[k] = refs[k]
        /\ DOMAIN refs' = 1..(n + 1) /\ refs'[n + 1] = r
    <3>1. refs \in Seq(Ref)
      BY RefsRead
    <3>2. QED
      BY <1>1, <3>1
  <2>2. \A k \in 1..n : Read(refs[k])' = Read(refs[k])
    <3> TAKE k \in 1..n
    <3>1. refs'[k] = refs[k]
      BY <2>1
    <3>2. /\ refs[k].buffer \in Owns(chunks)
          /\ refs[k].slot \in 1..Len(chunks.memory[refs[k].buffer].items)
          /\ Read(refs[k]) = chunks.memory[refs[k].buffer].items[refs[k].slot]
      BY <2>1, RefsRead
    <3>3. /\ refs[k].buffer \in Owns(chunks')
          /\ chunks'.memory[refs[k].buffer].items[refs[k].slot] = Read(refs[k])
      BY <1>1, <3>2
    <3>4. QED
      BY <3>1, <3>3 DEF Read, Owns
  <2>3. Read(refs[n + 1])' = v
    BY <1>1, <2>1 DEF Read, Owns
  <2>4. ReadAll(refs)' = [k \in 1..(n + 1) |-> IF k = n + 1 THEN v ELSE old[k]]
    <3>1. ReadAll(refs)' = [k \in 1..(n + 1) |-> Read(refs[k])']
      BY <2>1 DEF ReadAll
    <3>2. \A k \in 1..n : old[k] = Read(refs[k])
      BY <2>1 DEF ReadAll
    <3>3. \A k \in 1..(n + 1) : Read(refs[k])' = IF k = n + 1 THEN v ELSE old[k]
      BY <2>1, <2>2, <2>3, <3>2
    <3>4. QED
      BY <3>1, <3>3
  <2>5. old \in Seq({Read(refs[k]) : k \in 1..n} \cup {v}) /\ Len(old) = n
    BY <2>1 DEF ReadAll
  <2> HIDE DEF old
  <2>6. Append(old, v) = [k \in 1..(n + 1) |-> IF k = n + 1 THEN v ELSE old[k]]
    BY <2>1, <2>5, AppendIs
  <2>7. QED
    BY <2>4, <2>6 DEF old
<1>5. ReadAll(going)' = ReadAll(going) /\ UNCHANGED each
  BY <1>2 DEF ReadAll
<1>6. QED
  BY <1>3, <1>4, <1>5 DEF Values!Add

LEMMA DrainStep ==
  ASSUME ArenaInv, drain
  PROVE  ArenaInv' /\ Values!Drain
<1> DEFINE n == Len(chunks.memory) + 1
           all == Append(chunks.rest, chunks.current)
<1>1. /\ drained = <<>> /\ drained' = all /\ slot' = 1
      /\ chunks' = NewBuffer(chunks, 0, <<>>)
      /\ going' = refs /\ refs' = <<>> /\ each' = each /\ going = <<>>
  BY DEF drain, ArenaInv, Draining
<1>2. Sound(chunks) /\ AllOf(refs, chunks)
  BY DEF ArenaInv
<1>3. /\ chunks.memory \in Seq(BufferSet) /\ chunks.rest \in Seq(Nat)
      /\ chunks.current \in 1..Len(chunks.memory) /\ Len(chunks.memory) \in Nat
  BY <1>2, Shape
<1>4. /\ chunks' = [memory |-> Append(chunks.memory, Buffer(0)), rest |-> <<>>, current |-> n]
      /\ Buffer(0) \in BufferSet /\ Buffer(0).items = <<>>
  BY <1>1 DEF NewBuffer, Buffer, BufferSet
<1>5. /\ chunks'.memory \in Seq(BufferSet) /\ chunks'.memory[n] = Buffer(0)
      /\ chunks'.memory = Append(chunks.memory, Buffer(0))
      /\ \A b \in 1..Len(chunks.memory) : chunks'.memory[b] = chunks.memory[b]
      /\ DOMAIN chunks'.memory = 1..n
      /\ chunks'.rest = <<>> /\ chunks'.current = n
  <2>1. chunks'.memory = Append(chunks.memory, Buffer(0)) /\ chunks'.rest = <<>> /\ chunks'.current = n
    BY <1>4
  <2>2. \A e \in BufferSet : /\ Append(chunks.memory, e) \in Seq(BufferSet)
                             /\ Append(chunks.memory, e)[n] = e
                             /\ DOMAIN Append(chunks.memory, e) = 1..n
                             /\ \A b \in 1..Len(chunks.memory) : Append(chunks.memory, e)[b] = chunks.memory[b]
    BY <1>3
  <2>3. QED
    BY <1>4, <2>1, <2>2
<1>6. Sound(chunks)'
  <2>1. chunks' \in [memory : Seq(BufferSet), rest : Seq(Nat), current : Nat]
    BY <1>3, <1>4, <1>5
  <2>2. QED
    BY <1>3, <1>5, <2>1 DEF Sound, Rising
<1>7. AllOf(refs, chunks)'
  <2>1. Owns(chunks') = {n}
    BY <1>5 DEF Owns, Numbers
  <2>2. Len(chunks'.memory[n].items) = 0
    BY <1>4, <1>5
  <2>3. <<>> \in Seq(Ref) /\ DOMAIN <<>> = {}
    OBVIOUS
  <2>4. AllOf(<<>>, chunks')
    BY <2>1, <2>2, <2>3 DEF AllOf, Lists, InOrder
  <2>5. QED
    BY <1>1, <2>4
<1>8. /\ all \in Seq(Nat) /\ all # <<>> /\ Rising(all) /\ Numbers(all) = Owns(chunks)
      /\ Numbers(all) \subseteq 1..Len(chunks.memory)
  <2>1. /\ all \in Seq(Nat) /\ DOMAIN all = DOMAIN chunks.rest \cup {Len(chunks.rest) + 1}
        /\ all[Len(chunks.rest) + 1] = chunks.current
        /\ \A i \in DOMAIN chunks.rest : all[i] = chunks.rest[i]
        /\ DOMAIN chunks.rest = 1..Len(chunks.rest) /\ Len(chunks.rest) \in Nat
    BY <1>3
  <2>2. all # <<>>
    BY <1>3, AppendProperties
  <2>3. Rising(all)
    <3>1. Rising(chunks.rest) /\ \A i \in DOMAIN chunks.rest : chunks.rest[i] < chunks.current
      BY <1>2 DEF Sound
    <3>2. QED
      BY <1>3, <3>1 DEF Rising
  <2> HIDE DEF all
  <2>4. Numbers(all) = Owns(chunks)
    BY <2>1 DEF Numbers, Owns
  <2>5. Owns(chunks) \subseteq 1..Len(chunks.memory)
    BY <1>2, <1>3 DEF Owns, Numbers, Sound
  <2>6. QED
    BY <2>1, <2>3, <2>4, <2>5, <2>2
<1> HIDE DEF all
<1>9. Draining'
  <2>1. \A i \in DOMAIN all : all[i] \in 1..Len(chunks.memory)
    BY <1>8 DEF Numbers
  <2>2. Lists(refs, chunks.memory, Numbers(all), 0, 1)
    BY <1>2, <1>8 DEF AllOf
  <2>3. Lists(refs, chunks'.memory, Numbers(all), Head(all), 1)
    <3>1. \A b \in Numbers(all) : chunks'.memory[b] = chunks.memory[b] /\ b # 0
      BY <1>5, <1>8
    <3>2. \A k \in DOMAIN refs : refs[k].buffer \in Numbers(all)
                                /\ refs[k].slot \in 1..Len(chunks'.memory[refs[k].buffer].items)
      BY <2>2, <3>1 DEF Lists
    <3>3. \A b \in Numbers(all) : \A j \in 1..Len(chunks'.memory[b].items) :
            \E k \in DOMAIN refs : refs[k].buffer = b /\ refs[k].slot = j
      BY <2>2, <3>1 DEF Lists
    <3>4. refs \in Seq(Ref) /\ InOrder(refs)
      BY <2>2 DEF Lists
    <3>5. QED
      BY <3>2, <3>3, <3>4 DEF Lists
  <2>4. QED
    BY <1>1, <1>3, <1>5, <1>8, <2>1, <2>3 DEF Draining
<1>10. ReadAll(going)' = ReadAll(refs) /\ ReadAll(going) = <<>> /\ ReadAll(refs)' = <<>>
  <2>1. \A k \in DOMAIN refs : Read(going[k])' = Read(refs[k])
    <3> TAKE k \in DOMAIN refs
    <3>1. /\ refs[k].buffer \in Owns(chunks)
          /\ Read(refs[k]) = chunks.memory[refs[k].buffer].items[refs[k].slot]
      BY RefsRead
    <3>2. going'[k] = refs[k] /\ Numbers(drained') = Owns(chunks)
      BY <1>1, <1>8
    <3>3. chunks'.memory[refs[k].buffer] = chunks.memory[refs[k].buffer]
      BY <1>5, <1>8, <3>1
    <3>4. QED
      BY <3>1, <3>2, <3>3 DEF Read
  <2>2. ReadAll(going)' = [k \in DOMAIN refs |-> Read(going[k])']
    BY <1>1 DEF ReadAll
  <2>3. QED
    BY <1>1, <2>1, <2>2 DEF ReadAll
<1>11. QED
  BY <1>1, <1>6, <1>7, <1>9, <1>10 DEF ArenaInv, Values!Drain

\* Taking the first of a list of buffers
LEMMA TailFacts ==
  ASSUME NEW S, NEW s \in Seq(S), s # <<>>
  PROVE  /\ Tail(s) \in Seq(S) /\ Len(s) \in Nat \ {0} /\ DOMAIN s = 1..Len(s)
         /\ DOMAIN Tail(s) = 1..(Len(s) - 1) /\ Len(Tail(s)) = Len(s) - 1
         /\ Head(s) = s[1] /\ Head(s) \in S
         /\ \A k \in 1..(Len(s) - 1) : Tail(s)[k] = s[k + 1]
         /\ Tail(s) = [k \in 1..(Len(s) - 1) |-> s[k + 1]]
<1>1. Len(s) \in Nat \ {0} /\ DOMAIN s = 1..Len(s)
  OBVIOUS
<1>2. Head(s) = s[1] /\ Head(s) \in S
  BY <1>1
<1>3. /\ Tail(s) \in Seq(S) /\ Len(Tail(s)) = Len(s) - 1
      /\ \A k \in 1..(Len(s) - 1) : Tail(s)[k] = s[k + 1]
  BY HeadTailProperties
<1>4. DOMAIN Tail(s) = 1..(Len(s) - 1)
  BY <1>3
<1>5. Tail(s) = [k \in 1..(Len(s) - 1) |-> s[k + 1]]
  <2> DEFINE t == [k \in 1..(Len(s) - 1) |-> s[k + 1]]
  <2>1. t \in Seq(S) /\ Len(t) = Len(s) - 1
    BY <1>1
  <2>2. \A k \in 1..Len(t) : Tail(s)[k] = t[k]
    BY <1>3, <2>1
  <2> HIDE DEF t
  <2>3. Tail(s) = t
    BY <1>3, <2>1, <2>2, SeqEqual
  <2>4. QED
    BY <2>3 DEF t
<1>6. QED
  BY <1>1, <1>2, <1>3, <1>4, <1>5

LEMMA EachStep ==
  ASSUME ArenaInv, HandOut, slot <= Len(chunks.memory[Head(drained)].items)
  PROVE  ArenaInv' /\ Values!Each
<1> DEFINE first == Head(drained)
           items == chunks.memory[first].items
<1>1. /\ drained # <<>> /\ each' = items[slot] /\ slot' = slot + 1 /\ going' = Tail(going)
      /\ drained' = drained /\ chunks' = chunks /\ refs' = refs
  BY DEF HandOut
<1>2. /\ drained \in Seq(Nat) /\ Rising(drained) /\ slot \in Nat \ {0} /\ refs = <<>>
      /\ \A i \in DOMAIN drained : drained[i] \in DOMAIN chunks.memory
      /\ Lists(going, chunks.memory, Numbers(drained), first, slot)
      /\ Sound(chunks) /\ AllOf(refs, chunks)
  BY <1>1 DEF ArenaInv, Draining
<1>3. first \in Numbers(drained) /\ \A b \in Numbers(drained) : b \in Nat /\ first <= b
  <2>1. /\ DOMAIN drained = 1..Len(drained) /\ Len(drained) \in Nat \ {0} /\ first = drained[1] /\ first \in Nat
    BY <1>1, <1>2, TailFacts
  <2>2. \A i \in DOMAIN drained : drained[i] \in Nat /\ drained[1] <= drained[i]
    <3>1. \A i \in DOMAIN drained : drained[i] \in Nat
      BY <1>2
    <3>2. \A i \in DOMAIN drained : i # 1 => drained[1] < drained[i]
      BY <1>2, <2>1 DEF Rising
    <3>3. QED
      BY <2>1, <3>1, <3>2
  <2>3. QED
    BY <2>1, <2>2 DEF Numbers
<1>4. items \in Seq(Value) /\ slot \in 1..Len(items)
  <2>1. first \in DOMAIN chunks.memory
    BY <1>2, <1>3 DEF Numbers
  <2>2. items \in Seq(Value)
    BY <1>2, <2>1, Shape
  <2>3. QED
    BY <1>2, <2>2
<1>5. going \in Seq(Ref) /\ InOrder(going)
  BY <1>2 DEF Lists
<1>6. \A k \in DOMAIN going : /\ going[k] \in Ref
                              /\ going[k].buffer \in Numbers(drained)
                              /\ going[k].slot \in 1..Len(chunks.memory[going[k].buffer].items)
                              /\ going[k].buffer = first => slot <= going[k].slot
  BY <1>2, <1>5 DEF Lists
<1>7. \A b \in Numbers(drained) : \A j \in 1..Len(chunks.memory[b].items) :
        (b = first => slot <= j) => \E k \in DOMAIN going : going[k].buffer = b /\ going[k].slot = j
  BY <1>2 DEF Lists
<1>8. /\ going # <<>> /\ 1 \in DOMAIN going /\ going[1].buffer = first /\ going[1].slot = slot
  <2>1. PICK k \in DOMAIN going : going[k].buffer = first /\ going[k].slot = slot
    BY <1>2, <1>3, <1>4, <1>7
  <2>2. DOMAIN going = 1..Len(going) /\ Len(going) \in Nat /\ going # <<>>
    BY <1>5, <2>1
  <2>3. 1 \in DOMAIN going /\ k \in Nat /\ 1 <= k
    BY <2>1, <2>2
  <2>4. ASSUME k # 1 PROVE FALSE
    <3>1. \/ going[1].buffer < first
          \/ going[1].buffer = first /\ going[1].slot < slot
      BY <1>5, <2>1, <2>3, <2>4 DEF InOrder
    <3>2. /\ going[1].buffer \in Nat /\ going[1].slot \in Nat /\ first <= going[1].buffer
          /\ going[1].buffer = first => slot <= going[1].slot
      <4>1. going[1] \in Ref
        BY <1>6, <2>3
      <4>2. QED
        BY <1>3, <1>6, <2>3, <4>1 DEF Ref
    <3>3. QED
      BY <1>2, <1>3, <3>1, <3>2
  <2>5. QED
    BY <2>1, <2>2, <2>4
<1> DEFINE n == Len(going)
           rest == Tail(going)
<1>9. /\ rest \in Seq(Ref) /\ n \in Nat \ {0} /\ DOMAIN going = 1..n
      /\ DOMAIN rest = 1..(n - 1) /\ \A k \in 1..(n - 1) : rest[k] = going[k + 1]
  BY <1>5, <1>8, TailFacts
<1> HIDE DEF first, items, rest
<1>10. Lists(rest, chunks.memory, Numbers(drained), first, slot + 1)
  <2>1. InOrder(rest)
    <3>1. \A k, l \in DOMAIN rest : k < l => k + 1 \in DOMAIN going /\ l + 1 \in DOMAIN going /\ k + 1 < l + 1
      BY <1>9
    <3>2. QED
      BY <1>5, <1>9, <3>1 DEF InOrder
  <2>2. \A k \in DOMAIN rest :
          /\ rest[k].buffer \in Numbers(drained)
          /\ rest[k].slot \in 1..Len(chunks.memory[rest[k].buffer].items)
          /\ rest[k].buffer = first => slot + 1 <= rest[k].slot
    <3> TAKE k \in DOMAIN rest
    <3>1. k + 1 \in DOMAIN going /\ rest[k] = going[k + 1] /\ 1 < k + 1
      BY <1>9
    <3>2. \/ going[1].buffer < rest[k].buffer
          \/ going[1].buffer = rest[k].buffer /\ going[1].slot < rest[k].slot
      BY <1>5, <1>8, <3>1 DEF InOrder
    <3>3. rest[k].buffer \in Nat /\ rest[k].slot \in Nat
      <4>1. rest[k] \in Ref
        BY <1>6, <3>1
      <4>2. QED
        BY <4>1 DEF Ref
    <3>4. rest[k].buffer = first => slot + 1 <= rest[k].slot
      BY <1>2, <1>8, <3>2, <3>3
    <3>5. QED
      BY <1>6, <3>1, <3>4
  <2>3. ASSUME NEW b \in Numbers(drained), NEW j \in 1..Len(chunks.memory[b].items), b = first => slot + 1 <= j
        PROVE  \E k \in DOMAIN rest : rest[k].buffer = b /\ rest[k].slot = j
    <3>1. b = first => slot <= j /\ j # slot
      BY <1>2, <2>3
    <3>2. PICK k \in DOMAIN going : going[k].buffer = b /\ going[k].slot = j
      BY <1>7, <2>3, <3>1
    <3>3. k # 1
      BY <1>8, <3>1, <3>2
    <3>4. k - 1 \in DOMAIN rest /\ rest[k - 1] = going[k]
      BY <1>9, <3>3
    <3>5. QED
      BY <3>2, <3>4
  <2>4. QED
    BY <1>9, <2>1, <2>2, <2>3 DEF Lists
<1>11. ArenaInv'
  <2>1. Lists(going', chunks'.memory, Numbers(drained'), Head(drained'), slot')
    BY <1>1, <1>10 DEF first, rest
  <2>2. Draining'
    BY <1>1, <1>2, <2>1 DEF Draining
  <2>3. QED
    BY <1>1, <1>2, <2>2 DEF ArenaInv
<1>12. ReadAll(going) # <<>> /\ each' = Head(ReadAll(going)) /\ ReadAll(going)' = Tail(ReadAll(going))
  <2> DEFINE read == ReadAll(going)
  <2>1. \A r : Read(r)' = Read(r)
    BY <1>1 DEF Read
  <2>2. read = [k \in 1..n |-> Read(going[k])]
    BY <1>9 DEF ReadAll
  <2>3. read \in Seq({Read(going[k]) : k \in 1..n}) /\ Len(read) = n /\ read # <<>>
    BY <1>9, <2>2
  <2>4. read[1] = Read(going[1])
    BY <1>9, <2>2
  <2>5. Read(going[1]) = items[slot]
    <3>1. Read(going[1]) = chunks.memory[going[1].buffer].items[going[1].slot]
      BY <1>1, <1>8, GoingRead
    <3>2. QED
      BY <1>8, <3>1 DEF items
  <2>6. ReadAll(going)' = [k \in 1..(n - 1) |-> Read(rest[k])]
    BY <1>1, <1>9, <2>1 DEF ReadAll, rest
  <2>7. \A k \in 1..(n - 1) : Read(rest[k]) = read[k + 1]
    BY <1>9, <2>2
  <2> HIDE DEF read
  <2>8. Tail(read) = [k \in 1..(n - 1) |-> read[k + 1]] /\ Head(read) = read[1]
    BY <2>3, TailFacts
  <2>9. ReadAll(going)' = Tail(read)
    BY <2>6, <2>7, <2>8
  <2>10. QED
    BY <1>1, <2>3, <2>4, <2>5, <2>8, <2>9 DEF read, items, first
<1>13. ReadAll(refs)' = ReadAll(refs)
  BY <1>1 DEF ReadAll, Read
<1>14. QED
  BY <1>11, <1>12, <1>13 DEF Values!Each

\* A drain goes on to the next buffer, which no list of values shows
LEMMA NextBufferStep ==
  ASSUME ArenaInv, HandOut, ~(slot <= Len(chunks.memory[Head(drained)].items))
  PROVE  ArenaInv' /\ UNCHANGED <<ReadAll(refs), ReadAll(going), each>>
<1> DEFINE first == Head(drained)
           rest == Tail(drained)
<1>1. /\ drained # <<>> /\ each' = each /\ slot' = 1 /\ going' = going
      /\ drained' = rest /\ chunks' = chunks /\ refs' = refs
  BY DEF HandOut
<1>2. /\ drained \in Seq(Nat) /\ Rising(drained) /\ slot \in Nat \ {0} /\ refs = <<>>
      /\ \A i \in DOMAIN drained : drained[i] \in DOMAIN chunks.memory
      /\ Lists(going, chunks.memory, Numbers(drained), first, slot)
      /\ Sound(chunks) /\ AllOf(refs, chunks)
  BY <1>1 DEF ArenaInv, Draining
<1> DEFINE n == Len(drained)
<1>3. /\ rest \in Seq(Nat) /\ n \in Nat \ {0} /\ DOMAIN drained = 1..n /\ DOMAIN rest = 1..(n - 1)
      /\ first = drained[1] /\ \A i \in 1..(n - 1) : rest[i] = drained[i + 1]
  BY <1>1, <1>2, TailFacts
<1>4. \A k \in DOMAIN going : going[k].buffer \in Numbers(drained) \ {first}
  <2> TAKE k \in DOMAIN going
  <2>1. /\ going[k].buffer \in Numbers(drained)
        /\ going[k].slot \in 1..Len(chunks.memory[going[k].buffer].items)
        /\ going[k].buffer = first => slot <= going[k].slot
    BY <1>2 DEF Lists
  <2>2. Len(chunks.memory[first].items) \in Nat
    BY <1>2, <1>3, Shape
  <2>3. ASSUME going[k].buffer = first PROVE FALSE
    BY <1>2, <2>1, <2>2, <2>3
  <2>4. QED
    BY <2>1, <2>3
<1> HIDE DEF first, rest
<1>5. Numbers(rest) = Numbers(drained) \ {first} /\ Rising(rest)
  <2>1. \A i, j \in 1..n : i < j => drained[i] < drained[j]
    BY <1>2, <1>3 DEF Rising
  <2>2. \A i \in 1..n : drained[i] \in Nat
    BY <1>2, <1>3
  <2>3. Rising(rest)
    BY <1>3, <2>1 DEF Rising
  <2>4. \A i \in 1..(n - 1) : rest[i] \in Numbers(drained) \ {first}
    <3> TAKE i \in 1..(n - 1)
    <3>1. i + 1 \in 1..n /\ 1 \in 1..n /\ 1 < i + 1 /\ rest[i] = drained[i + 1]
      BY <1>3
    <3>2. drained[1] < drained[i + 1] /\ drained[1] \in Nat /\ drained[i + 1] \in Nat
      BY <2>1, <2>2, <3>1
    <3>3. drained[i + 1] # drained[1]
      BY <3>2
    <3>4. drained[i + 1] \in Numbers(drained)
      BY <1>3, <3>1 DEF Numbers
    <3>5. QED
      BY <1>3, <3>1, <3>3, <3>4
  <2>5. \A i \in 1..n : i = 1 \/ (drained[i] = rest[i - 1] /\ i - 1 \in 1..(n - 1))
    <3> TAKE i \in 1..n
    <3>1. ASSUME i # 1 PROVE i - 1 \in 1..(n - 1) /\ (i - 1) + 1 = i
      BY <1>3, <3>1
    <3>2. QED
      BY <1>3, <3>1
  <2>6. \A x \in Numbers(rest) : x \in Numbers(drained) \ {first}
    <3>1. \A x \in Numbers(rest) : \E i \in 1..(n - 1) : x = rest[i]
      BY <1>3 DEF Numbers
    <3>2. QED
      BY <2>4, <3>1
  <2>7. \A x \in Numbers(drained) \ {first} : x \in Numbers(rest)
    <3> TAKE x \in Numbers(drained) \ {first}
    <3>1. PICK i \in 1..n : x = drained[i]
      BY <1>3 DEF Numbers
    <3>2. x = rest[i - 1] /\ i - 1 \in DOMAIN rest
      BY <1>3, <2>5, <3>1
    <3>3. QED
      BY <3>2 DEF Numbers
  <2>8. QED
    BY <2>3, <2>6, <2>7
<1>6. ArenaInv'
  <2>1. rest = <<>> => going = <<>>
    <3>1. ASSUME rest = <<>> PROVE Numbers(rest) = {}
      BY <3>1 DEF Numbers
    <3>2. going \in Seq(Ref)
      BY <1>2 DEF Lists
    <3>3. QED
      BY <1>4, <1>5, <3>1, <3>2
  <2>2. Lists(going, chunks.memory, Numbers(rest), Head(rest), 1)
    <3>1. \A k \in DOMAIN going : /\ going[k].buffer \in Numbers(rest)
                                  /\ going[k].slot \in 1..Len(chunks.memory[going[k].buffer].items)
      BY <1>2, <1>4, <1>5 DEF Lists
    <3>2. \A b \in Numbers(rest) : \A j \in 1..Len(chunks.memory[b].items) :
            \E k \in DOMAIN going : going[k].buffer = b /\ going[k].slot = j
      BY <1>2, <1>5 DEF Lists
    <3>3. going \in Seq(Ref) /\ InOrder(going)
      BY <1>2 DEF Lists
    <3>4. QED
      BY <3>1, <3>2, <3>3 DEF Lists
  <2>3. \A i \in DOMAIN rest : rest[i] \in DOMAIN chunks.memory
    <3>1. \A i \in DOMAIN rest : i + 1 \in DOMAIN drained
      BY <1>3
    <3>2. QED
      BY <1>2, <1>3, <3>1
  <2>4. Draining'
    BY <1>1, <1>2, <1>3, <1>5, <2>1, <2>2, <2>3 DEF Draining, rest
  <2>5. QED
    BY <1>1, <1>2, <2>4 DEF ArenaInv
<1>7. ReadAll(going)' = ReadAll(going)
  <2>1. \A k \in DOMAIN going : Read(going[k])' = Read(going[k])
    BY <1>1, <1>4, <1>5 DEF Read, rest
  <2>2. QED
    BY <1>1, <2>1 DEF ReadAll
<1>8. ReadAll(refs)' = ReadAll(refs)
  BY <1>1, <1>2 DEF ReadAll
<1>9. QED
  BY <1>1, <1>6, <1>7, <1>8

LEMMA ArenaStarts ==
  ASSUME ArenaInit
  PROVE  ArenaInv /\ Values!Init
<1>1. /\ chunks = [memory |-> <<Buffer(FirstCapacity)>>, rest |-> <<>>, current |-> 1]
      /\ drained = <<>> /\ slot = 1 /\ each = Nothing /\ refs = <<>> /\ going = <<>>
  BY DEF ArenaInit, with_capacity
<1>2. Buffer(FirstCapacity) \in BufferSet /\ Buffer(FirstCapacity).items = <<>>
  BY CapacitiesAssumption DEF Buffer, BufferSet
<1>3. Sound(chunks) /\ Owns(chunks) = {1} /\ Len(chunks.memory[1].items) = 0
  <2>1. <<Buffer(FirstCapacity)>> \in Seq(BufferSet) /\ <<Buffer(FirstCapacity)>>[1] = Buffer(FirstCapacity)
    BY <1>2
  <2>2. QED
    BY <1>1, <1>2, <2>1 DEF Sound, Owns, Numbers, Rising
<1>4. AllOf(refs, chunks)
  BY <1>1, <1>3 DEF AllOf, Lists, InOrder
<1>5. Draining
  BY <1>1 DEF Draining, Rising
<1>6. QED
  BY <1>1, <1>3, <1>4, <1>5 DEF ArenaInv, Values!Init, ReadAll

--------------------------------------------------------------------------------
\* Whatever is read through the references an arena hands out is a list of values that only
\* grows, for every set of values, every capacity and every number of buffers: alloc never
\* moves or frees what was handed out, and a drain hands out each value once, in order
\* (arena.rs:83-124)
THEOREM ArenaImplementsList == ArenaSpec => ImplementsList
<1>1. ArenaInit => ArenaInv /\ Values!Init
  BY ArenaStarts
<1>2. ArenaInv /\ [ArenaNext]_arenaVars =>
        ArenaInv' /\ [Values!Add \/ Values!Drain \/ Values!Each]_<<ReadAll(refs), ReadAll(going), each>>
  <2> SUFFICES ASSUME ArenaInv, [ArenaNext]_arenaVars
               PROVE  ArenaInv' /\ [Values!Add \/ Values!Drain \/ Values!Each]_<<ReadAll(refs), ReadAll(going), each>>
    OBVIOUS
  <2>1. ASSUME NEW v \in Value, alloc(v) PROVE ArenaInv' /\ Values!Add
    BY <2>1, AllocStep
  <2>2. CASE drain
    BY <2>2, DrainStep
  <2>3. CASE HandOut /\ slot <= Len(chunks.memory[Head(drained)].items)
    BY <2>3, EachStep
  <2>4. CASE HandOut /\ ~(slot <= Len(chunks.memory[Head(drained)].items))
    BY <2>4, NextBufferStep
  <2>5. CASE UNCHANGED arenaVars
    <3>1. ArenaInv'
      BY <2>5 DEF arenaVars, ArenaInv, Draining
    <3>2. UNCHANGED <<ReadAll(refs), ReadAll(going), each>>
      BY <2>5 DEF arenaVars, ReadAll, Read
    <3>3. QED
      BY <3>1, <3>2
  <2>6. QED
    BY <2>1, <2>2, <2>3, <2>4, <2>5 DEF ArenaNext
<1>3. QED
  BY <1>1, <1>2, PTL DEF ArenaSpec, ImplementsList, Values!Spec

--------------------------------------------------------------------------------
\* No block holds a line it was not given, however many spares a thread keeps and however
\* long its documents are.
\*
\* The argument goes block by block: what a block holds depends only on what it held and
\* on the buffer that comes to it, and no buffer comes with text.  A buffer that waits, as
\* a spare or as the working content, was cleared when it was put there; one that has no
\* capacity cannot hold text; and an open block's offsets, and the text of one that has a
\* literal, are of all its lines, since nothing takes lines from it before it is finalized.

LineSet == SUBSET Nat
StringSet == [capacity : {"none", "some", "much"}, text : LineSet]
LinesSet == [content : StringSet, offsets : LineSet]
KindSet == WithLiteral \cup WithInlines \cup {"TableCell", "replaced"}
BlockSet == [kind : KindSet, lines : LinesSet, literal : StringSet, open : BOOLEAN]

\* A block that was given some lines holds no others
Good(b, given) ==
  /\ b \in BlockSet /\ given \in LineSet
  /\ b.lines.content.text \subseteq given
  /\ b.lines.content.capacity = "none" => b.lines.content.text = {}
  /\ b.lines # NoLines => b.lines.offsets = given
  /\ b.open => b.lines.offsets = given
  /\ b.open /\ b.kind \in WithLiteral => b.lines.content.text = given
  /\ ~b.open /\ b.kind \in WithLiteral => b.literal.text = given

GoodBlocks(bs, gs) ==
  /\ bs \in Seq(BlockSet) /\ gs \in Seq(LineSet) /\ Len(bs) = Len(gs)
  /\ \A k \in 1..Len(bs) : Good(bs[k], gs[k])

GoodStrings(ss, gs) ==
  /\ ss \in Seq(StringSet) /\ gs \in Seq(LineSet) /\ Len(ss) = Len(gs)
  /\ \A k \in 1..Len(ss) : ss[k].text \subseteq gs[k]

SpareStrings == {s \in Seq({Owned({})}) : Len(s) <= SpareMax}
SpareBlocks == {s \in Seq({Fresh}) : Len(s) <= SpareMax}

BuffersInv ==
  /\ spareStrings \in SpareStrings /\ spareBlocks \in SpareBlocks
  /\ working \in StringSet /\ working.text = {}
  /\ lines \in Nat
  /\ own = [blocks |-> own.blocks, strings |-> own.strings]
  /\ GoodBlocks(blocks, own.blocks)
  /\ GoodStrings(strings, own.strings)

--------------------------------------------------------------------------------
(* Lists of blocks and of strings.                                               *)

LEMMA AppendGoodBlock ==
  ASSUME NEW bs, NEW gs, GoodBlocks(bs, gs), NEW b, NEW g, Good(b, g)
  PROVE  GoodBlocks(Append(bs, b), Append(gs, g))
<1>1. b \in BlockSet /\ g \in LineSet
  BY DEF Good
<1> USE <1>1
<1> HIDE DEF BlockSet, LineSet
<1>2. /\ Append(bs, b) \in Seq(BlockSet) /\ Append(gs, g) \in Seq(LineSet)
      /\ Len(Append(bs, b)) = Len(bs) + 1 /\ Len(Append(gs, g)) = Len(bs) + 1
  BY DEF GoodBlocks
<1>3. ASSUME NEW k \in 1..Len(bs) + 1
      PROVE  Good(Append(bs, b)[k], Append(gs, g)[k])
  <2>1. CASE k = Len(bs) + 1
    BY <2>1 DEF GoodBlocks
  <2>2. CASE k \in 1..Len(bs)
    BY <2>2 DEF GoodBlocks
  <2>3. QED
    BY <2>1, <2>2 DEF GoodBlocks
<1>4. QED
  BY <1>2, <1>3 DEF GoodBlocks

\* One block changes, and what it was given with it
LEMMA ChangeGoodBlock ==
  ASSUME NEW bs, NEW gs, GoodBlocks(bs, gs), NEW k \in DOMAIN bs, NEW b, NEW g, Good(b, g)
  PROVE  GoodBlocks([bs EXCEPT ![k] = b], [gs EXCEPT ![k] = g])
<1>1. b \in BlockSet /\ g \in LineSet /\ k \in 1..Len(bs) /\ k \in 1..Len(gs)
  BY DEF Good, GoodBlocks
<1>2. /\ [bs EXCEPT ![k] = b] \in Seq(BlockSet) /\ [gs EXCEPT ![k] = g] \in Seq(LineSet)
      /\ Len([bs EXCEPT ![k] = b]) = Len(bs) /\ Len([gs EXCEPT ![k] = g]) = Len(gs)
  BY <1>1, ExceptSeq DEF GoodBlocks
<1>3. \A j \in 1..Len(bs) : Good([bs EXCEPT ![k] = b][j], [gs EXCEPT ![k] = g][j])
  BY <1>1 DEF GoodBlocks
<1>4. QED
  BY <1>2, <1>3 DEF GoodBlocks

\* A change of one block that was given nothing more
LEMMA SameGoodBlock ==
  ASSUME NEW bs, NEW gs, GoodBlocks(bs, gs), NEW k \in DOMAIN bs, NEW b, Good(b, gs[k])
  PROVE  GoodBlocks([bs EXCEPT ![k] = b], gs)
<1>1. [gs EXCEPT ![k] = gs[k]] = gs
  BY DEF GoodBlocks
<1>2. QED
  BY <1>1, ChangeGoodBlock

LEMMA TailGoodBlocks ==
  ASSUME NEW bs, NEW gs, GoodBlocks(bs, gs), bs # <<>>
  PROVE  GoodBlocks(Tail(bs), Tail(gs))
<1> USE DEF GoodBlocks
<1> HIDE DEF BlockSet, LineSet
<1>1. /\ Tail(bs) \in Seq(BlockSet) /\ Tail(gs) \in Seq(LineSet)
      /\ Len(Tail(bs)) = Len(bs) - 1 /\ Len(Tail(gs)) = Len(bs) - 1
  BY HeadTailProperties, EmptySeq
<1>2. \A k \in 1..Len(bs) - 1 : Tail(bs)[k] = bs[k + 1] /\ Tail(gs)[k] = gs[k + 1]
  BY HeadTailProperties, EmptySeq
<1>3. QED
  BY <1>1, <1>2

LEMMA AppendGoodString ==
  ASSUME NEW ss, NEW gs, GoodStrings(ss, gs), NEW s \in StringSet, NEW g \in LineSet, s.text \subseteq g
  PROVE  GoodStrings(Append(ss, s), Append(gs, g))
<1> USE DEF GoodStrings
<1>1. /\ Append(ss, s) \in Seq(StringSet) /\ Append(gs, g) \in Seq(LineSet)
      /\ Len(Append(ss, s)) = Len(ss) + 1 /\ Len(Append(gs, g)) = Len(ss) + 1
  BY AppendProperties
<1>2. ASSUME NEW k \in 1..Len(ss) + 1
      PROVE  Append(ss, s)[k].text \subseteq Append(gs, g)[k]
  <2>1. CASE k = Len(ss) + 1
    BY <2>1, AppendProperties
  <2>2. CASE k \in 1..Len(ss)
    BY <2>2, AppendProperties
  <2>3. QED
    BY <2>1, <2>2
<1>3. QED
  BY <1>1, <1>2

LEMMA TailGoodStrings ==
  ASSUME NEW ss, NEW gs, GoodStrings(ss, gs), ss # <<>>
  PROVE  GoodStrings(Tail(ss), Tail(gs)) /\ Head(ss) \in StringSet
<1> USE DEF GoodStrings
<1>1. /\ Tail(ss) \in Seq(StringSet) /\ Tail(gs) \in Seq(LineSet)
      /\ Len(Tail(ss)) = Len(ss) - 1 /\ Len(Tail(gs)) = Len(ss) - 1
  BY HeadTailProperties, EmptySeq
<1>2. \A k \in 1..Len(ss) - 1 : Tail(ss)[k] = ss[k + 1] /\ Tail(gs)[k] = gs[k + 1]
  BY HeadTailProperties, EmptySeq
<1>3. QED
  BY <1>1, <1>2, HeadTailProperties

--------------------------------------------------------------------------------
(* The spares: each is empty, and they are not too many.                         *)

LEMMA GiveString ==
  ASSUME NEW pool \in SpareStrings, NEW s \in StringSet
  PROVE  give_string(pool, s) \in SpareStrings
<1>1. CASE s.capacity # "some" \/ Len(pool) >= SpareMax
  BY <1>1 DEF give_string
<1>2. CASE s.capacity = "some" /\ Len(pool) < SpareMax
  <2>1. Cleared(s) = Owned({})
    <3>1. s = [capacity |-> s.capacity, text |-> s.text]
      BY DEF StringSet
    <3>2. Cleared(s) = [capacity |-> s.capacity, text |-> {}]
      BY <3>1 DEF Cleared
    <3>3. QED
      BY <1>2, <3>2 DEF Owned
  <2>2. /\ Append(pool, Owned({})) \in Seq({Owned({})})
        /\ Len(Append(pool, Owned({}))) = Len(pool) + 1
    BY AppendProperties DEF SpareStrings
  <2>3. Append(pool, Owned({})) \in SpareStrings
    BY <1>2, <2>2, SpareBuffersAssumption DEF SpareStrings
  <2>4. QED
    BY <1>2, <2>1, <2>3 DEF give_string
<1>3. QED
  BY <1>1, <1>2, SpareBuffersAssumption DEF SpareStrings

LEMMA GiveBlock ==
  ASSUME NEW pools, pools.strings \in SpareStrings, pools.blocks \in SpareBlocks,
         NEW b, b.content \in StringSet
  PROVE  /\ give_block(pools, b).strings \in SpareStrings
         /\ give_block(pools, b).blocks \in SpareBlocks
<1>1. give_block(pools, b).strings \in SpareStrings
  BY GiveString DEF give_block
<1>2. Append(pools.blocks, Fresh) \in Seq({Fresh}) /\ Len(Append(pools.blocks, Fresh)) = Len(pools.blocks) + 1
  BY AppendProperties DEF SpareBlocks
<1>3. give_block(pools, b).blocks \in SpareBlocks
  BY <1>2, SpareBuffersAssumption DEF give_block, SpareBlocks
<1>4. QED
  BY <1>1, <1>3

LEMMA FrontOfSpares ==
  ASSUME NEW e, NEW s \in Seq({e}), s # <<>>
  PROVE  Front(s) \in Seq({e}) /\ Len(Front(s)) = Len(s) - 1 /\ Last(s) = e
<1>1. Len(s) \in Nat \ {0}
  BY EmptySeq
<1>2. \A i \in 1..Len(s) : s[i] = e
  OBVIOUS
<1> DEFINE S == {e}
<1>3. /\ SubSeq(s, 1, Len(s) - 1) \in Seq(S)
      /\ Len(SubSeq(s, 1, Len(s) - 1)) = Len(s) - 1
  <2> DEFINE m == 1
             n == Len(s) - 1
  <2>1. m \in Int /\ n \in Int /\ \A i \in m..n : s[i] \in S
    BY <1>1, <1>2
  <2> HIDE DEF S, m, n
  <2>2. SubSeq(s, m, n) \in Seq(S) /\ Len(SubSeq(s, m, n)) = IF m <= n THEN n - m + 1 ELSE 0
    BY <2>1, SubSeqProperties
  <2>3. (IF m <= n THEN n - m + 1 ELSE 0) = Len(s) - 1
    <3>1. \A l \in Nat \ {0} : (IF 1 <= l - 1 THEN l - 1 - 1 + 1 ELSE 0) = l - 1
      OBVIOUS
    <3>2. QED
      BY <1>1, <3>1, Zenon DEF m, n
  <2>4. SubSeq(s, m, n) = SubSeq(s, 1, Len(s) - 1)
    BY DEF m, n
  <2>5. QED
    BY <2>2, <2>3, <2>4
<1>4. QED
  BY <1>1, <1>2, <1>3 DEF Front, Last

\* What a new block comes with, and the spares left, on either path
LEMMA NewLinesAreEmpty ==
  ASSUME spareStrings \in SpareStrings, spareBlocks \in SpareBlocks
  PROVE  /\ NewLines.lines \in {[content |-> c, offsets |-> {}] : c \in {Unallocated, Owned({})}}
         /\ NewLines.pools.strings \in SpareStrings
         /\ NewLines.pools.blocks \in SpareBlocks
<1> DEFINE block == IF spareBlocks = <<>> THEN Fresh ELSE Last(spareBlocks)
<1>1. block = Fresh
  BY FrontOfSpares DEF SpareBlocks
<1>2. ASSUME spareStrings # <<>>
      PROVE  Last(spareStrings) = Owned({}) /\ Front(spareStrings) \in SpareStrings
  <2>1. spareStrings \in Seq({Owned({})}) /\ Len(spareStrings) <= SpareMax
    BY DEF SpareStrings
  <2>2. /\ Front(spareStrings) \in Seq({Owned({})}) /\ Last(spareStrings) = Owned({})
        /\ Len(Front(spareStrings)) = Len(spareStrings) - 1
    BY <1>2, <2>1, FrontOfSpares
  <2>3. Len(spareStrings) \in Nat /\ SpareMax \in Nat
    BY <2>1, SpareBuffersAssumption
  <2>4. QED
    BY <2>1, <2>2, <2>3 DEF SpareStrings
<1>3. (IF spareBlocks = <<>> THEN <<>> ELSE Front(spareBlocks)) \in SpareBlocks
  <2>1. CASE spareBlocks = <<>>
    BY <2>1
  <2>2. CASE spareBlocks # <<>>
    <3>1. spareBlocks \in Seq({Fresh}) /\ Len(spareBlocks) <= SpareMax
      BY DEF SpareBlocks
    <3>2. Front(spareBlocks) \in Seq({Fresh}) /\ Len(Front(spareBlocks)) = Len(spareBlocks) - 1
      BY <2>2, <3>1, FrontOfSpares
    <3>3. Len(spareBlocks) \in Nat /\ SpareMax \in Nat
      BY <3>1, SpareBuffersAssumption
    <3>4. QED
      BY <2>2, <3>1, <3>2, <3>3 DEF SpareBlocks
  <2>3. QED
    BY <2>1, <2>2
<1>4. /\ take_block.lines \in {[content |-> c, offsets |-> {}] : c \in {Unallocated, Owned({})}}
      /\ take_block.pools.strings \in SpareStrings
      /\ take_block.pools.blocks \in SpareBlocks
  <2> DEFINE more == block.content.capacity = "none" /\ spareStrings # <<>>
  <2>1. take_block.lines = IF more THEN [block EXCEPT !.content = Last(spareStrings)] ELSE block
    BY DEF take_block
  <2>2. /\ take_block.pools.strings = IF more THEN Front(spareStrings) ELSE spareStrings
        /\ take_block.pools.blocks = IF spareBlocks = <<>> THEN <<>> ELSE Front(spareBlocks)
    BY DEF take_block
  <2>3. take_block.lines \in {[content |-> c, offsets |-> {}] : c \in {Unallocated, Owned({})}}
    <3>1. Fresh.content = Unallocated /\ Fresh.offsets = {}
      BY DEF Fresh
    <3>2. [Fresh EXCEPT !.content = Owned({})] = [content |-> Owned({}), offsets |-> {}]
      BY DEF Fresh
    <3>3. CASE more
      BY <1>1, <1>2, <2>1, <3>2, <3>3
    <3>4. CASE ~more
      BY <1>1, <2>1, <3>4 DEF Fresh
    <3>5. QED
      BY <3>3, <3>4
  <2>4. QED
    BY <1>2, <1>3, <2>2, <2>3
<1>5. QED
  BY <1>4 DEF NewLines, Pools, Fresh

--------------------------------------------------------------------------------
(* Each step keeps the invariant.                                                *)

LEMMA ClearedText ==
  ASSUME NEW s \in StringSet
  PROVE  Cleared(s) \in StringSet /\ Cleared(s).text = {}
BY DEF Cleared, StringSet, LineSet

LEMMA OwnedText ==
  ASSUME NEW t \in LineSet
  PROVE  Owned(t) \in StringSet /\ Owned(t).text = t /\ Owned(t).capacity = "some"
BY DEF Owned, StringSet, LineSet

LEMMA NothingAllocated ==
  Unallocated \in StringSet /\ Unallocated.text = {} /\ Unallocated.capacity = "none"
BY DEF Unallocated, StringSet, LineSet

LEMMA NoLinesAreLines == NoLines \in LinesSet /\ NoLines.content.text = {}
BY NothingAllocated DEF NoLines, LinesSet, LineSet

LEMMA TakeContent ==
  ASSUME NEW b \in StringSet, working \in StringSet, working.text = {}
  PROVE  /\ take_content(b).taken \in StringSet /\ take_content(b).taken.text = b.text
         /\ take_content(b).taken.capacity = "none" => b.capacity = "none"
         /\ take_content(b).working \in StringSet /\ take_content(b).working.text = {}
<1>1. b.text \in LineSet
  BY DEF StringSet
<1>2. QED
  BY <1>1, ClearedText, OwnedText DEF take_content

\* The blocks a document begins with, and those after it
LEMMA NoneAreGood ==
  GoodBlocks(<<>>, <<>>) /\ GoodStrings(<<>>, <<>>)
BY DEF GoodBlocks, GoodStrings

LEMMA InitHolds ==
  ASSUME BuffersInit
  PROVE  BuffersInv
<1>1. <<>> \in SpareStrings /\ <<>> \in SpareBlocks
  BY SpareBuffersAssumption DEF SpareStrings, SpareBlocks
<1>2. QED
  BY <1>1, NoneAreGood, NothingAllocated DEF BuffersInit, BuffersInv, NoLinesOwned

LEMMA ParseDocumentKeeps ==
  ASSUME BuffersInv, NEW zero \in BOOLEAN, parse_document(zero)
  PROVE  BuffersInv'
BY NoneAreGood, NothingAllocated DEF parse_document, BuffersInv, NoLinesOwned

LEMMA NewBlock ==
  ASSUME NEW kind \in WithLiteral \cup WithInlines, NEW c \in {Unallocated, Owned({})}
  PROVE  Good(Block(kind, [content |-> c, offsets |-> {}]), {})
<1>1. c \in StringSet /\ c.text = {} /\ {} \in LineSet
  BY NothingAllocated, OwnedText DEF LineSet
<1>2. [content |-> c, offsets |-> {}] \in LinesSet
  BY <1>1 DEF LinesSet
<1>3. Block(kind, [content |-> c, offsets |-> {}]) \in BlockSet
  BY <1>2, NothingAllocated DEF Block, BlockSet, KindSet
<1>4. QED
  BY <1>1, <1>3 DEF Good, Block

LEMMA AddChildKeeps ==
  ASSUME BuffersInv, NEW kind \in WithLiteral \cup WithInlines, add_child(kind)
  PROVE  BuffersInv'
<1>1. PICK c \in {Unallocated, Owned({})} : NewLines.lines = [content |-> c, offsets |-> {}]
  BY NewLinesAreEmpty DEF BuffersInv
<1>2. spareStrings' \in SpareStrings /\ spareBlocks' \in SpareBlocks
  BY NewLinesAreEmpty DEF BuffersInv, add_child, Keep
<1>3. own' = [blocks |-> Append(own.blocks, {}), strings |-> own.strings]
  BY DEF BuffersInv, add_child
<1> DEFINE b == Block(kind, [content |-> c, offsets |-> {}])
<1>4. Good(b, {}) /\ blocks' = Append(blocks, b)
  BY <1>1, NewBlock DEF add_child
<1> HIDE DEF b
<1>5. GoodBlocks(Append(blocks, b), Append(own.blocks, {}))
  BY <1>4, AppendGoodBlock DEF BuffersInv
<1>6. QED
  BY <1>2, <1>3, <1>4, <1>5 DEF BuffersInv, add_child

\* A block that changes in the step, and is given what it was given or more
LEMMA StepKeepsBlocks ==
  ASSUME BuffersInv, NEW k \in DOMAIN blocks, NEW b, NEW g, Good(b, g),
         blocks' = [blocks EXCEPT ![k] = b],
         own' = [blocks |-> [own.blocks EXCEPT ![k] = g], strings |-> own.strings]
  PROVE  GoodBlocks(blocks', own'.blocks)
BY ChangeGoodBlock DEF BuffersInv

LEMMA BlockIsGood ==
  ASSUME BuffersInv, NEW k \in DOMAIN blocks
  PROVE  Good(blocks[k], own.blocks[k])
BY DEF BuffersInv, GoodBlocks

LEMMA AddLineKeeps ==
  ASSUME BuffersInv, add_line
  PROVE  BuffersInv'
<1> DEFINE k == Len(blocks)
           n == lines + 1
           old == blocks[k].lines.content
           from == IF old.capacity = "none" THEN working ELSE old
<1>1. k \in DOMAIN blocks /\ blocks[k].open /\ Last(blocks) = blocks[k]
  BY DEF add_line, OpenAt, Last
<1>2. /\ Good(blocks[k], own.blocks[k]) /\ n \in Nat
      /\ blocks[k] \in BlockSet /\ blocks[k].lines \in LinesSet /\ old \in StringSet
  BY <1>1, BlockIsGood DEF Good, BlockSet, LinesSet, BuffersInv
<1>3. PICK content \in Pushed(from, n) :
        /\ working' = IF old.capacity = "none" THEN old ELSE working
        /\ blocks' = [blocks EXCEPT ![k].lines.content = content, ![k].lines.offsets = @ \cup {n}]
        /\ own' = [own EXCEPT !.blocks[k] = @ \cup {n}]
        /\ lines' = n
  BY <1>1 DEF add_line
<1> DEFINE b == [blocks[k] EXCEPT !.lines.content = content, !.lines.offsets = @ \cup {n}]
           g == own.blocks[k] \cup {n}
<1>4. from \in StringSet /\ from.text = old.text
  BY <1>2 DEF BuffersInv, Good
<1>5. content \in StringSet /\ content.text = old.text \cup {n} /\ content.capacity # "none"
  BY <1>2, <1>4 DEF Pushed, StringSet, LineSet
<1>6. working' \in StringSet /\ working'.text = {}
  BY <1>2, <1>3 DEF BuffersInv, Good
<1>7. blocks' = [blocks EXCEPT ![k] = b]
  BY <1>3
<1>8. own' = [blocks |-> [own.blocks EXCEPT ![k] = g], strings |-> own.strings]
  BY <1>1, <1>3 DEF BuffersInv, GoodBlocks
<1>9. Good(b, g)
  <2>1. g \in LineSet
    BY <1>2 DEF Good, LineSet
  <2>2. b \in BlockSet
    BY <1>2, <1>5 DEF BlockSet, LinesSet, LineSet
  <2>3. /\ b.lines.content = content /\ b.lines.offsets = blocks[k].lines.offsets \cup {n}
        /\ b.kind = blocks[k].kind /\ b.open = blocks[k].open
    BY <1>2 DEF BlockSet, LinesSet
  <2>4. b.lines.offsets = g
    BY <1>1, <1>2, <2>3 DEF Good
  <2>5. b.lines.content.text \subseteq g /\ (b.kind \in WithLiteral => b.lines.content.text = g)
    BY <1>1, <1>2, <1>5, <2>3 DEF Good
  <2> HIDE DEF b, g
  <2>6. QED
    BY <1>1, <1>5, <2>1, <2>2, <2>3, <2>4, <2>5 DEF Good
<1>10. GoodBlocks(blocks', own'.blocks)
  <2> HIDE DEF b, g
  <2>1. QED
    BY <1>1, <1>7, <1>8, <1>9, StepKeepsBlocks
<1>11. QED
  BY <1>2, <1>3, <1>6, <1>8, <1>10 DEF BuffersInv, add_line

\* A block that changes in the step and is given nothing
LEMMA StepKeepsGiven ==
  ASSUME BuffersInv, NEW k \in DOMAIN blocks, NEW b, Good(b, own.blocks[k]),
         blocks' = [blocks EXCEPT ![k] = b], own' = own
  PROVE  GoodBlocks(blocks', own'.blocks)
BY SameGoodBlock DEF BuffersInv

LEMMA ResolvedText ==
  ASSUME NEW s \in StringSet, NEW r \in Resolved(s)
  PROVE  r \in StringSet /\ r.text \subseteq s.text /\ r.capacity = s.capacity
BY DEF Resolved, StringSet, LineSet

\* An open block, as the steps of its end find it
LEMMA OpenBlock ==
  ASSUME BuffersInv, NEW k, OpenAt(k)
  PROVE  /\ k \in DOMAIN blocks /\ blocks[k] \in BlockSet /\ own.blocks[k] \in LineSet
         /\ blocks[k].lines.content \in StringSet
         /\ blocks[k].lines.content.text \subseteq own.blocks[k]
         /\ blocks[k].lines.content.capacity = "none" => blocks[k].lines.content.text = {}
         /\ blocks[k].lines.offsets = own.blocks[k]
         /\ blocks[k].kind \in WithLiteral => blocks[k].lines.content.text = own.blocks[k]
<1>1. k \in DOMAIN blocks /\ blocks[k].open
  BY DEF OpenAt
<1>2. Good(blocks[k], own.blocks[k])
  BY <1>1, BlockIsGood
<1>3. QED
  BY <1>1, <1>2 DEF Good, BlockSet, LinesSet

\* A paragraph or a heading is closed with some of its text
LEMMA ClosedWithInlines ==
  ASSUME BuffersInv, NEW k, OpenAt(k), blocks[k].kind \notin WithLiteral, NEW t \in StringSet,
         t.text \subseteq blocks[k].lines.content.text, t.capacity = "none" => t.text = {}
  PROVE  Good([blocks[k] EXCEPT !.lines.content = t, !.open = FALSE], own.blocks[k])
<1> DEFINE b == [blocks[k] EXCEPT !.lines.content = t, !.open = FALSE]
<1>1. blocks[k] \in BlockSet
  BY OpenBlock
<1>2. /\ b \in BlockSet /\ b.open = FALSE /\ b.kind = blocks[k].kind
      /\ b.lines.content = t /\ b.lines.offsets = blocks[k].lines.offsets
  BY <1>1 DEF BlockSet, LinesSet
<1> HIDE DEF b
<1>3. Good(b, own.blocks[k])
  BY <1>2, OpenBlock DEF Good
<1>4. QED
  BY <1>3 DEF b

LEMMA ParagraphEnds ==
  ASSUME BuffersInv, NEW k, OpenAt(k), blocks[k].kind = "Paragraph", finalize_paragraph(k), own' = own
  PROVE  GoodBlocks(blocks', own'.blocks) /\ working' \in StringSet /\ working'.text = {}
<1> DEFINE c == blocks[k].lines.content
<1>1. PICK content \in Resolved(c) :
        IF content.text # {}
        THEN /\ blocks' = [blocks EXCEPT ![k].lines.content = take_content(content).taken, ![k].open = FALSE]
             /\ working' = take_content(content).working
        ELSE /\ blocks' = [blocks EXCEPT ![k].lines = NoLines, ![k].open = FALSE]
             /\ working' = Cleared(content)
  BY DEF finalize_paragraph
<1>2. content \in StringSet /\ content.text \subseteq c.text /\ content.capacity = c.capacity
  BY <1>1, OpenBlock, ResolvedText
<1>3. "Paragraph" \notin WithLiteral
  BY DEF WithLiteral
<1>4. CASE content.text # {}
  <2> DEFINE t == take_content(content).taken
             b == [blocks[k] EXCEPT !.lines.content = t, !.open = FALSE]
  <2>1. /\ t \in StringSet /\ t.text = content.text /\ (t.capacity = "none" => content.capacity = "none")
        /\ working' \in StringSet /\ working'.text = {}
    BY <1>1, <1>2, <1>4, TakeContent DEF BuffersInv
  <2>2. blocks' = [blocks EXCEPT ![k] = b]
    BY <1>1, <1>4
  <2> HIDE DEF t
  <2>3. t.text \subseteq c.text /\ (t.capacity = "none" => t.text = {})
    BY <1>2, <2>1, OpenBlock
  <2>4. Good(b, own.blocks[k])
    BY <1>3, <2>1, <2>3, ClosedWithInlines, Zenon
  <2> HIDE DEF b
  <2>5. QED
    BY <2>1, <2>2, <2>4, OpenBlock, StepKeepsGiven
<1>5. CASE content.text = {}
  <2> DEFINE b == [blocks[k] EXCEPT !.lines = NoLines, !.open = FALSE]
  <2>1. working' \in StringSet /\ working'.text = {}
    BY <1>1, <1>2, <1>5, ClearedText
  <2>2. blocks' = [blocks EXCEPT ![k] = b]
    BY <1>1, <1>5
  <2>3. b \in BlockSet /\ b.open = FALSE /\ b.kind = "Paragraph" /\ b.lines = NoLines
    BY OpenBlock, NoLinesAreLines DEF BlockSet
  <2> HIDE DEF b
  <2>4. Good(b, own.blocks[k])
    BY <1>3, <2>3, OpenBlock, NoLinesAreLines DEF Good
  <2>5. QED
    BY <2>1, <2>2, <2>4, OpenBlock, StepKeepsGiven
<1>6. QED
  BY <1>4, <1>5

LEMMA HeadingEnds ==
  ASSUME BuffersInv, NEW k, OpenAt(k), blocks[k].kind = "Heading", finalize_heading(k), own' = own
  PROVE  GoodBlocks(blocks', own'.blocks) /\ working' \in StringSet /\ working'.text = {}
<1> DEFINE c == blocks[k].lines.content
           t == take_content(c).taken
           b == [blocks[k] EXCEPT !.lines.content = t, !.open = FALSE]
<1>1. /\ t \in StringSet /\ t.text = c.text /\ (t.capacity = "none" => c.capacity = "none")
      /\ working' \in StringSet /\ working'.text = {}
  BY OpenBlock, TakeContent DEF BuffersInv, finalize_heading
<1>2. blocks' = [blocks EXCEPT ![k] = b]
  BY DEF finalize_heading
<1> HIDE DEF t
<1>3. "Heading" \notin WithLiteral
  BY DEF WithLiteral
<1>4. t.text \subseteq c.text /\ (t.capacity = "none" => t.text = {})
  BY <1>1, OpenBlock
<1>5. Good(b, own.blocks[k])
  BY <1>1, <1>3, <1>4, ClosedWithInlines, Zenon
<1> HIDE DEF b
<1>6. QED
  BY <1>1, <1>2, <1>5, OpenBlock, StepKeepsGiven

LEMMA LiteralEnds ==
  ASSUME BuffersInv, NEW k, OpenAt(k), blocks[k].kind \in WithLiteral, finalize_literal(k), own' = own
  PROVE  /\ GoodBlocks(blocks', own'.blocks) /\ working' \in StringSet /\ working'.text = {}
         /\ spareStrings' \in SpareStrings /\ spareBlocks' \in SpareBlocks
<1> DEFINE c == blocks[k].lines.content
           t == take_content(c).taken
           b == [blocks[k] EXCEPT !.literal = t, !.lines = NoLines, !.open = FALSE]
           given == [blocks[k].lines EXCEPT !.content = Unallocated]
<1>1. t \in StringSet /\ t.text = c.text /\ working' \in StringSet /\ working'.text = {}
  BY OpenBlock, TakeContent DEF BuffersInv, finalize_literal
<1>2. blocks' = [blocks EXCEPT ![k] = b]
  BY DEF finalize_literal
<1> HIDE DEF t
<1>3. /\ b \in BlockSet /\ b.open = FALSE /\ b.kind = blocks[k].kind
      /\ b.lines = NoLines /\ b.literal = t
  BY <1>1, OpenBlock, NoLinesAreLines DEF BlockSet
<1> HIDE DEF b
<1>4. Good(b, own.blocks[k])
  BY <1>1, <1>3, OpenBlock, NoLinesAreLines DEF Good
<1>5. given.content \in StringSet
  BY OpenBlock, NothingAllocated DEF BlockSet, LinesSet
<1> HIDE DEF given
<1>6. /\ give_block(Pools, given).strings \in SpareStrings
      /\ give_block(Pools, given).blocks \in SpareBlocks
  BY <1>5, GiveBlock DEF Pools, BuffersInv
<1>7. spareStrings' \in SpareStrings /\ spareBlocks' \in SpareBlocks
  BY <1>6 DEF finalize_literal, Keep, BuffersInv, given
<1>8. QED
  BY <1>1, <1>2, <1>4, <1>7, OpenBlock, StepKeepsGiven

LEMMA FinalizeKeeps ==
  ASSUME BuffersInv, finalize
  PROVE  BuffersInv'
<1>1. PICK k \in DOMAIN blocks :
        /\ OpenAt(k)
        /\ \/ blocks[k].kind = "Paragraph" /\ finalize_paragraph(k)
           \/ blocks[k].kind = "Heading" /\ finalize_heading(k)
           \/ blocks[k].kind \in WithLiteral /\ finalize_literal(k)
  BY DEF finalize
<1>2. own' = own /\ strings' = strings /\ lines' = lines
  BY DEF finalize
<1>3. CASE blocks[k].kind = "Paragraph" /\ finalize_paragraph(k)
  <2>1. GoodBlocks(blocks', own'.blocks) /\ working' \in StringSet /\ working'.text = {}
    BY <1>1, <1>2, <1>3, ParagraphEnds
  <2>2. UNCHANGED <<spareBlocks, spareStrings>>
    BY <1>3 DEF finalize_paragraph
  <2>3. QED
    BY <1>2, <2>1, <2>2 DEF BuffersInv
<1>4. CASE blocks[k].kind = "Heading" /\ finalize_heading(k)
  <2>1. GoodBlocks(blocks', own'.blocks) /\ working' \in StringSet /\ working'.text = {}
    BY <1>1, <1>2, <1>4, HeadingEnds
  <2>2. UNCHANGED <<spareBlocks, spareStrings>>
    BY <1>4 DEF finalize_heading
  <2>3. QED
    BY <1>2, <2>1, <2>2 DEF BuffersInv
<1>5. CASE blocks[k].kind \in WithLiteral /\ finalize_literal(k)
  <2>1. /\ GoodBlocks(blocks', own'.blocks) /\ working' \in StringSet /\ working'.text = {}
        /\ spareStrings' \in SpareStrings /\ spareBlocks' \in SpareBlocks
    BY <1>1, <1>2, <1>5, LiteralEnds
  <2>2. QED
    BY <1>2, <2>1 DEF BuffersInv
<1>6. QED
  BY <1>1, <1>3, <1>4, <1>5

LEMMA SetextKeeps ==
  ASSUME BuffersInv, handle_setext_heading
  PROVE  BuffersInv'
<1>1. PICK k \in DOMAIN blocks :
        /\ OpenAt(k) /\ blocks[k].kind = "Paragraph"
        /\ \E r \in Resolved(blocks[k].lines.content) :
             blocks' = [blocks EXCEPT ![k].lines.content = r,
                                      ![k].kind = IF r.text = {} THEN @ ELSE "Heading"]
  BY DEF handle_setext_heading
<1>2. PICK r \in Resolved(blocks[k].lines.content) :
        blocks' = [blocks EXCEPT ![k].lines.content = r,
                                 ![k].kind = IF r.text = {} THEN @ ELSE "Heading"]
  BY <1>1
<1> DEFINE kind == IF r.text = {} THEN blocks[k].kind ELSE "Heading"
           b == [blocks[k] EXCEPT !.lines.content = r, !.kind = kind]
<1>3. /\ r \in StringSet /\ r.text \subseteq blocks[k].lines.content.text
      /\ r.capacity = blocks[k].lines.content.capacity
  BY <1>1, OpenBlock, ResolvedText
<1>4. kind \in KindSet /\ kind \notin WithLiteral
  BY <1>1 DEF KindSet, WithLiteral, WithInlines
<1>5. blocks' = [blocks EXCEPT ![k] = b]
  BY <1>2
<1> HIDE DEF kind
<1>6. blocks[k] \in BlockSet
  BY <1>1, OpenBlock
<1>7. /\ b \in BlockSet /\ b.open = blocks[k].open /\ b.kind = kind
      /\ b.lines.content = r /\ b.lines.offsets = blocks[k].lines.offsets
  BY <1>3, <1>4, <1>6 DEF BlockSet, LinesSet
<1> HIDE DEF b
<1>8. Good(b, own.blocks[k])
  BY <1>1, <1>3, <1>4, <1>7, OpenBlock DEF Good
<1>9. GoodBlocks(blocks', own'.blocks)
  BY <1>1, <1>5, <1>8, StepKeepsGiven DEF handle_setext_heading
<1>10. QED
  BY <1>9 DEF BuffersInv, handle_setext_heading

\* A cell of some text, and a paragraph of it
LEMMA TextBlocks ==
  ASSUME NEW t \in LineSet, NEW ls, ls.offsets = {}
  PROVE  /\ Good(Cell(ls, t), t)
         /\ Good(ClosedBlock("Paragraph", [content |-> Owned(t), offsets |-> t]), t)
<1> DEFINE content == [content |-> Owned(t), offsets |-> t]
<1>1. content \in LinesSet /\ content.content.text = t /\ content.content.capacity = "some"
  BY OwnedText DEF LinesSet
<1>2. Cell(ls, t) = ClosedBlock("TableCell", content)
  BY DEF Cell
<1> HIDE DEF content
<1>3. ASSUME NEW kind \in {"TableCell", "Paragraph"}, content.offsets = t
      PROVE  Good(ClosedBlock(kind, content), t)
  <2> DEFINE b == ClosedBlock(kind, content)
  <2>1. b = [kind |-> kind, lines |-> content, literal |-> Unallocated, open |-> FALSE]
    BY DEF ClosedBlock
  <2>2. kind \in KindSet /\ kind \notin WithLiteral
    BY DEF KindSet, WithLiteral, WithInlines
  <2>3. b \in BlockSet
    BY <1>1, <2>1, <2>2, NothingAllocated DEF BlockSet
  <2> HIDE DEF b
  <2>4. Good(b, t)
    BY <1>1, <1>3, <2>1, <2>2, <2>3 DEF Good
  <2>5. QED
    BY <2>4 DEF b
<1>4. content.offsets = t
  BY DEF content
<1>5. QED
  BY <1>2, <1>3, <1>4 DEF content

LEMMA RowKeeps ==
  ASSUME BuffersInv, try_opening_row
  PROVE  BuffersInv'
<1>1. PICK t \in {{lines + 1}, {}} :
        /\ blocks' = Append(blocks, IF t = {} THEN ClosedBlock("TableCell", NewLines.lines)
                                    ELSE Cell(NewLines.lines, t))
        /\ own' = [own EXCEPT !.blocks = Append(@, t)]
  BY DEF try_opening_row
<1>2. PICK c \in {Unallocated, Owned({})} : NewLines.lines = [content |-> c, offsets |-> {}]
  BY NewLinesAreEmpty DEF BuffersInv
<1>3. spareStrings' \in SpareStrings /\ spareBlocks' \in SpareBlocks
  BY NewLinesAreEmpty DEF BuffersInv, try_opening_row, Keep
<1>4. own' = [blocks |-> Append(own.blocks, t), strings |-> own.strings]
  BY <1>1 DEF BuffersInv
<1>5. t \in LineSet /\ NewLines.lines.offsets = {}
  BY <1>1, <1>2 DEF BuffersInv, LineSet
<1> DEFINE b == IF t = {} THEN ClosedBlock("TableCell", NewLines.lines) ELSE Cell(NewLines.lines, t)
<1>6. Good(b, t)
  <2>1. CASE t = {}
    <3>1. c \in StringSet /\ c.text = {}
      BY NothingAllocated, OwnedText DEF LineSet
    <3>2. [content |-> c, offsets |-> {}] \in LinesSet
      BY <3>1 DEF LinesSet, LineSet
    <3>3. b = [kind |-> "TableCell", lines |-> [content |-> c, offsets |-> {}],
               literal |-> Unallocated, open |-> FALSE]
      BY <1>2, <2>1 DEF ClosedBlock
    <3>4. "TableCell" \in KindSet /\ "TableCell" \notin WithLiteral
      BY DEF KindSet, WithLiteral
    <3> HIDE DEF b
    <3>5. b \in BlockSet
      BY <3>2, <3>3, <3>4, NothingAllocated DEF BlockSet
    <3>6. QED
      BY <1>5, <2>1, <3>1, <3>3, <3>4, <3>5 DEF Good
  <2>2. CASE t # {}
    BY <1>5, <2>2, TextBlocks
  <2>3. QED
    BY <2>1, <2>2
<1>7. blocks' = Append(blocks, b)
  BY <1>1
<1> HIDE DEF b
<1>8. GoodBlocks(Append(blocks, b), Append(own.blocks, t))
  BY <1>6, AppendGoodBlock DEF BuffersInv
<1>9. GoodBlocks(blocks', own'.blocks) /\ own'.strings = own.strings /\ own' = [blocks |-> own'.blocks, strings |-> own'.strings]
  BY <1>4, <1>7, <1>8
<1>10. lines' \in Nat /\ UNCHANGED <<working, strings>>
  BY DEF BuffersInv, try_opening_row
<1>11. QED
  BY <1>3, <1>9, <1>10 DEF BuffersInv

LEMMA HeaderKeeps ==
  ASSUME BuffersInv, try_opening_header
  PROVE  BuffersInv'
<1> DEFINE Preface(others) ==
             ClosedBlock("Paragraph", [content |-> Owned(others), offsets |-> others])
           Replaced(k) == [blocks EXCEPT ![k].lines.content = Unallocated,
                                         ![k].kind = "replaced", ![k].open = FALSE]
           new == NewLines.lines
           Added(k, text, last) ==
             LET others == text \ {last}
             IN  IF others = {}
                 THEN /\ blocks' = Append(Replaced(k), Cell(new, {last}))
                      /\ own' = [own EXCEPT !.blocks = Append(@, text)]
                 ELSE /\ blocks' = Append(Append(Replaced(k), Preface(others)), Cell(new, {last}))
                      /\ own' = [own EXCEPT !.blocks = Append(Append(@, others), {last})]
<1>1. PICK k \in DOMAIN blocks :
        /\ OpenAt(k)
        /\ \E text \in {blocks[k].lines.content.text} : \E last \in text : Added(k, text, last)
        /\ working' = Cleared(blocks[k].lines.content)
  BY DEF try_opening_header
<1> DEFINE text == blocks[k].lines.content.text
           b == [blocks[k] EXCEPT !.lines.content = Unallocated, !.kind = "replaced", !.open = FALSE]
<1>2. PICK last \in text : Added(k, text, last)
  BY <1>1
<1> DEFINE others == text \ {last}
<1>3. /\ blocks[k] \in BlockSet /\ blocks[k].lines.content \in StringSet
      /\ {last} \in LineSet /\ others \in LineSet
  BY <1>1, <1>2, OpenBlock DEF StringSet, LineSet
<1>4. GoodBlocks(Replaced(k), own.blocks)
  <2>1. /\ b \in BlockSet /\ b.open = FALSE /\ b.kind = "replaced"
        /\ b.lines.content = Unallocated /\ b.lines.offsets = blocks[k].lines.offsets
    BY <1>3, NothingAllocated DEF BlockSet, LinesSet, KindSet
  <2>2. Replaced(k) = [blocks EXCEPT ![k] = b]
    OBVIOUS
  <2> HIDE DEF b
  <2>3. "replaced" \notin WithLiteral
    BY DEF WithLiteral
  <2>4. Good(b, own.blocks[k])
    BY <1>1, <2>1, <2>3, OpenBlock, NothingAllocated DEF Good
  <2>5. QED
    BY <2>2, <2>4, SameGoodBlock DEF BuffersInv
<1>5. new.offsets = {} /\ spareStrings' \in SpareStrings /\ spareBlocks' \in SpareBlocks
  BY NewLinesAreEmpty DEF BuffersInv, try_opening_header, Keep
<1>6. /\ Good(Cell(new, {last}), {last})
      /\ Good(Preface(others), others)
  BY <1>3, <1>5, TextBlocks
<1>7. working' \in StringSet /\ working'.text = {}
  BY <1>1, <1>3, ClearedText
<1>8. /\ GoodBlocks(blocks', own'.blocks)
      /\ own' = [blocks |-> own'.blocks, strings |-> own.strings]
  <2> HIDE DEF Replaced, Preface, new
  <2>1. CASE others = {}
    <3>1. text = {last}
      BY <1>2, <2>1
    <3>2. own' = [blocks |-> Append(own.blocks, {last}), strings |-> own.strings]
      BY <1>2, <2>1, <3>1 DEF BuffersInv
    <3>3. GoodBlocks(Append(Replaced(k), Cell(new, {last})), Append(own.blocks, {last}))
      BY <1>4, <1>6, AppendGoodBlock
    <3>4. QED
      BY <1>2, <2>1, <3>2, <3>3
  <2>2. CASE others # {}
    <3>1. own' = [blocks |-> Append(Append(own.blocks, others), {last}), strings |-> own.strings]
      BY <1>2, <2>2 DEF BuffersInv
    <3>2. GoodBlocks(Append(Replaced(k), Preface(others)), Append(own.blocks, others))
      BY <1>4, <1>6, AppendGoodBlock
    <3>3. GoodBlocks(Append(Append(Replaced(k), Preface(others)), Cell(new, {last})),
                     Append(Append(own.blocks, others), {last}))
      BY <1>6, <3>2, AppendGoodBlock
    <3>4. QED
      BY <1>2, <2>2, <3>1, <3>3
  <2>3. QED
    BY <2>1, <2>2
<1>9. QED
  BY <1>5, <1>7, <1>8 DEF BuffersInv, try_opening_header

--------------------------------------------------------------------------------
(* After the blocks none is open.                                                *)

NoneOpen == stage # "blocks" => \A k \in DOMAIN blocks : ~blocks[k].open

LEMMA InlinesKeep ==
  ASSUME BuffersInv, NoneOpen, parse_inlines
  PROVE  BuffersInv' /\ NoneOpen'
<1>1. PICK k \in DOMAIN blocks :
        /\ WaitsForInlines(blocks[k])
        /\ IF zerocopy
           THEN /\ \/ /\ strings' = Append(strings, blocks[k].lines.content)
                      /\ own' = [own EXCEPT !.strings = Append(@, own.blocks[k])]
                   \/ /\ strings' = Append(Append(strings, blocks[k].lines.content),
                                           Owned(blocks[k].lines.content.text))
                      /\ own' = [own EXCEPT !.strings = Append(Append(@, own.blocks[k]), own.blocks[k])]
                /\ Keep(give_block(Pools, [blocks[k].lines EXCEPT !.content = Unallocated]))
           ELSE UNCHANGED <<strings, own, spareBlocks, spareStrings>>
        /\ blocks' = [blocks EXCEPT ![k].lines = NoLines]
  BY DEF parse_inlines
<1> DEFINE c == blocks[k].lines.content
           g == own.blocks[k]
           b == [blocks[k] EXCEPT !.lines = NoLines]
           given == [blocks[k].lines EXCEPT !.content = Unallocated]
<1>2. /\ Good(blocks[k], g) /\ blocks[k] \in BlockSet /\ g \in LineSet
      /\ blocks[k].lines \in LinesSet /\ c \in StringSet /\ c.text \subseteq g
  BY BlockIsGood DEF Good, BlockSet, LinesSet
<1>3. blocks[k].kind \notin WithLiteral /\ blocks[k].open = FALSE
  BY <1>1, <1>2 DEF WaitsForInlines, WithInlines, WithLiteral, NoneOpen, parse_inlines, BlockSet
<1>4. /\ b \in BlockSet /\ b.open = FALSE /\ b.kind = blocks[k].kind /\ b.lines = NoLines
  BY <1>2, <1>3, NoLinesAreLines DEF BlockSet
<1>5. blocks' = [blocks EXCEPT ![k] = b]
  BY <1>1
<1> HIDE DEF b
<1>6. Good(b, g)
  BY <1>2, <1>3, <1>4, NoLinesAreLines DEF Good
<1>7. GoodBlocks(blocks', own.blocks)
  BY <1>5, <1>6, SameGoodBlock DEF BuffersInv
<1>8. spareStrings' \in SpareStrings /\ spareBlocks' \in SpareBlocks
  <2>1. given.content \in StringSet
    BY <1>2, NothingAllocated DEF LinesSet
  <2> HIDE DEF given
  <2>2. /\ give_block(Pools, given).strings \in SpareStrings
        /\ give_block(Pools, given).blocks \in SpareBlocks
    BY <2>1, GiveBlock DEF Pools, BuffersInv
  <2>3. QED
    BY <1>1, <2>2 DEF Keep, BuffersInv, given
<1>9. /\ GoodStrings(strings', own'.strings)
      /\ own' = [blocks |-> own.blocks, strings |-> own'.strings]
  <2>1. GoodStrings(Append(strings, c), Append(own.strings, g))
    BY <1>2, AppendGoodString DEF BuffersInv
  <2>2. c.text \in LineSet
    BY <1>2 DEF StringSet
  <2>3. GoodStrings(Append(Append(strings, c), Owned(c.text)), Append(Append(own.strings, g), g))
    BY <1>2, <2>1, <2>2, OwnedText, AppendGoodString
  <2>4. QED
    BY <1>1, <2>1, <2>3 DEF BuffersInv
<1>10. NoneOpen'
  BY <1>3, <1>4, <1>5 DEF NoneOpen, parse_inlines
<1>11. QED
  BY <1>7, <1>8, <1>9, <1>10 DEF BuffersInv, parse_inlines

LEMMA EndOfDocumentKeeps ==
  ASSUME BuffersInv, NoneOpen, end_of_document
  PROVE  BuffersInv' /\ NoneOpen'
<1>1. working' \in StringSet /\ working'.text = {} /\ UNCHANGED <<spareBlocks, spareStrings, lines>>
  BY NothingAllocated DEF end_of_document
<1>2. CASE zerocopy
  <2>1. UNCHANGED <<blocks, strings, own>> /\ stage = "inlines"
    BY <1>2 DEF end_of_document
  <2>2. QED
    BY <1>1, <2>1 DEF BuffersInv, NoneOpen
<1>3. CASE ~zerocopy
  <2>1. blocks' = <<>> /\ strings' = <<>> /\ own' = NoLinesOwned
    BY <1>3 DEF end_of_document
  <2>2. QED
    BY <1>1, <2>1, NoneAreGood DEF BuffersInv, NoneOpen, NoLinesOwned
<1>4. QED
  BY <1>2, <1>3

LEMMA DrainStringsKeeps ==
  ASSUME BuffersInv, NoneOpen, drain_strings
  PROVE  BuffersInv' /\ NoneOpen'
<1>1. /\ GoodStrings(Tail(strings), Tail(own.strings)) /\ Head(strings) \in StringSet
  BY TailGoodStrings DEF BuffersInv, drain_strings
<1>2. spareStrings' \in SpareStrings
  BY <1>1, GiveString DEF BuffersInv, drain_strings
<1>3. own' = [blocks |-> own.blocks, strings |-> Tail(own.strings)]
  BY DEF BuffersInv, drain_strings
<1>4. BuffersInv'
  BY <1>1, <1>2, <1>3 DEF BuffersInv, drain_strings
<1>5. NoneOpen'
  BY DEF NoneOpen, drain_strings
<1>6. QED
  BY <1>4, <1>5

LEMMA GiveNodeKeeps ==
  ASSUME NEW b \in BlockSet, spareStrings \in SpareStrings, spareBlocks \in SpareBlocks
  PROVE  GiveNode(Pools, b).strings \in SpareStrings /\ GiveNode(Pools, b).blocks \in SpareBlocks
<1> DEFINE given == IF b.lines = NoLines THEN Pools ELSE give_block(Pools, b.lines)
<1>1. b.lines.content \in StringSet /\ b.literal \in StringSet
  BY DEF BlockSet, LinesSet
<1>2. /\ given = [strings |-> given.strings, blocks |-> given.blocks]
      /\ given.strings \in SpareStrings /\ given.blocks \in SpareBlocks
  <2>1. Pools.strings \in SpareStrings /\ Pools.blocks \in SpareBlocks
    BY DEF Pools
  <2>2. /\ give_block(Pools, b.lines).strings \in SpareStrings
        /\ give_block(Pools, b.lines).blocks \in SpareBlocks
    BY <1>1, <2>1, GiveBlock
  <2>3. /\ give_block(Pools, b.lines)
             = [strings |-> give_block(Pools, b.lines).strings, blocks |-> give_block(Pools, b.lines).blocks]
        /\ Pools = [strings |-> Pools.strings, blocks |-> Pools.blocks]
    BY DEF give_block, Pools
  <2>4. QED
    BY <2>1, <2>2, <2>3
<1>3. give_string(given.strings, b.literal) \in SpareStrings
  BY <1>1, <1>2, GiveString
<1>4. GiveNode(Pools, b) = IF b.kind \in {"CodeBlock", "HtmlBlock"}
                           THEN [given EXCEPT !.strings = give_string(@, b.literal)]
                           ELSE given
  BY DEF GiveNode
<1> HIDE DEF given
<1>5. QED
  BY <1>2, <1>3, <1>4

LEMMA DrainNodesKeeps ==
  ASSUME BuffersInv, NoneOpen, drain_nodes
  PROVE  BuffersInv' /\ NoneOpen'
<1>1. GoodBlocks(Tail(blocks), Tail(own.blocks))
  BY TailGoodBlocks DEF BuffersInv, drain_nodes
<1>2. /\ Head(blocks) \in BlockSet
      /\ \A k \in 1..Len(blocks) - 1 : Tail(blocks)[k] = blocks[k + 1]
      /\ DOMAIN Tail(blocks) = 1..Len(blocks) - 1 /\ DOMAIN blocks = 1..Len(blocks) /\ Len(blocks) \in Nat
  <2> HIDE DEF BlockSet
  <2>1. blocks \in Seq(BlockSet) /\ blocks # <<>>
    BY DEF BuffersInv, GoodBlocks, drain_nodes
  <2>2. QED
    BY <2>1, HeadTailProperties
<1>3. spareStrings' \in SpareStrings /\ spareBlocks' \in SpareBlocks
  BY <1>2, GiveNodeKeeps DEF BuffersInv, drain_nodes, Keep
<1>4. own' = [blocks |-> Tail(own.blocks), strings |-> own.strings]
  BY DEF BuffersInv, drain_nodes
<1>5. BuffersInv'
  BY <1>1, <1>3, <1>4 DEF BuffersInv, drain_nodes
<1>6. NoneOpen'
  <2>1. \A k \in DOMAIN blocks : ~blocks[k].open
    BY DEF NoneOpen, drain_nodes
  <2>2. \A k \in 1..Len(blocks) - 1 : k + 1 \in DOMAIN blocks
    BY <1>2
  <2>3. \A k \in DOMAIN Tail(blocks) : ~Tail(blocks)[k].open
    BY <1>2, <2>1, <2>2
  <2>4. QED
    BY <2>3 DEF NoneOpen, drain_nodes
<1>7. QED
  BY <1>5, <1>6

LEMMA NextKeeps ==
  ASSUME BuffersInv, NoneOpen, [BuffersNext]_bufferVars
  PROVE  BuffersInv' /\ NoneOpen'
<1>1. ASSUME NEW zero \in BOOLEAN, parse_document(zero)
      PROVE  BuffersInv' /\ NoneOpen'
  BY <1>1, ParseDocumentKeeps DEF NoneOpen, parse_document
<1>2. ASSUME NEW kind \in WithLiteral \cup WithInlines, add_child(kind)
      PROVE  BuffersInv' /\ NoneOpen'
  BY <1>2, AddChildKeeps DEF NoneOpen, add_child
<1>3. CASE add_line
  BY <1>3, AddLineKeeps DEF NoneOpen, add_line
<1>4. CASE finalize
  BY <1>4, FinalizeKeeps DEF NoneOpen, finalize
<1>5. CASE handle_setext_heading
  BY <1>5, SetextKeeps DEF NoneOpen, handle_setext_heading
<1>6. CASE try_opening_header
  BY <1>6, HeaderKeeps DEF NoneOpen, try_opening_header
<1>7. CASE try_opening_row
  BY <1>7, RowKeeps DEF NoneOpen, try_opening_row
<1>8. CASE end_of_blocks
  BY <1>8 DEF BuffersInv, NoneOpen, end_of_blocks, OpenAt
<1>9. CASE parse_inlines
  BY <1>9, InlinesKeep
<1>10. CASE end_of_document
  BY <1>10, EndOfDocumentKeeps
<1>11. CASE drain_strings
  BY <1>11, DrainStringsKeeps
<1>12. CASE drain_nodes
  BY <1>12, DrainNodesKeeps
<1>13. CASE UNCHANGED bufferVars
  BY <1>13 DEF bufferVars, BuffersInv, NoneOpen
<1>14. QED
  BY <1>1, <1>2, <1>3, <1>4, <1>5, <1>6, <1>7, <1>8, <1>9, <1>10, <1>11, <1>12, <1>13 DEF BuffersNext

LEMMA InvShows ==
  ASSUME BuffersInv
  PROVE  Unmixed
<1>1. ASSUME NEW k \in DOMAIN blocks
      PROVE  /\ blocks[k].lines.content.text \subseteq own.blocks[k]
             /\ blocks[k].lines # NoLines => blocks[k].lines.offsets = own.blocks[k]
             /\ blocks[k].kind \in WithLiteral /\ ~blocks[k].open => blocks[k].literal.text = own.blocks[k]
  BY BlockIsGood DEF Good
<1>2. \A k \in DOMAIN strings : strings[k].text \subseteq own.strings[k]
  BY DEF BuffersInv, GoodStrings
<1>3. /\ \A k \in DOMAIN spareStrings : spareStrings[k] = Owned({})
      /\ \A k \in DOMAIN spareBlocks : spareBlocks[k] = Fresh
      /\ Len(spareStrings) <= SpareMax /\ Len(spareBlocks) <= SpareMax
  BY DEF BuffersInv, SpareStrings, SpareBlocks
<1>4. QED
  BY <1>1, <1>2, <1>3 DEF Unmixed, BuffersInv

\* For every number of spares a thread keeps, of blocks and of lines: no block of any document
\* of a thread, no string of its inlines and no literal holds a line it was not given, and
\* what waits is empty (take_content, give_string, give_block and those who call them)
THEOREM TextNeverMixed == BuffersSpec => []Unmixed
<1>1. BuffersInit => BuffersInv /\ NoneOpen
  <2>1. BuffersInit => BuffersInv
    BY InitHolds
  <2>2. BuffersInit => NoneOpen
    BY DEF NoneOpen, BuffersInit
  <2>3. QED
    BY <2>1, <2>2
<1>2. BuffersInv /\ NoneOpen /\ [BuffersNext]_bufferVars => (BuffersInv /\ NoneOpen)'
  BY NextKeeps
<1>3. BuffersInv => Unmixed
  BY InvShows
<1>4. QED
  BY <1>1, <1>2, <1>3, PTL DEF BuffersSpec
================================================================================
