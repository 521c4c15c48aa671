------------------------- MODULE IntrusiveHeapProofs -------------------------
(***************************************************************************)
(* Theorems about IntrusiveHeap, for any elements, keys and sizes.         *)
(*                                                                         *)
(* Between operations the tree is ordered; during one it is ordered around *)
(* the hole, and so it is around an element that the client modified.  The *)
(* inductive invariant says both of one index, Gap.                        *)
(***************************************************************************)
EXTENDS IntrusiveHeap, FiniteSetTheorems, WellFoundedInduction, TLAPS

Busy == call # Idle

\* The slots that hold an element.
Filled == {i \in Slots : i < Count /\ ~(Busy /\ i = call.hole)}

\* Every slot but the hole holds an element that knows its slot.
Placement ==
    /\ \A i \in Slots : heap_[i] # NoElement <=> i \in Filled
    /\ \A i \in Filled : handle[heap_[i]] = i /\ heap_[i] \in members
    /\ \A e \in Elements : handle[e] # kInvalidIndex =>
                              handle[e] \in Filled /\ heap_[handle[e]] = e
    /\ \A e \in members : handle[e] # kInvalidIndex \/ (Busy /\ e = call.element)
    /\ Busy => call.element \in members /\ handle[call.element] = kInvalidIndex

\* Where the hole is and what fills it; a dirty element is in the heap.
CallInv ==
    /\ call.at = "idle" => call = Idle
    /\ call.at = "up" => call.hole \in 0..Count /\ call.hole < MaxSize
    /\ call.at = "down" => call.hole \in 0..(Count - 1)
    /\ call.leaf => call.hole < Count
    /\ dirty # NoElement => call = Idle /\ dirty \in members

Gap == IF Busy THEN call.hole
       ELSE IF dirty # NoElement THEN handle[dirty] ELSE kInvalidIndex

Below(i, j) == key[heap_[i]] <= key[heap_[j]]

\* The tree is ordered where the gap is not involved, the gap's children are not
\* greater than its parent, and what fills the gap fits on the side from which
\* the hole comes.
OrderAround ==
    /\ \A i \in 1..(Count - 1) :
        i # Gap /\ ParentIndex(i) # Gap => Below(i, ParentIndex(i))
    /\ \A i \in 1..(Count - 1) :
        ParentIndex(i) = Gap /\ Gap > 0 => Below(i, ParentIndex(Gap))
    /\ \A i \in 1..(Count - 1) :
        call.at = "up" /\ ParentIndex(i) = Gap => key[heap_[i]] <= key[call.element]
    /\ call.at = "down" /\ ~call.leaf /\ Gap > 0 =>
        key[call.element] <= key[heap_[ParentIndex(Gap)]]

IInv == TypeOK /\ CallInv /\ Placement /\ OrderAround
-----------------------------------------------------------------------------
(* The tree and the operation under way                                    *)

\* The children of h are 2h + 1 and 2h + 2 (LeftIndex and its neighbour).
LEMMA Children ==
    ASSUME NEW i \in Nat, i > 0
    PROVE  /\ ParentIndex(i) \in Nat /\ ParentIndex(i) < i
           /\ \A h \in Nat : ParentIndex(i) = h <=> i = 2 * h + 1 \/ i = 2 * h + 2
  BY DEF ParentIndex

\* Whether an operation is under way can be told from the control point.
LEMMA BusyAt ==
    ASSUME IInv
    PROVE  /\ Busy <=> call.at # "idle"
           /\ ~Busy => call.hole = -1 /\ call.element = NoElement /\ call.leaf = FALSE
           /\ ~Busy => Count = size_
           /\ Busy => call.hole \in Slots /\ call.hole <= Count /\ call.element \in Elements
           /\ Busy => dirty = NoElement
           /\ Count \in Int /\ Count <= size_ /\ size_ - 1 <= Count
  <1> USE DEF IInv
  <1>1. Busy <=> call.at # "idle"
    BY DEF Busy, CallInv, Idle
  <1>2. ~Busy => call.hole = -1 /\ call.element = NoElement /\ call.leaf = FALSE
    BY DEF Busy, Idle, kInvalidIndex
  <1>3. size_ \in Nat /\ size_ <= MaxSize /\ MaxSize \in Nat /\ call.leaf \in BOOLEAN
    BY HeapAssumption DEF TypeOK
  <1>4. /\ Count \in Int /\ Count <= size_ /\ size_ - 1 <= Count
        /\ ~Busy => Count = size_
    BY <1>2, <1>3 DEF Count
  <1>5. Busy => call.at \in {"up", "down"}
    BY Zenon, <1>1 DEF TypeOK, Points
  <1>6. Busy => call.hole \in Slots /\ call.hole <= Count
    BY <1>3, <1>4, <1>5 DEF CallInv, Slots
  <1>7. Busy => call.element \in Elements /\ dirty = NoElement
    BY Zenon DEF Placement, TypeOK, CallInv, Busy
  <1> QED BY Zenon, <1>1, <1>2, <1>4, <1>6, <1>7
-----------------------------------------------------------------------------
(* Moving the hole and filling it                                          *)

\* The number of slots in use after a write to the hole.
Grown == IF call.hole = Count THEN Count + 1 ELSE Count

LEMMA GrownSize ==
    ASSUME IInv, Busy
    PROVE  /\ Grown \in Nat /\ Grown <= MaxSize /\ Count <= Grown /\ call.hole < Grown
           /\ \A i \in Int : i < Grown /\ i # call.hole => i < Count
           /\ call.leaf => size_ = Count + 1 /\ Grown = Count /\ SizeWith(call.hole) = size_
           /\ ~call.leaf => SizeWith(call.hole) = Grown
  <1>1. /\ size_ \in Nat /\ size_ <= MaxSize /\ MaxSize \in Nat /\ call.leaf \in BOOLEAN
        /\ call.leaf => call.hole < Count
    BY HeapAssumption DEF IInv, TypeOK, CallInv
  <1>2. call.hole \in Int /\ 0 <= call.hole /\ call.hole < MaxSize /\ call.hole <= Count
    BY <1>1, BusyAt DEF Slots
  <1> QED BY <1>1, <1>2 DEF Grown, Count, SizeWith

\* MoveHole keeps every element in its slot but the one that moves into the
\* hole, and sets that one's handle.
LEMMA MovePlaces ==
    ASSUME IInv, Busy, NEW from \in Filled, MoveHole(from, call.hole)
    PROVE  /\ TypeOK' /\ Placement'
           /\ call'.at = call.at /\ call'.leaf = call.leaf
           /\ call'.element = call.element /\ call'.hole = from
           /\ Count' = Grown /\ Busy'
           /\ heap_'[call.hole] = heap_[from]
           /\ \A i \in Slots \ {from, call.hole} : heap_'[i] = heap_[i]
  <1> DEFINE hole == call.hole
  <1>1. /\ hole \in Slots /\ from \in Slots /\ from # hole /\ from < Count
        /\ call.element \in Elements /\ call.at # "idle"
    BY Zenon, BusyAt DEF Filled
  <1>2. heap_[from] \in Elements /\ heap_[from] \in members /\ handle[heap_[from]] = from
    BY Zenon, <1>1 DEF IInv, Placement, TypeOK
  <1>3. /\ call'.at = call.at /\ call'.leaf = call.leaf
        /\ call'.element = call.element /\ call'.hole = from
        /\ call' \in [at : Points, hole : Indices, element : Elements \cup {NoElement},
                       leaf : BOOLEAN]
    BY Zenon, <1>1 DEF MoveHole, IInv, TypeOK, Indices
  <1>4. Busy'
    BY <1>1, <1>3 DEF Busy, Idle
  <1>5. size_' = SizeWith(hole) /\ size_' \in 0..MaxSize /\ Count' = Grown
    <2>1. size_' = SizeWith(hole)
      BY Zenon DEF MoveHole
    <2>2. call.leaf \in BOOLEAN /\ size_ \in Nat /\ size_ <= MaxSize /\ MaxSize \in Nat
      BY HeapAssumption DEF IInv, TypeOK
    <2>3. Count' = IF call.leaf THEN size_' - 1 ELSE size_'
      BY Zenon, <1>3 DEF Count
    <2>4. CASE call.leaf
      BY <2>1, <2>2, <2>3, <2>4, GrownSize
    <2>5. CASE ~call.leaf
      BY <2>1, <2>2, <2>3, <2>5, GrownSize
    <2> QED BY Zenon, <2>1, <2>2, <2>4, <2>5
  <1>6. /\ heap_' \in [Slots -> Elements \cup {NoElement}]
        /\ heap_'[hole] = heap_[from] /\ heap_'[from] = NoElement
        /\ \A i \in Slots \ {from, hole} : heap_'[i] = heap_[i]
    BY Zenon, <1>1, <1>2 DEF MoveHole, IInv, TypeOK
  <1>7. /\ handle' \in [Elements -> Indices] /\ handle'[heap_[from]] = hole
        /\ \A e \in Elements \ {heap_[from]} : handle'[e] = handle[e]
    BY Zenon, <1>1, <1>2 DEF MoveHole, IInv, TypeOK, Indices
  <1>8. TypeOK'
    BY <1>3, <1>5, <1>6, <1>7 DEF MoveHole, IInv, TypeOK
  <1>9. Filled' = (Filled \ {from}) \cup {hole}
    <2>1. \A i \in Slots : i < Grown <=> i < Count \/ i = hole
      BY <1>1, GrownSize, BusyAt DEF Slots
    <2>2. Filled' = {i \in Slots : i < Grown /\ i # from}
      BY Zenon, <1>3, <1>4, <1>5 DEF Filled
    <2>3. Filled = {i \in Slots : i < Count /\ i # hole}
      BY Zenon DEF Filled
    <2> QED BY Zenon, <1>1, <2>1, <2>2, <2>3
  <1>10. Placement'
    <2> USE DEF IInv
    <2>1. NoElement \notin Elements /\ members' = members /\ members \subseteq Elements
      BY Zenon, HeapAssumption DEF MoveHole, TypeOK
    <2>2. \A i \in Slots : heap_'[i] # NoElement <=> i \in Filled'
      BY <1>1, <1>2, <1>6, <1>9, <2>1 DEF Placement
    <2>3. ASSUME NEW i \in Filled'
          PROVE  handle'[heap_'[i]] = i /\ heap_'[i] \in members'
      <3>1. CASE i = hole
        BY Zenon, <1>2, <1>6, <1>7, <2>1, <3>1
      <3>2. CASE i # hole
        <4>1. i \in Filled /\ i # from /\ i \in Slots
          BY Zenon, <1>9, <3>2 DEF Filled
        <4>2. heap_'[i] = heap_[i] /\ handle[heap_[i]] = i /\ heap_[i] \in members
          BY Zenon, <1>6, <3>2, <4>1 DEF Placement
        <4> QED BY Zenon, <1>2, <1>7, <2>1, <4>1, <4>2
      <3> QED BY Zenon, <3>1, <3>2
    <2>4. ASSUME NEW e \in Elements, handle'[e] # kInvalidIndex
          PROVE  handle'[e] \in Filled' /\ heap_'[handle'[e]] = e
      <3>1. CASE e = heap_[from]
        BY Zenon, <1>6, <1>7, <1>9, <3>1
      <3>2. CASE e # heap_[from]
        <4>1. handle'[e] = handle[e]
          BY Zenon, <1>7, <3>2
        <4>2. handle[e] \in Filled /\ heap_[handle[e]] = e
          BY Zenon, <4>1, <2>4 DEF Placement
        <4>3. handle[e] # from /\ handle[e] \in Slots /\ handle[e] # hole
          BY Zenon, <3>2, <4>2 DEF Filled
        <4> QED BY Zenon, <1>6, <1>9, <4>1, <4>2, <4>3
      <3> QED BY Zenon, <3>1, <3>2
    <2>5. \A e \in members' : handle'[e] # kInvalidIndex \/ (Busy' /\ e = call'.element)
      <3>1. hole # kInvalidIndex
        BY <1>1, HeapAssumption DEF Slots, kInvalidIndex
      <3> QED BY <1>3, <1>4, <1>7, <2>1, <3>1 DEF Placement
    <2>6. call'.element \in members' /\ handle'[call'.element] = kInvalidIndex
      <3>1. call.element \in members /\ handle[call.element] = kInvalidIndex
        BY Zenon DEF Placement
      <3>2. from # kInvalidIndex
        BY <1>1, HeapAssumption DEF Slots, kInvalidIndex
      <3> QED BY Zenon, <1>1, <1>2, <1>3, <1>7, <2>1, <3>1, <3>2
    <2> QED BY Zenon, <2>2, <2>3, <2>4, <2>5, <2>6 DEF Placement
  <1> QED BY Zenon, <1>3, <1>4, <1>5, <1>6, <1>8, <1>10

\* FillHole completes the heap: every slot in use holds an element, and the tree
\* is ordered if the element fits between the parent and the children.
LEMMA Fills ==
    ASSUME IInv, Busy, FillHole,
           call.hole > 0 => key[call.element] <= key[heap_[ParentIndex(call.hole)]],
           \A i \in 1..(Count - 1) : ParentIndex(i) = call.hole =>
                                        key[heap_[i]] <= key[call.element]
    PROVE  IInv'
  <1> DEFINE hole == call.hole
  <1>1. /\ hole \in Slots /\ hole \in Nat /\ call.element \in Elements
        /\ call.element \in members /\ handle[call.element] = kInvalidIndex
        /\ Count \in Int /\ dirty = NoElement /\ call.leaf \in BOOLEAN
    BY BusyAt, HeapAssumption DEF IInv, Placement, TypeOK, Slots
  <1>2. call' = Idle /\ ~Busy' /\ key' = key /\ dirty' = NoElement /\ members' = members
    BY Zenon, <1>1 DEF FillHole, Busy
  <1>3. size_' = Grown /\ Count' = Grown /\ size_' \in 0..MaxSize
    <2>1. Grown \in 0..MaxSize
      BY GrownSize
    <2>2. size_' = IF call.leaf THEN size_ - 1 ELSE SizeWith(hole)
      BY Zenon DEF FillHole
    <2>3. size_' = Grown
      BY <1>1, <2>2, GrownSize
    <2> QED BY Zenon, <1>2, <2>1, <2>3 DEF Count, Idle
  <1>4. /\ heap_' \in [Slots -> Elements \cup {NoElement}] /\ heap_'[hole] = call.element
        /\ \A i \in Slots \ {hole} : heap_'[i] = heap_[i]
    BY Zenon, <1>1 DEF FillHole, IInv, TypeOK
  <1>5. /\ handle' \in [Elements -> Indices] /\ handle'[call.element] = hole
        /\ \A e \in Elements \ {call.element} : handle'[e] = handle[e]
    BY Zenon, <1>1 DEF FillHole, IInv, TypeOK, Indices
  <1>6. TypeOK'
    <2>1. Idle \in [at : Points, hole : Indices, element : Elements \cup {NoElement},
                    leaf : BOOLEAN]
      BY Zenon DEF Idle, Points, Indices
    <2>2. moves' \in Nat
      BY Zenon DEF FillHole
    <2> QED BY Zenon, <1>2, <1>3, <1>4, <1>5, <2>1, <2>2 DEF IInv, TypeOK
  <1>7. CallInv'
    BY Zenon, <1>2 DEF CallInv, Idle
  <1>8. Filled' = Filled \cup {hole}
    <2>1. \A i \in Slots : i < Grown <=> i < Count \/ i = hole
      BY <1>1, GrownSize DEF Slots
    <2>2. Filled' = {i \in Slots : i < Grown}
      BY Zenon, <1>2, <1>3 DEF Filled
    <2>3. Filled = {i \in Slots : i < Count /\ i # hole}
      BY Zenon DEF Filled
    <2> QED BY Zenon, <1>1, <2>1, <2>2, <2>3
  <1>9. hole # kInvalidIndex /\ hole \notin Filled /\ NoElement \notin Elements
    BY <1>1, HeapAssumption DEF kInvalidIndex, Filled
  <1>10. Placement'
    <2>1. \A i \in Slots : heap_'[i] # NoElement <=> i \in Filled'
      BY <1>1, <1>4, <1>8, <1>9 DEF IInv, Placement
    <2>2. ASSUME NEW i \in Filled'
          PROVE  handle'[heap_'[i]] = i /\ heap_'[i] \in members'
      <3>1. CASE i = hole
        BY Zenon, <1>1, <1>2, <1>4, <1>5, <3>1
      <3>2. CASE i # hole
        <4>1. i \in Filled /\ i \in Slots
          BY Zenon, <1>8, <3>2 DEF Filled
        <4>2. /\ heap_'[i] = heap_[i] /\ handle[heap_[i]] = i /\ heap_[i] \in members
              /\ heap_[i] \in Elements
          BY Zenon, <1>4, <3>2, <4>1 DEF IInv, Placement, TypeOK
        <4>3. heap_[i] # call.element
          BY <1>1, <4>1, <4>2, HeapAssumption DEF Slots, kInvalidIndex
        <4> QED BY Zenon, <1>2, <1>5, <4>2, <4>3
      <3> QED BY Zenon, <3>1, <3>2
    <2>3. ASSUME NEW e \in Elements, handle'[e] # kInvalidIndex
          PROVE  handle'[e] \in Filled' /\ heap_'[handle'[e]] = e
      <3>1. CASE e = call.element
        BY Zenon, <1>4, <1>5, <1>8, <3>1
      <3>2. CASE e # call.element
        <4>1. handle'[e] = handle[e] /\ handle[e] \in Filled /\ heap_[handle[e]] = e
          BY Zenon, <1>5, <3>2, <2>3 DEF IInv, Placement
        <4>2. handle[e] \in Slots \ {hole}
          BY Zenon, <4>1, <1>9 DEF Filled
        <4> QED BY Zenon, <1>4, <1>8, <4>1, <4>2
      <3> QED BY Zenon, <3>1, <3>2
    <2>4. \A e \in members' : handle'[e] # kInvalidIndex
      <3>1. members \subseteq Elements
        BY Zenon DEF IInv, TypeOK
      <3> QED BY <1>2, <1>5, <1>9, <3>1 DEF IInv, Placement
    <2> QED BY Zenon, <1>2, <2>1, <2>2, <2>3, <2>4 DEF Placement
  <1>11. Gap' = kInvalidIndex /\ call'.at = "idle" /\ Gap = hole
    BY Zenon, <1>2 DEF Gap, Idle
  <1>12. ASSUME NEW i \in 1..(Count' - 1)
         PROVE  Below(i, ParentIndex(i))'
    <2> DEFINE p == ParentIndex(i)
    <2>1. i \in Nat /\ i > 0 /\ i < Grown /\ p \in Nat /\ p < i
      BY <1>3, GrownSize, Children
    <2>2. i \in Slots /\ p \in Slots
      BY <1>3, <2>1, HeapAssumption DEF Slots
    <2>3. CASE i = hole
      <3>1. heap_'[i] = call.element /\ heap_'[p] = heap_[p]
        BY <1>4, <2>1, <2>2, <2>3
      <3> QED BY Zenon, <1>2, <2>1, <2>3, <3>1 DEF Below
    <2>4. CASE i # hole /\ p = hole
      <3>1. heap_'[p] = call.element /\ heap_'[i] = heap_[i] /\ i \in 1..(Count - 1)
        BY <1>1, <1>4, <2>1, <2>2, <2>4, GrownSize
      <3> QED BY Zenon, <1>2, <2>4, <3>1 DEF Below
    <2>5. CASE i # hole /\ p # hole
      <3>1. heap_'[p] = heap_[p] /\ heap_'[i] = heap_[i] /\ i \in 1..(Count - 1)
        BY <1>1, <1>4, <2>1, <2>2, <2>5, GrownSize
      <3>2. Below(i, p)
        BY Zenon, <1>11, <2>5, <3>1 DEF IInv, OrderAround
      <3> QED BY Zenon, <1>2, <3>1, <3>2 DEF Below
    <2> QED BY Zenon, <2>3, <2>4, <2>5
  <1>13. OrderAround'
    <2>1. \A i \in 1..(Count' - 1) : ParentIndex(i) # kInvalidIndex
      <3>1. SUFFICES ASSUME NEW i \in 1..(Count' - 1) PROVE ParentIndex(i) # kInvalidIndex
        BY Zenon
      <3>2. i \in Nat /\ i > 0
        BY <1>3, GrownSize
      <3> QED BY <3>2, Children DEF kInvalidIndex
    <2> QED BY Zenon, <1>11, <1>12, <2>1 DEF OrderAround
  <1> QED BY Zenon, <1>6, <1>7, <1>10, <1>13 DEF IInv
-----------------------------------------------------------------------------
(* The two loops                                                           *)

LEMMA KeysAreIntegers ==
    ASSUME IInv
    PROVE  /\ \A e \in Elements : key[e] \in Int
           /\ \A i \in Filled : i \in Slots /\ heap_[i] \in Elements /\ key[heap_[i]] \in Int
  <1>1. \A e \in Elements : key[e] \in Int
    BY HeapAssumption, Zenon DEF IInv, TypeOK
  <1>2. \A i \in Filled : i \in Slots /\ heap_[i] \in Elements
    BY Zenon DEF IInv, TypeOK, Placement, Filled
  <1> QED BY Zenon, <1>1, <1>2

LEMMA UpStep ==
    ASSUME IInv, MoveHoleUp
    PROVE  IInv'
  <1> DEFINE hole == call.hole
             p == ParentIndex(call.hole)
  <1>1. /\ call.at = "up" /\ hole # 0 /\ Less(heap_[p], call.element)
        /\ MoveHole(p, hole) /\ Busy
    BY Zenon, BusyAt DEF MoveHoleUp, Rises
  <1>2. /\ hole \in Slots /\ hole \in Nat /\ hole > 0 /\ hole <= Count /\ Count \in Int
        /\ call.element \in Elements /\ Count <= MaxSize /\ MaxSize \in Nat
        /\ dirty = NoElement
    BY <1>1, BusyAt, HeapAssumption DEF IInv, TypeOK, Slots
  <1>3. p \in Nat /\ p < hole /\ p < Count /\ p \in Slots
    BY <1>2, Children DEF Slots
  <1>4. p \in Filled
    BY <1>2, <1>3 DEF Filled
  <1>5. /\ TypeOK' /\ Placement'
        /\ call'.at = "up" /\ call'.leaf = call.leaf
        /\ call'.element = call.element /\ call'.hole = p
        /\ Count' = Grown /\ Busy'
        /\ heap_'[hole] = heap_[p]
        /\ \A i \in Slots \ {p, hole} : heap_'[i] = heap_[i]
    BY Zenon, <1>1, <1>4, MovePlaces
  <1>6. key' = key /\ dirty' = NoElement
    BY Zenon, <1>1, <1>2 DEF MoveHole
  <1>7. /\ Grown \in Nat /\ Grown <= MaxSize /\ Count <= Grown
        /\ \A i \in Int : i < Grown /\ i # hole => i < Count
    BY Zenon, <1>1, GrownSize
  <1>8. CallInv'
    <2>1. p \in 0..Grown /\ p < MaxSize /\ p < Grown
      BY <1>2, <1>3, <1>7
    <2> QED BY Zenon, <1>5, <1>6, <2>1 DEF CallInv
  <1>9. Gap = hole /\ Gap' = p
    BY Zenon, <1>1, <1>5 DEF Gap
  <1>10. /\ \A e \in Elements : key[e] \in Int
         /\ \A i \in Filled : key[heap_[i]] \in Int
    BY Zenon, KeysAreIntegers
  <1>11. ASSUME NEW i \in 1..(Count' - 1)
         PROVE  /\ i \in Nat /\ i > 0 /\ i < MaxSize /\ i \in Slots
                /\ ParentIndex(i) \in Nat /\ ParentIndex(i) < i /\ ParentIndex(i) \in Slots
                /\ i # hole => i \in 1..(Count - 1) /\ i \in Filled
    <2>1. i \in Nat /\ i > 0 /\ i < Grown /\ i < MaxSize /\ i \in Slots
      BY <1>2, <1>5, <1>7 DEF Slots
    <2>2. ParentIndex(i) \in Nat /\ ParentIndex(i) < i
      BY Zenon, <2>1, Children
    <2>3. i # hole => i < Count
      BY <1>7, <2>1
    <2>4. i # hole => i \in 1..(Count - 1) /\ i \in Filled
      BY <1>2, <2>1, <2>3 DEF Filled
    <2>5. ParentIndex(i) \in Slots
      BY <1>2, <2>1, <2>2 DEF Slots
    <2> QED BY Zenon, <2>1, <2>2, <2>4, <2>5
  <1>12. ASSUME NEW i \in 1..(Count' - 1), i # p, ParentIndex(i) # p
         PROVE  Below(i, ParentIndex(i))'
    <2>1. i # hole /\ i \in Slots /\ i \in 1..(Count - 1) /\ ParentIndex(i) \in Slots
      BY Zenon, <1>11, <1>12
    <2>2. heap_'[i] = heap_[i]
      BY Zenon, <1>5, <1>12, <2>1
    <2>3. CASE ParentIndex(i) = hole
      <3>1. Below(i, p)
        BY Zenon, <1>2, <1>9, <2>1, <2>3 DEF IInv, OrderAround
      <3>2. heap_'[ParentIndex(i)] = heap_[p]
        BY Zenon, <1>5, <2>3
      <3> QED BY Zenon, <1>6, <2>2, <3>1, <3>2 DEF Below
    <2>4. CASE ParentIndex(i) # hole
      <3>1. Below(i, ParentIndex(i))
        BY Zenon, <1>9, <2>1, <2>4 DEF IInv, OrderAround
      <3>2. heap_'[ParentIndex(i)] = heap_[ParentIndex(i)]
        BY <1>5, <1>12, <2>1, <2>4, Zenon
      <3> QED BY Zenon, <1>6, <2>2, <3>1, <3>2 DEF Below
    <2> QED BY Zenon, <2>3, <2>4
  <1>13. ASSUME NEW i \in 1..(Count' - 1), ParentIndex(i) = p
         PROVE  /\ key'[heap_'[i]] <= key[heap_[p]]
                /\ key'[heap_'[i]] \in Int
    <2>1. CASE i = hole
      <3>1. heap_'[i] = heap_[p]
        BY Zenon, <1>5, <2>1
      <3>2. key[heap_[p]] \in Int
        BY Zenon, <1>4, <1>10
      <3> QED BY <1>6, <3>1, <3>2
    <2>2. CASE i # hole
      <3>1. i \in Slots /\ i \in 1..(Count - 1) /\ i # p /\ i \in Filled
        BY <1>3, <1>11, <1>13, <2>2
      <3>2. heap_'[i] = heap_[i]
        BY Zenon, <1>5, <2>2, <3>1
      <3>3. p # hole
        BY <1>2, <1>3
      <3>4. Below(i, p)
        BY Zenon, <1>9, <1>13, <2>2, <3>1, <3>3 DEF IInv, OrderAround
      <3> QED BY Zenon, <1>6, <1>10, <3>1, <3>2, <3>4 DEF Below
    <2> QED BY Zenon, <2>1, <2>2
  <1>14. ASSUME NEW i \in 1..(Count' - 1), ParentIndex(i) = p, p > 0
         PROVE  key'[heap_'[i]] <= key'[heap_'[ParentIndex(p)]]
    <2> DEFINE q == ParentIndex(p)
    <2>1. q \in Nat /\ q < p /\ q \in Slots
      BY <1>2, <1>3, <1>14, Children DEF Slots
    <2>2. q # p /\ q # hole /\ p # hole /\ p \in 1..(Count - 1) /\ q \in Filled
      BY <1>2, <1>3, <1>14, <2>1 DEF Filled
    <2>3. Below(p, q)
      BY Zenon, <1>9, <2>2 DEF IInv, OrderAround
    <2>4. heap_'[q] = heap_[q]
      BY Zenon, <1>5, <2>1, <2>2
    <2>5. key[heap_[p]] \in Int /\ key[heap_[q]] \in Int
      BY Zenon, <1>4, <1>10, <2>2
    <2>6. key'[heap_'[i]] <= key[heap_[p]] /\ key'[heap_'[i]] \in Int
      BY Zenon, <1>13, <1>14
    <2>7. key'[heap_'[i]] <= key[heap_[q]]
      BY <2>3, <2>5, <2>6 DEF Below
    <2> QED BY Zenon, <1>6, <2>4, <2>7
  <1>15. ASSUME NEW i \in 1..(Count' - 1), ParentIndex(i) = p
         PROVE  key'[heap_'[i]] <= key'[call'.element]
    <2>1. key[heap_[p]] < key[call.element]
      BY Zenon, <1>1 DEF Less
    <2>2. key[heap_[p]] \in Int /\ key[call.element] \in Int
      BY Zenon, <1>2, <1>4, <1>10
    <2>3. key'[heap_'[i]] <= key[heap_[p]] /\ key'[heap_'[i]] \in Int
      BY Zenon, <1>13, <1>15
    <2>4. key'[heap_'[i]] <= key[call.element]
      BY <2>1, <2>2, <2>3
    <2> QED BY Zenon, <1>5, <1>6, <2>4
  <1>16. OrderAround'
    BY Zenon, <1>5, <1>9, <1>12, <1>14, <1>15 DEF OrderAround, Below
  <1> QED BY Zenon, <1>5, <1>8, <1>16 DEF IInv

\* Facts about a hole that is going down: its slot exists already.
LEMMA DownHole ==
    ASSUME IInv, call.at = "down"
    PROVE  /\ Busy /\ call.hole \in Nat /\ call.hole < Count /\ call.hole \in Slots
           /\ Count \in Nat /\ Count <= MaxSize /\ MaxSize \in Nat /\ Grown = Count
           /\ call.element \in Elements /\ dirty = NoElement /\ Gap = call.hole
  <1>1. Busy
    BY Zenon, BusyAt
  <1>2. call.hole \in 0..(Count - 1) /\ Count \in Int
    BY BusyAt, Zenon DEF IInv, CallInv
  <1>3. size_ \in Nat /\ size_ <= MaxSize /\ MaxSize \in Nat
    BY HeapAssumption DEF IInv, TypeOK
  <1>4. /\ Count <= size_ /\ call.element \in Elements /\ dirty = NoElement
        /\ call.hole \in Slots
    BY Zenon, <1>1, BusyAt
  <1> QED BY <1>1, <1>2, <1>3, <1>4 DEF Grown, Gap

\* Largest is a child of the hole, and no child is greater.
LEMMA LargestChild ==
    ASSUME IInv, call.at = "down", LeftIndex(call.hole) < Count
    PROVE  /\ Largest \in Filled /\ Largest \in 1..(Count - 1)
           /\ Largest > call.hole /\ ParentIndex(Largest) = call.hole
           /\ \A i \in 1..(Count - 1) : ParentIndex(i) = call.hole =>
                                        key[heap_[i]] <= key[heap_[Largest]]
  <1> DEFINE left == LeftIndex(call.hole)
             right == left + 1
  <1>1. /\ call.hole \in Nat /\ Count \in Nat /\ Count <= MaxSize /\ MaxSize \in Nat
        /\ call.hole < Count
    BY Zenon, DownHole
  <1>2. /\ left = 2 * call.hole + 1 /\ right = 2 * call.hole + 2
        /\ left \in Nat /\ right \in Nat /\ left > call.hole /\ right > call.hole
    BY <1>1 DEF LeftIndex
  <1>3. left \in Filled /\ (right < Count => right \in Filled)
    BY <1>1, <1>2 DEF Filled, Slots
  <1>4. key[heap_[left]] \in Int /\ (right < Count => key[heap_[right]] \in Int)
    BY Zenon, <1>3, KeysAreIntegers
  <1>5. \A i \in 1..(Count - 1) : ParentIndex(i) = call.hole => i \in {left, right}
    BY <1>1, <1>2, Children
  <1>6. ParentIndex(left) = call.hole /\ ParentIndex(right) = call.hole
    BY <1>1, <1>2, Children
  <1>7. Largest = IF right < Count /\ key[heap_[left]] < key[heap_[right]]
                  THEN right ELSE left
    BY Zenon DEF Largest, Less
  <1> HIDE DEF left, right
  <1>8. CASE right < Count /\ key[heap_[left]] < key[heap_[right]]
    <2>1. Largest = right
      BY Zenon, <1>7, <1>8
    <2> QED BY <1>1, <1>2, <1>3, <1>4, <1>5, <1>6, <1>8, <2>1
  <1>9. CASE ~(right < Count /\ key[heap_[left]] < key[heap_[right]])
    <2>1. Largest = left
      BY Zenon, <1>7, <1>9
    <2>2. left < Count
      BY Zenon DEF left
    <2> QED BY SMTT(40), <1>1, <1>2, <1>3, <1>4, <1>5, <1>6, <1>9, <2>1, <2>2
  <1> QED BY Zenon, <1>8, <1>9

LEMMA DownStep ==
    ASSUME IInv, MoveHoleDown
    PROVE  IInv'
  <1> DEFINE hole == call.hole
             c == Largest
  <1>1. /\ call.at = "down" /\ LeftIndex(hole) < Count /\ MoveHole(c, hole)
        /\ call.leaf \/ Less(call.element, heap_[c])
    BY Zenon DEF MoveHoleDown, Sinks
  <1>2. /\ Busy /\ hole \in Nat /\ hole < Count /\ hole \in Slots
        /\ Count \in Nat /\ Count <= MaxSize /\ MaxSize \in Nat /\ Grown = Count
        /\ call.element \in Elements /\ dirty = NoElement /\ Gap = hole
    BY Zenon, <1>1, DownHole
  <1>3. /\ c \in Filled /\ c \in 1..(Count - 1) /\ c > hole /\ ParentIndex(c) = hole
        /\ \A i \in 1..(Count - 1) : ParentIndex(i) = hole => key[heap_[i]] <= key[heap_[c]]
    BY Zenon, <1>1, LargestChild
  <1>4. /\ TypeOK' /\ Placement'
        /\ call'.at = "down" /\ call'.leaf = call.leaf
        /\ call'.element = call.element /\ call'.hole = c
        /\ Count' = Count /\ Busy'
        /\ heap_'[hole] = heap_[c]
        /\ \A i \in Slots \ {c, hole} : heap_'[i] = heap_[i]
    BY Zenon, <1>1, <1>2, <1>3, MovePlaces
  <1>5. key' = key /\ dirty' = NoElement
    BY Zenon, <1>1, <1>2 DEF MoveHole
  <1>6. Gap' = c
    BY Zenon, <1>4 DEF Gap
  <1>7. CallInv'
    <2>1. c \in 0..(Count - 1) /\ c < Count
      BY <1>2, <1>3
    <2> QED BY Zenon, <1>4, <1>5, <2>1 DEF CallInv
  <1>8. ASSUME NEW i \in 1..(Count - 1)
        PROVE  /\ i \in Nat /\ i > 0 /\ i \in Slots
               /\ ParentIndex(i) \in Nat /\ ParentIndex(i) < i /\ ParentIndex(i) \in Slots
    <2>1. i \in Nat /\ i > 0 /\ i < MaxSize
      BY <1>2
    <2>2. ParentIndex(i) \in Nat /\ ParentIndex(i) < i
      BY Zenon, <2>1, Children
    <2> QED BY <1>2, <2>1, <2>2 DEF Slots
  <1>9. ASSUME NEW i \in 1..(Count - 1), i # c, ParentIndex(i) # c
        PROVE  key'[heap_'[i]] <= key'[heap_'[ParentIndex(i)]]
    <2>1. i \in Slots /\ ParentIndex(i) \in Slots /\ ParentIndex(i) < i /\ i \in Nat
      BY Zenon, <1>8
    <2>2. CASE i = hole
      <3>1. hole > 0 /\ ParentIndex(hole) # hole /\ ParentIndex(hole) # c
        BY <1>8, <1>9, <2>1, <2>2
      <3>2. heap_'[ParentIndex(hole)] = heap_[ParentIndex(hole)]
        BY <1>4, <2>1, <2>2, <3>1, Zenon
      <3>3. Below(c, ParentIndex(hole))
        BY Zenon, <1>2, <1>3, <3>1 DEF IInv, OrderAround
      <3> QED BY Zenon, <1>4, <1>5, <2>2, <3>2, <3>3 DEF Below
    <2>3. CASE i # hole /\ ParentIndex(i) = hole
      <3>1. heap_'[i] = heap_[i]
        BY Zenon, <1>4, <1>9, <2>1, <2>3
      <3>2. heap_'[ParentIndex(i)] = heap_[c]
        BY Zenon, <1>4, <2>3
      <3>3. key[heap_[i]] <= key[heap_[c]]
        BY Zenon, <1>3, <2>3
      <3> QED BY Zenon, <1>5, <3>1, <3>2, <3>3
    <2>4. CASE i # hole /\ ParentIndex(i) # hole
      <3>1. heap_'[i] = heap_[i] /\ heap_'[ParentIndex(i)] = heap_[ParentIndex(i)]
        BY <1>4, <1>9, <2>1, <2>4, Zenon
      <3>2. Below(i, ParentIndex(i))
        BY Zenon, <1>2, <2>4 DEF IInv, OrderAround
      <3> QED BY Zenon, <1>5, <3>1, <3>2 DEF Below
    <2> QED BY Zenon, <2>2, <2>3, <2>4
  <1>10. ASSUME NEW i \in 1..(Count - 1), ParentIndex(i) = c
         PROVE  key'[heap_'[i]] <= key'[heap_'[ParentIndex(c)]]
    <2>1. i \in Slots /\ i # c /\ i # hole /\ c # hole
      BY <1>2, <1>3, <1>8, <1>10
    <2>2. Below(i, c)
      BY Zenon, <1>2, <1>10, <2>1 DEF IInv, OrderAround
    <2>3. heap_'[i] = heap_[i]
      BY Zenon, <1>4, <2>1
    <2>4. heap_'[ParentIndex(c)] = heap_[c]
      BY Zenon, <1>3, <1>4
    <2> QED BY Zenon, <1>5, <2>2, <2>3, <2>4 DEF Below
  <1>11. ~call.leaf => key'[call'.element] <= key'[heap_'[ParentIndex(c)]]
    <2>1. key[call.element] \in Int /\ key[heap_[c]] \in Int
      BY Zenon, <1>2, <1>3, KeysAreIntegers
    <2>2. ~call.leaf => key[call.element] <= key[heap_[c]]
      BY <1>1, <2>1 DEF Less
    <2>3. heap_'[ParentIndex(c)] = heap_[c]
      BY Zenon, <1>3, <1>4
    <2> QED BY Zenon, <1>4, <1>5, <2>2, <2>3
  <1>12. OrderAround'
    BY Zenon, <1>4, <1>6, <1>9, <1>10, <1>11 DEF OrderAround, Below
  <1> QED BY Zenon, <1>4, <1>7, <1>12 DEF IInv

LEMMA FillAboveStep ==
    ASSUME IInv, FillAbove
    PROVE  IInv'
  <1>1. /\ call.at = "up" /\ FillHole /\ Busy /\ Gap = call.hole
        /\ call.hole # 0 => ~Less(heap_[ParentIndex(call.hole)], call.element)
    BY Zenon, BusyAt DEF FillAbove, Rises, Gap
  <1>2. call.hole > 0 => key[call.element] <= key[heap_[ParentIndex(call.hole)]]
    <2>1. SUFFICES ASSUME call.hole > 0
                   PROVE  key[call.element] <= key[heap_[ParentIndex(call.hole)]]
      BY Zenon
    <2>2. /\ call.hole \in Nat /\ call.hole <= Count /\ Count \in Int /\ call.hole \in Slots
          /\ call.element \in Elements /\ MaxSize \in Nat
      BY <1>1, BusyAt, HeapAssumption DEF Slots
    <2>3. ParentIndex(call.hole) \in Nat /\ ParentIndex(call.hole) < call.hole
      BY Zenon, <2>1, <2>2, Children
    <2>4. ParentIndex(call.hole) \in Filled
      BY <2>2, <2>3 DEF Filled, Slots
    <2>5. key[call.element] \in Int /\ key[heap_[ParentIndex(call.hole)]] \in Int
      BY Zenon, <2>2, <2>4, KeysAreIntegers
    <2> QED BY <1>1, <2>1, <2>5 DEF Less
  <1>3. \A i \in 1..(Count - 1) : ParentIndex(i) = call.hole =>
                                   key[heap_[i]] <= key[call.element]
    BY Zenon, <1>1 DEF IInv, OrderAround
  <1> QED BY Zenon, <1>1, <1>2, <1>3, Fills

LEMMA FillBelowStep ==
    ASSUME IInv, FillBelow
    PROVE  IInv'
  <1>1. call.at = "down" /\ FillHole /\ ~call.leaf /\ ~Sinks
    BY Zenon DEF FillBelow
  <1>2. /\ Busy /\ Gap = call.hole /\ call.hole \in Nat /\ Count \in Nat
        /\ call.element \in Elements
    BY Zenon, <1>1, DownHole
  <1>3. call.hole > 0 => key[call.element] <= key[heap_[ParentIndex(call.hole)]]
    BY Zenon, <1>1, <1>2 DEF IInv, OrderAround
  <1>4. ASSUME NEW i \in 1..(Count - 1), ParentIndex(i) = call.hole
        PROVE  key[heap_[i]] <= key[call.element]
    <2>1. i = 2 * call.hole + 1 \/ i = 2 * call.hole + 2
      BY <1>2, <1>4, Children
    <2>2. LeftIndex(call.hole) < Count
      BY <1>2, <2>1 DEF LeftIndex
    <2>3. ~Less(call.element, heap_[Largest])
      BY Zenon, <1>1, <2>2 DEF Sinks
    <2>4. Largest \in Filled /\ key[heap_[i]] <= key[heap_[Largest]]
      BY Zenon, <1>1, <1>4, <2>2, LargestChild
    <2>5. key[call.element] \in Int /\ key[heap_[Largest]] \in Int
      BY Zenon, <1>2, <2>4, KeysAreIntegers
    <2>6. i \in Filled
      BY <1>1, <1>2, <1>4, <2>1, DownHole DEF Filled, Slots
    <2>7. key[heap_[i]] \in Int
      BY Zenon, <2>6, KeysAreIntegers
    <2> QED BY <2>3, <2>4, <2>5, <2>7 DEF Less
  <1> QED BY Zenon, <1>1, <1>2, <1>3, <1>4, Fills

\* At the bottom of the tree the hole has no children, and the leaf may go up.
LEMMA LeafTurnsStep ==
    ASSUME IInv, LeafTurns
    PROVE  IInv'
  <1>1. /\ call.at = "down" /\ call.leaf /\ ~Sinks
        /\ call' = [call EXCEPT !.at = "up"]
        /\ UNCHANGED <<heap_, size_, handle, key, dirty, members, moves>>
    BY Zenon DEF LeafTurns
  <1>2. /\ Busy /\ call.hole \in Nat /\ call.hole < Count /\ Count \in Nat
        /\ Count <= MaxSize /\ MaxSize \in Nat /\ dirty = NoElement /\ Gap = call.hole
    BY Zenon, <1>1, DownHole
  <1>3. /\ call'.at = "up" /\ call'.leaf = call.leaf /\ call'.element = call.element
        /\ call'.hole = call.hole
        /\ call' \in [at : Points, hole : Indices, element : Elements \cup {NoElement},
                       leaf : BOOLEAN]
    BY <1>1, Zenon DEF IInv, TypeOK, Points
  <1>4. Busy' /\ Count' = Count
    BY Zenon, <1>1, <1>3 DEF Busy, Idle, Count
  <1>5. Gap' = Gap
    BY Zenon, <1>2, <1>3, <1>4 DEF Gap
  <1>6. TypeOK'
    BY Zenon, <1>1, <1>3 DEF IInv, TypeOK
  <1>7. CallInv'
    <2>1. call.hole \in 0..Count /\ call.hole < MaxSize
      BY <1>2
    <2> QED BY Zenon, <1>1, <1>2, <1>3, <1>4, <2>1 DEF CallInv
  <1>8. Filled' = Filled
    BY Zenon, <1>2, <1>3, <1>4 DEF Filled
  <1>9. Placement'
    BY Zenon, <1>1, <1>2, <1>3, <1>4, <1>8 DEF IInv, Placement
  <1>10. \A i \in 1..(Count - 1) : ParentIndex(i) # call.hole
    <2>1. ~(LeftIndex(call.hole) < Count)
      BY Zenon, <1>1 DEF Sinks
    <2>2. 2 * call.hole + 1 >= Count
      BY <1>2, <2>1 DEF LeftIndex
    <2> QED BY <1>2, <2>2, Children
  <1>11. OrderAround'
    BY Zenon, <1>1, <1>2, <1>3, <1>4, <1>5, <1>10 DEF IInv, OrderAround, Below
  <1> QED BY Zenon, <1>6, <1>7, <1>9, <1>11 DEF IInv
-----------------------------------------------------------------------------
(* The beginning of the operations                                         *)

\* Between operations the tree is ordered but for the element that the client
\* may have modified.
LEMMA Loosened ==
    ASSUME IInv, NEW pos \in Slots, MayTouch(pos)
    PROVE  /\ ~Busy /\ Count = size_ /\ size_ \in Nat /\ size_ <= MaxSize /\ MaxSize \in Nat
           /\ pos \in Nat /\ pos < size_ /\ Filled = 0..(size_ - 1) /\ pos \in Filled
           /\ heap_[pos] \in Elements /\ heap_[pos] \in members
           /\ handle[heap_[pos]] = pos /\ call.at = "idle"
           /\ \A i \in 1..(size_ - 1) :
                i # pos /\ ParentIndex(i) # pos => Below(i, ParentIndex(i))
           /\ \A i \in 1..(size_ - 1) :
                ParentIndex(i) = pos /\ pos > 0 => Below(i, ParentIndex(pos))
  <1>1. /\ call = Idle /\ pos < size_ /\ dirty \in {NoElement, heap_[pos]} /\ ~Busy
        /\ size_ \in Nat /\ size_ <= MaxSize /\ MaxSize \in Nat /\ pos \in Nat
    BY HeapAssumption DEF MayTouch, Busy, IInv, TypeOK, Slots
  <1>2. Count = size_ /\ call.at = "idle"
    BY Zenon, <1>1, BusyAt DEF Idle
  <1>3. Filled = 0..(size_ - 1)
    BY <1>1, <1>2 DEF Filled, Slots
  <1>4. /\ pos \in Filled /\ heap_[pos] \in Elements /\ heap_[pos] \in members
        /\ handle[heap_[pos]] = pos
    <2>1. pos \in Filled
      BY <1>1, <1>3
    <2> QED BY Zenon, <2>1, KeysAreIntegers DEF IInv, Placement
  <1>5. Gap = pos \/ Gap = -1
    BY Zenon, <1>1, <1>4 DEF Gap, kInvalidIndex
  <1>6. ASSUME NEW i \in 1..(size_ - 1), i # pos, ParentIndex(i) # pos
        PROVE  Below(i, ParentIndex(i))
    <2>1. i \in Nat /\ ParentIndex(i) \in Nat
      BY <1>1, Children
    <2>2. i # Gap /\ ParentIndex(i) # Gap
      BY <1>5, <1>6, <2>1
    <2> QED BY Zenon, <1>2, <2>2 DEF IInv, OrderAround
  <1>7. ASSUME NEW i \in 1..(size_ - 1), ParentIndex(i) = pos, pos > 0
        PROVE  Below(i, ParentIndex(pos))
    <2>1. CASE Gap = pos
      BY Zenon, <1>2, <1>7, <2>1 DEF IInv, OrderAround
    <2>2. CASE Gap = -1
      <3>1. /\ i \in Nat /\ pos \in 1..(size_ - 1)
            /\ ParentIndex(pos) \in Nat /\ ParentIndex(pos) < pos
        BY <1>1, <1>7, Children
      <3>2. Below(i, pos) /\ Below(pos, ParentIndex(pos))
        BY <1>1, <1>2, <1>7, <2>2, <3>1 DEF IInv, OrderAround
      <3>3. i \in Filled /\ ParentIndex(pos) \in Filled
        BY <1>1, <1>3, <3>1
      <3>4. /\ key[heap_[i]] \in Int /\ key[heap_[pos]] \in Int
            /\ key[heap_[ParentIndex(pos)]] \in Int
        BY <1>4, <3>3, KeysAreIntegers, ZenonT(40)
      <3> QED BY <3>2, <3>4 DEF Below
    <2> QED BY Zenon, <1>5, <2>1, <2>2
  <1> QED BY Zenon, <1>1, <1>2, <1>3, <1>4, <1>6, <1>7

\* Update, Replace and ReplaceTop open a hole at pos, which e is to fill.
LEMMA OpenHole ==
    ASSUME IInv, NEW pos \in Slots, NEW e \in Elements, NEW at \in {"up", "down"},
           MayTouch(pos),
           handle[e] = kInvalidIndex \/ e = heap_[pos],
           heap_' = [heap_ EXCEPT ![pos] = NoElement],
           handle' = [handle EXCEPT ![heap_[pos]] = kInvalidIndex],
           size_' = size_, dirty' = NoElement,
           members' = (members \ {heap_[pos]}) \cup {e},
           key' \in [Elements -> Keys],
           \A x \in Elements \ {e} : key'[x] = key[x],
           Begin(at, pos, e, FALSE),
           at = "up" => \A i \in 1..(size_ - 1) : ParentIndex(i) = pos =>
                                                    key[heap_[i]] <= key'[e],
           at = "down" /\ pos > 0 => key'[e] <= key[heap_[ParentIndex(pos)]]
    PROVE  IInv'
  <1>1. /\ ~Busy /\ Count = size_ /\ size_ \in Nat /\ size_ <= MaxSize /\ MaxSize \in Nat
        /\ pos \in Nat /\ pos < size_ /\ Filled = 0..(size_ - 1) /\ pos \in Filled
        /\ heap_[pos] \in Elements /\ heap_[pos] \in members /\ handle[heap_[pos]] = pos
    BY Zenon, Loosened
  <1>2. /\ call'.at = at /\ call'.hole = pos /\ call'.element = e /\ call'.leaf = FALSE
        /\ call' \in [at : Points, hole : Indices, element : Elements \cup {NoElement},
                       leaf : BOOLEAN]
        /\ moves' \in Nat
    BY Zenon DEF Begin, Points, Indices
  <1>3. Busy' /\ Count' = size_ /\ Gap' = pos
    <2>1. Busy'
      BY <1>2 DEF Busy, Idle
    <2> QED BY Zenon, <1>2, <2>1 DEF Count, Gap
  <1>4. /\ heap_' \in [Slots -> Elements \cup {NoElement}] /\ heap_'[pos] = NoElement
        /\ \A i \in Slots \ {pos} : heap_'[i] = heap_[i]
    BY Zenon DEF IInv, TypeOK
  <1>5. /\ handle' \in [Elements -> Indices] /\ handle'[heap_[pos]] = kInvalidIndex
        /\ \A x \in Elements \ {heap_[pos]} : handle'[x] = handle[x]
    BY Zenon, <1>1 DEF IInv, TypeOK, Indices
  <1>6. members \subseteq Elements /\ members' \subseteq Elements
    BY Zenon DEF IInv, TypeOK
  <1>7. TypeOK'
    BY Zenon, <1>2, <1>4, <1>5, <1>6 DEF IInv, TypeOK
  <1>8. CallInv'
    BY <1>1, <1>2, <1>3 DEF CallInv
  <1>9. Filled' = Filled \ {pos}
    BY Zenon, <1>1, <1>2, <1>3 DEF Filled
  <1>10. Placement'
    <2>0. NoElement \notin Elements /\ pos # kInvalidIndex
      BY <1>1, HeapAssumption DEF kInvalidIndex
    <2>1. \A i \in Slots : heap_'[i] # NoElement <=> i \in Filled'
      BY Zenon, <1>4, <1>9 DEF IInv, Placement
    <2>2. ASSUME NEW i \in Filled'
          PROVE  handle'[heap_'[i]] = i /\ heap_'[i] \in members'
      <3>1. i \in Filled /\ i # pos /\ i \in Slots
        BY Zenon, <1>9 DEF Filled
      <3>2. heap_'[i] = heap_[i] /\ handle[heap_[i]] = i /\ heap_[i] \in members
        BY Zenon, <1>4, <3>1 DEF IInv, Placement
      <3> QED BY <1>1, <1>5, <1>6, <3>1, <3>2
    <2>3. ASSUME NEW x \in Elements, handle'[x] # kInvalidIndex
          PROVE  handle'[x] \in Filled' /\ heap_'[handle'[x]] = x
      <3>1. x # heap_[pos] /\ handle'[x] = handle[x]
        BY Zenon, <1>5, <2>3
      <3>2. handle[x] \in Filled /\ heap_[handle[x]] = x
        BY Zenon, <2>3, <3>1 DEF IInv, Placement
      <3>3. handle[x] # pos /\ handle[x] \in Slots
        BY Zenon, <3>1, <3>2 DEF Filled
      <3> QED BY <1>4, <1>9, <3>1, <3>2, <3>3
    <2>4. ASSUME NEW x \in members', x # e
          PROVE  handle'[x] # kInvalidIndex
      <3>1. x \in members /\ x # heap_[pos] /\ x \in Elements
        BY Zenon, <1>6, <2>4
      <3>2. handle[x] # kInvalidIndex
        BY Zenon, <1>1, <3>1 DEF IInv, Placement
      <3> QED BY Zenon, <1>5, <3>1, <3>2
    <2>5. e \in members' /\ handle'[e] = kInvalidIndex
      BY Zenon, <1>1, <1>5
    <2> QED BY Zenon, <1>2, <1>3, <2>1, <2>2, <2>3, <2>4, <2>5 DEF Placement
  <1>11. ASSUME NEW i \in 0..(size_ - 1), i # pos
         PROVE  heap_'[i] = heap_[i] /\ key'[heap_'[i]] = key[heap_[i]]
    <2>1. i \in Filled /\ i \in Slots /\ i \in Nat
      BY <1>1 DEF Slots
    <2>2. heap_[i] \in Elements /\ handle[heap_[i]] = i
      BY Zenon, <2>1, KeysAreIntegers DEF IInv, Placement
    <2>3. heap_[i] # e
      BY <1>1, <1>11, <2>1, <2>2 DEF kInvalidIndex
    <2> QED BY Zenon, <1>4, <1>11, <2>1, <2>2, <2>3
  <1>12. ASSUME NEW i \in 1..(size_ - 1)
         PROVE  /\ i \in 0..(size_ - 1) /\ ParentIndex(i) \in 0..(size_ - 1)
                /\ ParentIndex(i) < i
    BY <1>1, Children
  <1>13. ASSUME NEW i \in 1..(size_ - 1), i # pos, ParentIndex(i) # pos
         PROVE  key'[heap_'[i]] <= key'[heap_'[ParentIndex(i)]]
    <2>1. Below(i, ParentIndex(i))
      BY Zenon, <1>13, Loosened
    <2> QED BY Zenon, <1>11, <1>12, <1>13, <2>1 DEF Below
  <1>14. ASSUME NEW i \in 1..(size_ - 1), ParentIndex(i) = pos, pos > 0
         PROVE  key'[heap_'[i]] <= key'[heap_'[ParentIndex(pos)]]
    <2>1. Below(i, ParentIndex(pos))
      BY Zenon, <1>14, Loosened
    <2>2. i \in 0..(size_ - 1) /\ i # pos
      BY <1>1, <1>12, <1>14
    <2>3. ParentIndex(pos) \in 0..(size_ - 1) /\ ParentIndex(pos) # pos
      BY <1>1, <1>14, Children
    <2> QED BY Zenon, <1>11, <2>1, <2>2, <2>3 DEF Below
  <1>15. ASSUME NEW i \in 1..(size_ - 1), ParentIndex(i) = pos, at = "up"
         PROVE  key'[heap_'[i]] <= key'[e]
    <2>1. i \in 0..(size_ - 1) /\ i # pos
      BY <1>1, <1>12, <1>15
    <2> QED BY Zenon, <1>11, <1>15, <2>1
  <1>16. ASSUME at = "down", pos > 0
         PROVE  key'[e] <= key'[heap_'[ParentIndex(pos)]]
    <2>1. ParentIndex(pos) \in 0..(size_ - 1) /\ ParentIndex(pos) # pos
      BY <1>1, <1>16, Children
    <2> QED BY Zenon, <1>11, <1>16, <2>1
  <1>17. OrderAround'
    BY Zenon, <1>2, <1>3, <1>13, <1>14, <1>15, <1>16 DEF OrderAround, Below
  <1> QED BY Zenon, <1>7, <1>8, <1>10, <1>17 DEF IInv

\* Update: an element that is not smaller than its parent is not smaller than its
\* children, which are not greater than the parent.
LEMMA UpdateStep ==
    ASSUME IInv, NEW pos \in Slots, Update(pos)
    PROVE  IInv'
  <1> DEFINE up == pos > 0 /\ ~Less(heap_[pos], heap_[ParentIndex(pos)])
             at == IF up THEN "up" ELSE "down"
  <1>1. /\ MayTouch(pos)
        /\ heap_' = [heap_ EXCEPT ![pos] = NoElement]
        /\ handle' = [handle EXCEPT ![heap_[pos]] = kInvalidIndex]
        /\ size_' = size_ /\ dirty' = NoElement /\ key' = key /\ members' = members
        /\ Begin(at, pos, heap_[pos], FALSE)
    BY Zenon DEF Update
  <1>2. /\ size_ \in Nat /\ pos \in Nat /\ pos < size_ /\ Filled = 0..(size_ - 1)
        /\ pos \in Filled /\ heap_[pos] \in Elements /\ heap_[pos] \in members
    BY Zenon, <1>1, Loosened
  <1>3. members' = (members \ {heap_[pos]}) \cup {heap_[pos]}
    BY Zenon, <1>1, <1>2
  <1>4. key' \in [Elements -> Keys] /\ \A x \in Elements : key'[x] = key[x]
    BY Zenon, <1>1 DEF IInv, TypeOK
  <1>5. pos > 0 => ParentIndex(pos) \in Filled
    BY <1>2, Children
  <1>6. key[heap_[pos]] \in Int /\ (pos > 0 => key[heap_[ParentIndex(pos)]] \in Int)
    BY Zenon, <1>2, <1>5, KeysAreIntegers
  <1>7. ASSUME at = "up", NEW i \in 1..(size_ - 1), ParentIndex(i) = pos
        PROVE  key[heap_[i]] <= key'[heap_[pos]]
    <2>1. pos > 0 /\ ~(key[heap_[pos]] < key[heap_[ParentIndex(pos)]])
      BY Zenon, <1>7 DEF Less
    <2>2. Below(i, ParentIndex(pos))
      BY Zenon, <1>1, <1>7, <2>1, Loosened
    <2>3. i \in Filled
      BY <1>2
    <2>4. key[heap_[i]] \in Int
      BY Zenon, <2>3, KeysAreIntegers
    <2> QED BY <1>1, <1>6, <2>1, <2>2, <2>4 DEF Below
  <1>8. ASSUME at = "down", pos > 0
        PROVE  key'[heap_[pos]] <= key[heap_[ParentIndex(pos)]]
    <2>1. key[heap_[pos]] < key[heap_[ParentIndex(pos)]]
      BY Zenon, <1>8 DEF Less
    <2> QED BY <1>1, <1>6, <1>8, <2>1
  <1>9. at \in {"up", "down"}
    BY Zenon
  <1> HIDE DEF at
  <1> QED BY <1>1, <1>2, <1>3, <1>4, <1>7, <1>8, <1>9, OpenHole, Zenon

\* Replace and ReplaceTop, given that the new element fits on the side on which
\* the hole does not move.
LEMMA SubstituteStep ==
    ASSUME IInv, NEW pos \in Slots, NEW e \in Elements, NEW k \in Keys,
           NEW at \in {"up", "down"}, Substitute(pos, e, k, at),
           at = "up" => key[heap_[pos]] <= k,
           at = "down" /\ pos > 0 => k <= key[heap_[pos]]
    PROVE  IInv'
  <1>1. /\ call = Idle /\ dirty = NoElement /\ pos < size_ /\ e \notin members
        /\ key' = [key EXCEPT ![e] = k]
        /\ members' = (members \ {heap_[pos]}) \cup {e}
        /\ handle' = [handle EXCEPT ![heap_[pos]] = kInvalidIndex]
        /\ heap_' = [heap_ EXCEPT ![pos] = NoElement]
        /\ Begin(at, pos, e, FALSE) /\ size_' = size_ /\ dirty' = NoElement
    BY Zenon DEF Substitute, Clean
  <1>2. MayTouch(pos)
    BY Zenon, <1>1 DEF MayTouch
  <1>3. /\ size_ \in Nat /\ pos \in Nat /\ Filled = 0..(size_ - 1) /\ pos \in Filled
        /\ ~Busy /\ Count = size_ /\ Gap = -1
    BY Zenon, <1>1, <1>2, Loosened DEF Gap, kInvalidIndex
  <1>4. handle[e] = kInvalidIndex
    <2>1. handle[e] # kInvalidIndex => e \in members
      BY Zenon DEF IInv, Placement
    <2> QED BY Zenon, <1>1, <2>1
  <1>5. /\ key' \in [Elements -> Keys] /\ key'[e] = k
        /\ \A x \in Elements \ {e} : key'[x] = key[x]
    BY Zenon, <1>1 DEF IInv, TypeOK
  <1>6. key[heap_[pos]] \in Int /\ k \in Int
    BY Zenon, <1>3, KeysAreIntegers, HeapAssumption
  <1>7. \A i \in 1..(size_ - 1) : Below(i, ParentIndex(i))
    <2>1. SUFFICES ASSUME NEW i \in 1..(size_ - 1) PROVE Below(i, ParentIndex(i))
      BY Zenon
    <2>2. i \in Nat /\ ParentIndex(i) \in Nat
      BY <1>3, Children
    <2> QED BY <1>3, <2>2 DEF IInv, OrderAround
  <1>8. ASSUME at = "up", NEW i \in 1..(size_ - 1), ParentIndex(i) = pos
        PROVE  key[heap_[i]] <= key'[e]
    <2>1. Below(i, pos) /\ i \in Filled
      BY <1>3, <1>7, <1>8
    <2>2. key[heap_[i]] \in Int
      BY Zenon, <2>1, KeysAreIntegers
    <2> QED BY <1>5, <1>6, <1>8, <2>1, <2>2 DEF Below
  <1>9. ASSUME at = "down", pos > 0
        PROVE  key'[e] <= key[heap_[ParentIndex(pos)]]
    <2>1. pos \in 1..(size_ - 1) /\ ParentIndex(pos) \in Filled
      BY <1>1, <1>3, <1>9, Children
    <2>2. Below(pos, ParentIndex(pos))
      BY Zenon, <1>7, <2>1
    <2>3. key[heap_[ParentIndex(pos)]] \in Int
      BY Zenon, <2>1, KeysAreIntegers
    <2> QED BY <1>5, <1>6, <1>9, <2>2, <2>3 DEF Below
  <1> QED BY <1>1, <1>2, <1>4, <1>5, <1>8, <1>9, OpenHole, Zenon

LEMMA ReplaceStep ==
    ASSUME IInv, NEW pos \in Slots, NEW e \in Elements, NEW k \in Keys, Replace(pos, e, k)
    PROVE  IInv'
  <1> DEFINE at == IF k < key[heap_[pos]] THEN "down" ELSE "up"
  <1>1. Substitute(pos, e, k, at)
    BY Zenon DEF Replace
  <1>2. MayTouch(pos)
    BY Zenon, <1>1 DEF Substitute, Clean, MayTouch
  <1>3. key[heap_[pos]] \in Int /\ k \in Int
    BY Zenon, <1>2, Loosened, KeysAreIntegers, HeapAssumption
  <1>4. /\ at \in {"up", "down"} /\ (at = "up" => key[heap_[pos]] <= k)
        /\ (at = "down" /\ pos > 0 => k <= key[heap_[pos]])
    BY <1>3
  <1> HIDE DEF at
  <1> QED BY Zenon, <1>1, <1>4, SubstituteStep

LEMMA ReplaceTopStep ==
    ASSUME IInv, NEW e \in Elements, NEW k \in Keys, ReplaceTop(e, k)
    PROVE  IInv'
  <1>1. Substitute(0, e, k, "down")
    BY Zenon DEF ReplaceTop
  <1>2. 0 \in Slots
    <2>1. 0 < size_ /\ size_ \in Nat /\ size_ <= MaxSize /\ MaxSize \in Nat
      BY <1>1, HeapAssumption DEF Substitute, IInv, TypeOK
    <2> QED BY <2>1 DEF Slots
  <1> QED BY <1>1, <1>2, SubstituteStep

\* The client's modification makes its element the gap.
LEMMA ChangeStep ==
    ASSUME IInv, NEW pos \in Slots, NEW k \in Keys, Change(pos, k)
    PROVE  IInv'
  <1>1. /\ call = Idle /\ dirty = NoElement /\ pos < size_
        /\ key' = [key EXCEPT ![heap_[pos]] = k] /\ dirty' = heap_[pos]
        /\ UNCHANGED <<heap_, size_, handle, call, members, moves>>
    BY Zenon DEF Change, Clean
  <1>2. MayTouch(pos)
    BY Zenon, <1>1 DEF MayTouch
  <1>3. /\ ~Busy /\ Count = size_ /\ size_ \in Nat /\ size_ <= MaxSize /\ MaxSize \in Nat
        /\ pos \in Nat /\ Filled = 0..(size_ - 1) /\ heap_[pos] \in Elements
        /\ heap_[pos] \in members /\ handle[heap_[pos]] = pos /\ call.at = "idle"
    BY Zenon, <1>2, Loosened
  <1>4. NoElement \notin Elements
    BY Zenon, HeapAssumption
  <1>5. ~Busy' /\ Count' = size_ /\ Filled' = Filled /\ Gap' = pos
    <2>1. ~Busy' /\ Count' = size_
      BY Zenon, <1>1, <1>3 DEF Busy, Count
    <2>2. Gap' = pos
      BY Zenon, <1>1, <1>3, <1>4, <2>1 DEF Gap
    <2>3. Filled' = Filled
      BY Zenon, <1>1, <1>3, <2>1 DEF Filled
    <2> QED BY Zenon, <2>1, <2>2, <2>3
  <1>6. /\ key' \in [Elements -> Keys]
        /\ \A x \in Elements \ {heap_[pos]} : key'[x] = key[x]
    BY Zenon, <1>1, <1>3 DEF IInv, TypeOK
  <1>7. TypeOK'
    BY Zenon, <1>1, <1>3, <1>6 DEF IInv, TypeOK
  <1>8. CallInv'
    <2>1. call'.at = "idle" /\ call'.leaf = FALSE /\ call' = Idle
      BY Zenon, <1>1 DEF Idle
    <2> QED BY Zenon, <1>1, <1>3, <2>1 DEF CallInv
  <1>9. Placement'
    BY Zenon, <1>1, <1>3, <1>5 DEF IInv, Placement
  <1>10. ASSUME NEW i \in 0..(size_ - 1), i # pos
         PROVE  key'[heap_'[i]] = key[heap_[i]]
    <2>1. heap_[i] \in Elements /\ handle[heap_[i]] = i
      BY Zenon, <1>3, KeysAreIntegers DEF IInv, Placement
    <2> QED BY Zenon, <1>1, <1>3, <1>6, <1>10, <2>1
  <1>11. ASSUME NEW i \in 1..(size_ - 1), i # pos, ParentIndex(i) # pos
         PROVE  key'[heap_'[i]] <= key'[heap_'[ParentIndex(i)]]
    <2>1. i \in 0..(size_ - 1) /\ ParentIndex(i) \in 0..(size_ - 1)
      BY <1>3, Children
    <2>2. Below(i, ParentIndex(i))
      BY Zenon, <1>2, <1>11, Loosened
    <2> QED BY Zenon, <1>10, <1>11, <2>1, <2>2 DEF Below
  <1>12. ASSUME NEW i \in 1..(size_ - 1), ParentIndex(i) = pos, pos > 0
         PROVE  key'[heap_'[i]] <= key'[heap_'[ParentIndex(pos)]]
    <2>1. i \in 0..(size_ - 1) /\ i # pos
      BY <1>3, <1>12, Children
    <2>2. ParentIndex(pos) \in 0..(size_ - 1) /\ ParentIndex(pos) # pos
      BY <1>1, <1>3, <1>12, Children, SMTT(40)
    <2>3. Below(i, ParentIndex(pos))
      BY Zenon, <1>2, <1>12, Loosened
    <2> QED BY Zenon, <1>10, <2>1, <2>2, <2>3 DEF Below
  <1>13. call'.at = "idle"
    BY Zenon, <1>1, <1>3
  <1>14. OrderAround'
    BY Zenon, <1>5, <1>11, <1>12, <1>13 DEF OrderAround, Below
  <1> QED BY Zenon, <1>7, <1>8, <1>9, <1>14 DEF IInv

\* take and erase: the last element leaves the heap, or its slot to fill the hole.
LEMMA EraseStep ==
    ASSUME IInv, NEW pos \in Slots, erase(pos)
    PROVE  IInv'
  <1> DEFINE last == size_ - 1
  <1>1. /\ MayTouch(pos) /\ members' = members \ {heap_[pos]} /\ dirty' = NoElement
        /\ handle' = [handle EXCEPT ![heap_[pos]] = kInvalidIndex,
                                    ![heap_[last]] = kInvalidIndex]
        /\ heap_' = [heap_ EXCEPT ![pos] = NoElement, ![last] = NoElement]
        /\ pos = last => size_' = size_ - 1 /\ call' = call /\ moves' = moves
        /\ pos # last => Begin("down", pos, heap_[last], TRUE) /\ size_' = size_
        /\ key' = key
    BY ZenonT(40) DEF erase, GetLastIndex
  <1>2. /\ ~Busy /\ Count = size_ /\ size_ \in Nat /\ size_ <= MaxSize /\ MaxSize \in Nat
        /\ pos \in Nat /\ pos < size_ /\ Filled = 0..(size_ - 1) /\ pos \in Filled
        /\ heap_[pos] \in Elements /\ heap_[pos] \in members
        /\ handle[heap_[pos]] = pos /\ call.at = "idle"
    BY Zenon, <1>1, Loosened
  <1>3. last \in Filled /\ last \in Slots /\ last \in Nat /\ pos <= last
    BY <1>2 DEF Slots
  <1>4. heap_[last] \in Elements /\ heap_[last] \in members /\ handle[heap_[last]] = last
    BY Zenon, <1>3, KeysAreIntegers DEF IInv, Placement
  <1>5. /\ heap_' \in [Slots -> Elements \cup {NoElement}]
        /\ heap_'[pos] = NoElement /\ heap_'[last] = NoElement
        /\ \A i \in Slots \ {pos, last} : heap_'[i] = heap_[i]
    BY Zenon, <1>1, <1>3 DEF IInv, TypeOK
  <1>6. /\ handle' \in [Elements -> Indices]
        /\ handle'[heap_[pos]] = kInvalidIndex /\ handle'[heap_[last]] = kInvalidIndex
        /\ \A x \in Elements \ {heap_[pos], heap_[last]} : handle'[x] = handle[x]
    BY Zenon, <1>1, <1>2, <1>4 DEF IInv, TypeOK, Indices
  <1>7. members' \subseteq members /\ members \subseteq Elements /\ call = Idle
    BY Zenon, <1>1, <1>2 DEF IInv, TypeOK, Busy
  <1>8. Filled' = Filled \ {pos, last}
    <2>1. CASE pos = last
      <3>1. ~Busy' /\ Count' = last
        BY <1>1, <1>7, <2>1, SMTT(40) DEF Busy, Count, Idle
      <3> QED BY <1>2, <1>3, <2>1, <3>1 DEF Filled, Slots
    <2>2. CASE pos # last
      <3>1. call'.hole = pos /\ call'.at = "down" /\ call'.leaf = TRUE /\ size_' = size_
        BY <1>1, <2>2 DEF Begin
      <3>2. Busy' /\ Count' = last
        BY <3>1 DEF Busy, Count, Idle
      <3> QED BY <1>2, <1>3, <3>1, <3>2 DEF Filled, Slots
    <2> QED BY Zenon, <2>1, <2>2
  <1>9. \A i \in Slots : heap_'[i] # NoElement <=> i \in Filled'
    BY Zenon, <1>5, <1>8 DEF IInv, Placement
  <1>10. ASSUME NEW i \in Filled'
        PROVE  handle'[heap_'[i]] = i /\ heap_'[i] \in members'
    <2>1. i \in Filled /\ i # pos /\ i # last /\ i \in Slots
      BY Zenon, <1>8 DEF Filled
    <2>2. heap_'[i] = heap_[i] /\ handle[heap_[i]] = i /\ heap_[i] \in members
      BY Zenon, <1>5, <2>1 DEF IInv, Placement
    <2> QED BY <1>1, <1>2, <1>4, <1>6, <1>7, <2>1, <2>2
  <1>11. ASSUME NEW x \in Elements, handle'[x] # kInvalidIndex
        PROVE  handle'[x] \in Filled' /\ heap_'[handle'[x]] = x
    <2>1. x # heap_[pos] /\ x # heap_[last] /\ handle'[x] = handle[x]
      BY Zenon, <1>6, <1>11
    <2>2. handle[x] \in Filled /\ heap_[handle[x]] = x
      BY Zenon, <1>11, <2>1 DEF IInv, Placement
    <2>3. handle[x] # pos /\ handle[x] # last /\ handle[x] \in Slots
      BY Zenon, <2>1, <2>2 DEF Filled
    <2> QED BY Zenon, <1>5, <1>8, <2>1, <2>2, <2>3
  <1>12. CASE pos = last
    <2>1. call' = Idle /\ call'.at = "idle" /\ call'.leaf = FALSE /\ size_' = last
          /\ moves' = moves
      BY <1>1, <1>7, <1>12, SMTT(40) DEF Idle
    <2>2. ~Busy' /\ Count' = last /\ Gap' = -1
      BY Zenon, <1>1, <2>1 DEF Busy, Count, Gap, kInvalidIndex
    <2>4. call' \in [at : Points, hole : Indices, element : Elements \cup {NoElement},
                      leaf : BOOLEAN] /\ moves' \in Nat
      BY Zenon, <1>1, <1>12, <2>1 DEF IInv, TypeOK
    <2>5. CallInv'
      BY Zenon, <1>1, <2>1 DEF CallInv
    <2>6. ASSUME NEW i \in 1..(Count' - 1)
          PROVE  key'[heap_'[i]] <= key'[heap_'[ParentIndex(i)]]
      <3>1. /\ i \in 1..(size_ - 1) /\ i # pos /\ ParentIndex(i) # pos /\ i \in Slots
            /\ ParentIndex(i) \in Slots
        <4>1. i \in Nat /\ i > 0 /\ i < last
          BY <1>3, <2>2
        <4>2. ParentIndex(i) \in Nat /\ ParentIndex(i) < i
          BY Zenon, <4>1, Children
        <4> QED BY <1>2, <1>3, <1>12, <4>1, <4>2 DEF Slots
      <3>2. Below(i, ParentIndex(i))
        BY Zenon, <1>1, <3>1, Loosened
      <3>3. heap_'[i] = heap_[i] /\ heap_'[ParentIndex(i)] = heap_[ParentIndex(i)]
        BY <1>5, <1>12, <3>1, ZenonT(40)
      <3> QED BY Zenon, <1>1, <3>2, <3>3 DEF Below
    <2>7. OrderAround'
      <3>1. \A i \in 1..(Count' - 1) : ParentIndex(i) # Gap'
        BY <1>2, <1>3, <2>2, Children
      <3>2. ~(Gap' > 0) /\ call'.at = "idle"
        BY <2>1, <2>2
      <3> QED BY Zenon, <2>6, <3>1, <3>2 DEF OrderAround, Below
    <2>8. size_' \in 0..MaxSize
      BY <1>2, <1>3, <2>1
    <2>9. Placement'
      <3>4. ASSUME NEW x \in members' PROVE handle'[x] # kInvalidIndex
        <4>1. x \in members /\ x # heap_[pos] /\ x \in Elements /\ x # heap_[last]
          BY Zenon, <1>1, <1>7, <1>12
        <4>2. handle[x] # kInvalidIndex
          BY Zenon, <1>2, <4>1 DEF IInv, Placement
        <4> QED BY Zenon, <1>6, <4>1, <4>2
      <3> QED BY Zenon, <1>9, <1>10, <1>11, <2>2, <3>4 DEF Placement
    <2>10. TypeOK'
      BY Zenon, <1>1, <1>5, <1>6, <1>7, <2>4, <2>8 DEF IInv, TypeOK
    <2> QED BY Zenon, <2>5, <2>7, <2>9, <2>10 DEF IInv
  <1>13. CASE pos # last
    <2>1. /\ call'.at = "down" /\ call'.hole = pos /\ call'.element = heap_[last]
          /\ call'.leaf = TRUE /\ size_' = size_ /\ moves' \in Nat
          /\ call' \in [at : Points, hole : Indices, element : Elements \cup {NoElement},
                         leaf : BOOLEAN]
      <3>1. /\ call' = [at |-> "down", hole |-> pos, element |-> heap_[last], leaf |-> TRUE]
            /\ moves' = 0 /\ size_' = size_
        BY Zenon, <1>1, <1>13 DEF Begin
      <3>2. heap_[last] \in Elements \cup {NoElement} /\ pos \in Indices
        BY Zenon, <1>4 DEF Indices
      <3> QED BY Zenon, <3>1, <3>2 DEF Points
    <2>2. Busy' /\ Count' = last /\ Gap' = pos
      <3>1. Busy'
        BY <2>1 DEF Busy, Idle
      <3> QED BY Zenon, <2>1, <3>1 DEF Count, Gap
    <2>4. CallInv'
      BY SMTT(40), <1>1, <1>2, <1>3, <1>13, <2>1, <2>2 DEF CallInv
    <2>5. ASSUME NEW i \in 1..(Count' - 1)
          PROVE  /\ i \in 1..(size_ - 1) /\ i \in Slots \ {last} /\ i \in Nat
                 /\ ParentIndex(i) \in Slots \ {last} /\ ParentIndex(i) < i
      BY SMTT(40), <1>2, <1>3, <2>2, Children DEF Slots
    <2>6. ASSUME NEW i \in 1..(Count' - 1), i # pos, ParentIndex(i) # pos
          PROVE  key'[heap_'[i]] <= key'[heap_'[ParentIndex(i)]]
      <3>1. Below(i, ParentIndex(i))
        BY Zenon, <1>1, <2>5, <2>6, Loosened
      <3>2. heap_'[i] = heap_[i] /\ heap_'[ParentIndex(i)] = heap_[ParentIndex(i)]
        BY Zenon, <1>5, <2>5, <2>6
      <3> QED BY Zenon, <1>1, <3>1, <3>2 DEF Below
    <2>7. ASSUME NEW i \in 1..(Count' - 1), ParentIndex(i) = pos, pos > 0
          PROVE  key'[heap_'[i]] <= key'[heap_'[ParentIndex(pos)]]
      <3>1. Below(i, ParentIndex(pos))
        BY Zenon, <1>1, <2>5, <2>7, Loosened
      <3>2. ParentIndex(pos) \in Slots \ {pos, last} /\ i # pos
        BY SMTT(40), <1>2, <1>3, <2>5, <2>7, Children DEF Slots
      <3>3. heap_'[i] = heap_[i] /\ heap_'[ParentIndex(pos)] = heap_[ParentIndex(pos)]
        BY Zenon, <1>5, <2>5, <3>2
      <3> QED BY Zenon, <1>1, <3>1, <3>3 DEF Below
    <2>8. OrderAround'
      BY Zenon, <2>1, <2>2, <2>6, <2>7 DEF OrderAround, Below
    <2>9. Placement'
      <3>4. ASSUME NEW x \in members', x # heap_[last] PROVE handle'[x] # kInvalidIndex
        <4>1. x \in members /\ x # heap_[pos] /\ x \in Elements
          BY Zenon, <1>1, <1>7
        <4>2. handle[x] # kInvalidIndex
          BY Zenon, <1>2, <4>1 DEF IInv, Placement
        <4> QED BY Zenon, <1>6, <3>4, <4>1, <4>2
      <3>5. heap_[last] \in members'
        BY Zenon, <1>1, <1>2, <1>4, <1>13
      <3> QED BY Zenon, <1>6, <1>9, <1>10, <1>11, <2>1, <2>2, <3>4, <3>5 DEF Placement
    <2>10. TypeOK'
      BY Zenon, <1>1, <1>2, <1>5, <1>6, <1>7, <2>1 DEF IInv, TypeOK
    <2> QED BY Zenon, <2>4, <2>8, <2>9, <2>10 DEF IInv
  <1> QED BY Zenon, <1>12, <1>13

\* insert: the hole is the slot behind the last.
LEMMA InsertStep ==
    ASSUME IInv, NEW e \in Elements, NEW k \in Keys, insert(e, k)
    PROVE  IInv'
  <1>1. /\ call = Idle /\ dirty = NoElement /\ e \notin members /\ size_ < MaxSize
        /\ key' = [key EXCEPT ![e] = k] /\ members' = members \cup {e}
        /\ call' = [at |-> "up", hole |-> size_, element |-> e, leaf |-> FALSE]
        /\ moves' = 0 /\ UNCHANGED <<heap_, size_, handle, dirty>>
    BY Zenon DEF insert, Clean, Begin
  <1>2. ~Busy /\ Count = size_ /\ Gap = -1
    BY Zenon, <1>1, BusyAt DEF Busy, Gap, kInvalidIndex
  <1>3. size_ \in Nat /\ MaxSize \in Nat /\ size_ \in Slots
    BY <1>1, HeapAssumption DEF IInv, TypeOK, Slots
  <1>4. /\ call'.at = "up" /\ call'.hole = size_ /\ call'.element = e
        /\ call'.leaf = FALSE /\ Busy' /\ Count' = size_ /\ Gap' = size_
    <2>1. call'.at = "up" /\ call'.hole = size_ /\ call'.element = e /\ call'.leaf = FALSE
      BY Zenon, <1>1
    <2>2. Busy'
      BY <2>1 DEF Busy, Idle
    <2> QED BY Zenon, <1>1, <2>1, <2>2 DEF Count, Gap
  <1>5. Filled' = Filled
    BY <1>2, <1>3, <1>4 DEF Filled, Slots
  <1>6. handle[e] = kInvalidIndex
    <2>1. handle[e] # kInvalidIndex => handle[e] \in Filled /\ heap_[handle[e]] = e
      BY Zenon DEF IInv, Placement
    <2>2. handle[e] # kInvalidIndex => e \in members
      BY Zenon, <2>1 DEF IInv, Placement
    <2> QED BY Zenon, <1>1, <2>2
  <1>7. key' \in [Elements -> Keys] /\ \A x \in Elements \ {e} : key'[x] = key[x]
    BY Zenon, <1>1 DEF IInv, TypeOK
  <1>8. TypeOK'
    <2>1. call' \in [at : Points, hole : Indices, element : Elements \cup {NoElement},
                     leaf : BOOLEAN]
      BY Zenon, <1>1, <1>3 DEF Points, Indices
    <2> QED BY Zenon, <1>1, <1>7, <2>1 DEF IInv, TypeOK
  <1>9. CallInv'
    BY <1>1, <1>3, <1>4, SMTT(40) DEF CallInv
  <1>10. Placement'
    BY Zenon, <1>1, <1>2, <1>4, <1>5, <1>6 DEF IInv, Placement
  <1>11. ASSUME NEW i \in 1..(size_ - 1)
         PROVE  /\ key'[heap_'[i]] <= key'[heap_'[ParentIndex(i)]]
                /\ ParentIndex(i) # size_
    <2>1. /\ i \in Nat /\ ParentIndex(i) \in Nat /\ ParentIndex(i) < i
          /\ i \in Slots /\ ParentIndex(i) \in Slots
          /\ i < size_ /\ ParentIndex(i) < size_
      BY <1>3, Children DEF Slots
    <2>2. i \in Filled /\ ParentIndex(i) \in Filled
      BY Zenon, <1>2, <2>1 DEF Filled
    <2>3. Below(i, ParentIndex(i))
      BY <1>2, <2>1, SMTT(40) DEF IInv, OrderAround
    <2>4. heap_[i] \in Elements \ {e} /\ heap_[ParentIndex(i)] \in Elements \ {e}
      <3>1. heap_[i] \in members /\ heap_[ParentIndex(i)] \in members
        <4>1. \A j \in Filled : heap_[j] \in members
          BY Zenon DEF IInv, Placement
        <4> QED BY <2>2, <4>1, Zenon
      <3>2. members \subseteq Elements
        BY Zenon DEF IInv, TypeOK
      <3> QED BY <1>1, <3>1, <3>2, Zenon
    <2> QED BY SMTT(40), <1>1, <1>3, <1>7, <2>1, <2>3, <2>4 DEF Below
  <1>12. OrderAround'
    BY Zenon, <1>4, <1>11 DEF OrderAround, Below
  <1> QED BY Zenon, <1>8, <1>9, <1>10, <1>12 DEF IInv

\* An empty vector with invalid handles.
LEMMA EmptyIsFine ==
    ASSUME heap_ = [i \in Slots |-> NoElement], size_ = 0,
           handle = [e \in Elements |-> kInvalidIndex], key \in [Elements -> Keys],
           call = Idle, dirty = NoElement, members = {}, moves \in Nat
    PROVE  IInv
  <1>1. ~Busy /\ Count = 0 /\ Gap = -1 /\ call.at = "idle" /\ call.leaf = FALSE
    BY Zenon DEF Busy, Count, Gap, Idle, kInvalidIndex
  <1>2. Filled = {}
    BY <1>1, HeapAssumption DEF Filled, Slots
  <1>3. TypeOK
    <2>1. call \in [at : Points, hole : Indices, element : Elements \cup {NoElement},
                    leaf : BOOLEAN]
      BY Zenon DEF Idle, Points, Indices
    <2>2. size_ \in 0..MaxSize
      BY HeapAssumption
    <2> QED BY Zenon, <2>1, <2>2 DEF TypeOK, Indices
  <1>4. CallInv
    BY Zenon, <1>1 DEF CallInv
  <1>5. Placement
    BY Zenon, <1>1, <1>2 DEF Placement
  <1>6. OrderAround
    BY SMTT(40), <1>1 DEF OrderAround
  <1> QED BY Zenon, <1>3, <1>4, <1>5, <1>6 DEF IInv

LEMMA ClearStep ==
    ASSUME IInv, clear
    PROVE  IInv'
  <1>1. /\ heap_' = [i \in Slots |-> NoElement] /\ size_' = 0
        /\ handle' = [e \in Elements |-> kInvalidIndex] /\ key' \in [Elements -> Keys]
        /\ call' = Idle /\ dirty' = NoElement /\ members' = {} /\ moves' \in Nat
    BY Zenon DEF clear, IInv, TypeOK
  <1>2. ~Busy' /\ Count' = 0 /\ Gap' = -1 /\ call'.at = "idle" /\ call'.leaf = FALSE
    BY Zenon, <1>1 DEF Busy, Count, Gap, Idle, kInvalidIndex
  <1>3. Filled' = {}
    BY <1>2, HeapAssumption DEF Filled, Slots
  <1>4. TypeOK'
    <2>1. call' \in [at : Points, hole : Indices, element : Elements \cup {NoElement},
                     leaf : BOOLEAN]
      BY Zenon, <1>1 DEF Idle, Points, Indices
    <2>2. size_' \in 0..MaxSize
      BY <1>1, HeapAssumption
    <2> QED BY Zenon, <1>1, <2>1, <2>2 DEF TypeOK, Indices
  <1>5. CallInv'
    BY Zenon, <1>1, <1>2 DEF CallInv
  <1>6. Placement'
    BY Zenon, <1>1, <1>2, <1>3 DEF Placement
  <1>7. OrderAround'
    BY <1>2 DEF OrderAround
  <1> QED BY Zenon, <1>4, <1>5, <1>6, <1>7 DEF IInv

\* The elements that are left fit in the slots: their handles are distinct slots.
LEMMA MembersFit ==
    ASSUME IInv, call = Idle, NEW S \in SUBSET members
    PROVE  Cardinality(S) \in Nat /\ Cardinality(S) <= MaxSize
  <1> DEFINE f == [e \in S |-> handle[e]]
  <1>1. \A e \in S : handle[e] \in Slots /\ heap_[handle[e]] = e
    BY Zenon DEF IInv, TypeOK, Placement, Busy, Filled
  <1>2. f \in Injection(S, Slots)
    BY Zenon, <1>1 DEF Injection, IsInjective
  <1>3. IsFiniteSet(Slots) /\ Cardinality(Slots) = MaxSize /\ MaxSize \in Nat
    <2>1. 0 \in Int /\ MaxSize - 1 \in Int /\ MaxSize \in Nat
      BY HeapAssumption
    <2>2. /\ IsFiniteSet(0..(MaxSize - 1))
          /\ Cardinality(0..(MaxSize - 1)) =
                IF 0 > MaxSize - 1 THEN 0 ELSE (MaxSize - 1) - 0 + 1
      BY Zenon, <2>1, FS_Interval
    <2> QED BY <2>1, <2>2 DEF Slots
  <1> HIDE DEF f
  <1>4. IsFiniteSet(S) /\ Cardinality(S) <= Cardinality(Slots)
    BY Zenon, <1>2, <1>3, FS_Injection
  <1> QED BY Zenon, <1>3, <1>4, FS_CardinalityType

LEMMA EraseIfStep ==
    ASSUME IInv, NEW S \in SUBSET members, EraseIf(S)
    PROVE  IInv'
  <1>1. /\ call = Idle /\ dirty' = NoElement /\ members' = members \ S
        /\ size_' = Cardinality(members') /\ UNCHANGED <<key, call, moves>>
    BY Zenon DEF EraseIf
  <1>2. PICK n \in Nat : size_' = n /\ n = Cardinality(members') /\ n <= MaxSize
    <2>1. members' \in SUBSET members
      BY Zenon, <1>1
    <2> QED BY Zenon, <1>1, <2>1, MembersFit
  <1> DEFINE Places == 0..(n - 1)
  <1>3. PICK h \in Arrangements(members') :
          /\ heap_' = [i \in Slots |-> IF i < size_' THEN h[i] ELSE NoElement]
          /\ handle' = [e \in Elements |->
               IF e \in members' THEN CHOOSE i \in 0..(size_' - 1) : h[i] = e
               ELSE kInvalidIndex]
    BY Zenon DEF EraseIf
  <1>4. /\ h \in [Places -> members']
        /\ \A e \in members' : \E i \in Places : h[i] = e
        /\ \A i, j \in Places : h[i] = h[j] => i = j
        /\ \A i \in Places \ {0} : key[h[i]] <= key[h[ParentIndex(i)]]
    BY Zenon, <1>2, <1>3 DEF Arrangements
  <1>5. members' \subseteq Elements /\ Places \subseteq Slots /\ NoElement \notin Elements
    BY <1>1, <1>2, HeapAssumption DEF IInv, TypeOK, Slots
  <1>6. /\ \A i \in Places : heap_'[i] = h[i]
        /\ \A i \in Slots \ Places : heap_'[i] = NoElement
        /\ heap_' \in [Slots -> Elements \cup {NoElement}]
    <2>1. ASSUME NEW i \in Slots PROVE i < n <=> i \in Places
      <3>1. i \in Nat
        BY HeapAssumption DEF Slots
      <3> QED BY <1>2, <3>1
    <2> QED BY Zenon, <1>2, <1>3, <1>4, <1>5, <2>1
  <1>7. ASSUME NEW e \in members'
        PROVE  handle'[e] \in Places /\ h[handle'[e]] = e
    BY Zenon, <1>2, <1>3, <1>4, <1>5
  <1>8. \A e \in Elements \ members' : handle'[e] = kInvalidIndex
    BY Zenon, <1>3
  <1>9. handle' \in [Elements -> Indices]
    <2>1. \A e \in Elements : handle'[e] \in Indices
      BY Zenon, <1>5, <1>7, <1>8 DEF Indices
    <2>2. handle' = [e \in Elements |-> handle'[e]]
      BY <1>3
    <2> QED BY Zenon, <2>1, <2>2
  <1>10. /\ ~Busy' /\ Count' = n /\ Gap' = -1 /\ Filled' = Places
         /\ call' = Idle /\ call'.at = "idle" /\ call'.leaf = FALSE
    <2>1. call' = Idle /\ call'.at = "idle" /\ call'.leaf = FALSE
      BY Zenon, <1>1 DEF Idle
    <2>2. ~Busy' /\ Count' = n /\ Gap' = -1
      BY Zenon, <1>1, <1>2, <2>1 DEF Busy, Count, Gap, kInvalidIndex
    <2>3. Filled' = Places
      BY <1>2, <2>2, HeapAssumption DEF Filled, Slots
    <2> QED BY Zenon, <2>1, <2>2, <2>3
  <1>11. TypeOK'
    <2>1. size_' \in 0..MaxSize
      BY <1>2, HeapAssumption
    <2> QED BY Zenon, <1>1, <1>5, <1>6, <1>9, <2>1 DEF IInv, TypeOK
  <1>12. CallInv'
    BY Zenon, <1>1, <1>10 DEF CallInv
  <1>13. Placement'
    <2>1. \A i \in Slots : heap_'[i] # NoElement <=> i \in Filled'
      BY Zenon, <1>4, <1>5, <1>6, <1>10
    <2>2. ASSUME NEW i \in Filled'
          PROVE  handle'[heap_'[i]] = i /\ heap_'[i] \in members'
      <3>1. i \in Places /\ heap_'[i] = h[i] /\ h[i] \in members'
        BY Zenon, <1>4, <1>6, <1>10
      <3> QED BY SMTT(40), <1>4, <1>7, <3>1
    <2>3. ASSUME NEW e \in Elements, handle'[e] # kInvalidIndex
          PROVE  handle'[e] \in Filled' /\ heap_'[handle'[e]] = e
      BY Zenon, <1>6, <1>7, <1>8, <1>10, <2>3
    <2>4. \A e \in members' : handle'[e] # kInvalidIndex
      BY <1>2, <1>7 DEF kInvalidIndex
    <2> QED BY Zenon, <1>10, <2>1, <2>2, <2>3, <2>4 DEF Placement
  <1>14. ASSUME NEW i \in 1..(n - 1)
         PROVE  /\ key'[heap_'[i]] <= key'[heap_'[ParentIndex(i)]]
                /\ ParentIndex(i) # -1
    <2>1. i \in Nat /\ i > 0 /\ i <= n - 1
      BY <1>2
    <2>2. ParentIndex(i) \in Nat /\ ParentIndex(i) < i
      BY Zenon, <2>1, Children
    <2>3. i \in Places \ {0} /\ ParentIndex(i) \in Places /\ ParentIndex(i) # -1
      BY <1>2, <2>1, <2>2
    <2> QED BY Zenon, <1>1, <1>4, <1>6, <2>3
  <1>15. OrderAround'
    BY Zenon, <1>10, <1>14 DEF OrderAround, Below
  <1> QED BY Zenon, <1>11, <1>12, <1>13, <1>15 DEF IInv
-----------------------------------------------------------------------------
(* The theorems                                                            *)

LEMMA InitEstablishes == Init => IInv
  BY EmptyIsFine DEF Init

LEMMA StutterKeeps ==
    ASSUME IInv, UNCHANGED vars
    PROVE  IInv'
  <1>1. TypeOK' /\ CallInv'
    BY Zenon DEF vars, IInv, TypeOK, CallInv, Count
  <1>2. Placement'
    BY ZenonT(40) DEF vars, IInv, Placement, Filled, Busy, Count
  <1>3. Count' = Count /\ Gap' = Gap
    BY Zenon DEF vars, Count, Gap, Busy
  <1>4. OrderAround'
    BY Zenon, <1>3 DEF vars, IInv, OrderAround, Below
  <1> QED BY Zenon, <1>1, <1>2, <1>4 DEF IInv

LEMMA StepKeeps ==
    ASSUME IInv, [Next]_vars
    PROVE  IInv'
  <1>1. ASSUME NEW e \in Elements, NEW k \in Keys, insert(e, k) PROVE IInv'
    BY Zenon, <1>1, InsertStep
  <1>2. ASSUME NEW e \in Elements, NEW k \in Keys, ReplaceTop(e, k) PROVE IInv'
    BY Zenon, <1>2, ReplaceTopStep
  <1>3. ASSUME NEW pos \in Slots, erase(pos) PROVE IInv'
    BY Zenon, <1>3, EraseStep
  <1>4. ASSUME NEW pos \in Slots, Update(pos) PROVE IInv'
    BY Zenon, <1>4, UpdateStep
  <1>5. ASSUME NEW pos \in Slots, NEW k \in Keys, Change(pos, k) PROVE IInv'
    BY Zenon, <1>5, ChangeStep
  <1>6. ASSUME NEW pos \in Slots, NEW k \in Keys, NEW e \in Elements, Replace(pos, e, k)
        PROVE  IInv'
    BY Zenon, <1>6, ReplaceStep
  <1>7. CASE clear
    BY Zenon, <1>7, ClearStep
  <1>8. ASSUME NEW S \in SUBSET members, EraseIf(S) PROVE IInv'
    BY ZenonT(40), <1>8, EraseIfStep
  <1>9. CASE MoveHoleUp
    BY Zenon, <1>9, UpStep
  <1>10. CASE FillAbove
    BY Zenon, <1>10, FillAboveStep
  <1>11. CASE MoveHoleDown
    BY Zenon, <1>11, DownStep
  <1>12. CASE FillBelow
    BY Zenon, <1>12, FillBelowStep
  <1>13. CASE LeafTurns
    BY Zenon, <1>13, LeafTurnsStep
  <1>14. CASE UNCHANGED vars
    BY Zenon, <1>14, StutterKeeps
  <1> QED BY ZenonT(40), <1>1, <1>2, <1>3, <1>4, <1>5, <1>6, <1>7, <1>8, <1>9, <1>10, <1>11, <1>12,
             <1>13, <1>14 DEF Next

\* The invariant of the heap: in every state the vector is filled but for the
\* hole, handles and slots agree, and the tree is ordered around the gap.
THEOREM Invariance == Spec => []IInv
  BY InitEstablishes, StepKeeps, PTL DEF Spec

\* The variables keep their types; no operation writes outside the vector or
\* makes it larger than MaxSize.
THEOREM TypeCorrect == Spec => []TypeOK
  <1>1. IInv => TypeOK
    BY Zenon DEF IInv
  <1> QED BY <1>1, Invariance, PTL

\* Whatever sequence of insert, erase, Replace, Update, EraseIf and clear the
\* client makes, the heap is ordered when none is under way.
THEOREM OrderKept == Spec => []HeapOrdered
  <1>1. ASSUME IInv, Clean, NEW i \in 1..(size_ - 1)
        PROVE  key[heap_[i]] <= key[heap_[ParentIndex(i)]]
    <2>0. size_ \in Nat
      BY <1>1, HeapAssumption DEF IInv, TypeOK
    <2>1. Count = size_ /\ Gap = -1
      BY Zenon, <1>1, BusyAt DEF Clean, Busy, Gap, kInvalidIndex
    <2>2. i \in Nat /\ ParentIndex(i) \in Nat
      BY <2>0, Children
    <2> QED BY SMTT(40), <1>1, <2>1, <2>2 DEF IInv, OrderAround, Below
  <1>2. IInv => HeapOrdered
    BY Zenon, <1>1 DEF HeapOrdered
  <1> QED BY <1>2, Invariance, PTL

\* HeapHandle::index() of an element in the heap is its slot at every step of an
\* operation, but for the element in the operation's hands, and an element that
\* left the heap has an invalid handle.
THEOREM HandlesAreExact == Spec => []HandlesFollow
  <1>1. ASSUME IInv PROVE HandlesFollow
    <2>0. size_ \in Nat /\ size_ <= MaxSize /\ MaxSize \in Nat /\ members \subseteq Elements
      BY <1>1, HeapAssumption DEF IInv, TypeOK
    <2>1. Count \in Int /\ Count <= size_ /\ (~Busy => Count = size_)
      BY Zenon, <1>1, BusyAt
    <2>2. \A i \in Filled : i \in 0..(size_ - 1)
      BY <2>0, <2>1 DEF Filled, Slots
    <2>3. ASSUME NEW e \in members
          PROVE  \/ call.element = e /\ handle[e] = kInvalidIndex
                 \/ handle[e] \in 0..(size_ - 1) /\ heap_[handle[e]] = e
      BY Zenon, <1>1, <2>0, <2>2 DEF IInv, Placement
    <2>4. \A e \in Elements \ members : handle[e] = kInvalidIndex
      BY <1>1 DEF IInv, Placement
    <2>5. ASSUME call = Idle, NEW i \in 0..(size_ - 1) PROVE heap_[i] \in members
      <3>1. Count = size_ /\ i \in Slots /\ i < size_
        BY <2>0, <2>1, <2>5 DEF Busy, Slots
      <3>2. i \in Filled
        BY Zenon, <2>5, <3>1 DEF Filled, Busy
      <3> QED BY Zenon, <1>1, <3>2 DEF IInv, Placement
    <2> QED BY Zenon, <2>3, <2>4, <2>5 DEF HandlesFollow
  <1> QED BY <1>1, Invariance, PTL
-----------------------------------------------------------------------------
(* The number of moves                                                     *)

\* Induction on the natural numbers, over the set of those that are as claimed.
LEMMA InductionOnSet ==
    ASSUME NEW S, 0 \in S, \A n \in Nat : n \in S => n + 1 \in S
    PROVE  \A n \in Nat : n \in S
  <1> DEFINE Rest == {n \in Nat : n \notin S}
             R == OpToRel(<, Nat)
  <1> SUFFICES ASSUME Rest # {} PROVE FALSE
    BY Zenon
  <1>1. PICK x \in Rest : \A y \in Rest : <<y, x>> \notin R
    <2>1. IsWellFoundedOn(R, Nat) /\ Rest \subseteq Nat
      BY Zenon, NatLessThanWellFounded
    <2> HIDE DEF Rest, R
    <2> QED BY Zenon, <2>1, WFMin
  <1>2. x \in Nat /\ x # 0
    BY Zenon
  <1>3. x - 1 \in Nat /\ x - 1 < x /\ x - 1 + 1 = x
    BY <1>2
  <1>4. x - 1 \in Rest /\ <<x - 1, x>> \in R
    BY <1>2, <1>3 DEF OpToRel
  <1> QED BY Zenon, <1>1, <1>4

\* f doubles n times from 1.
Doubles(f, n) == f[0] = 1 /\ \A k \in Nat : k < n => f[k + 1] = 2 * f[k]

\* PowerOfTwo satisfies its recursive definition: for every n some function
\* doubles n times, and all that do agree at n.
LEMMA PowersOfTwo ==
    /\ PowerOfTwo[0] = 1
    /\ \A n \in Nat : PowerOfTwo[n + 1] = 2 * PowerOfTwo[n]
  <1> DEFINE S == {n \in Nat : \E f \in [Nat -> Nat] : Doubles(f, n)}
  <1>1. 0 \in S
    <2>1. [n \in Nat |-> 1] \in [Nat -> Nat] /\ Doubles([n \in Nat |-> 1], 0)
      BY DEF Doubles
    <2> QED BY Zenon, <2>1
  <1>2. \A n \in Nat : n \in S => n + 1 \in S
    <2> SUFFICES ASSUME NEW n \in Nat, NEW f \in [Nat -> Nat], Doubles(f, n)
                 PROVE  \E g \in [Nat -> Nat] : Doubles(g, n + 1)
      OBVIOUS
    <2> DEFINE g == [k \in Nat |-> IF k = n + 1 THEN 2 * f[n] ELSE f[k]]
    <2>1. g \in [Nat -> Nat]
      OBVIOUS
    <2>2. Doubles(g, n + 1)
      BY DEF Doubles
    <2> QED BY Zenon, <2>1, <2>2
  <1>3. \A n \in Nat : \E f \in [Nat -> Nat] : Doubles(f, n)
    <2>1. \A n \in Nat : n \in S
      <3> HIDE DEF S
      <3> QED BY Zenon, <1>1, <1>2, InductionOnSet
    <2> QED BY Zenon, <2>1
  <1>4. ASSUME NEW n \in Nat, NEW f \in [Nat -> Nat], NEW g \in [Nat -> Nat],
               Doubles(f, n), Doubles(g, n)
        PROVE  f[n] = g[n]
    <2> DEFINE Same == {k \in Nat : k <= n => f[k] = g[k]}
    <2>1. 0 \in Same /\ \A k \in Nat : k \in Same => k + 1 \in Same
      BY <1>4 DEF Doubles
    <2>2. \A k \in Nat : k \in Same
      <3> HIDE DEF Same
      <3> QED BY Zenon, <2>1, InductionOnSet
    <2> QED BY <2>2
  <1> DEFINE F(n) == CHOOSE f \in [Nat -> Nat] : Doubles(f, n)
             h == [n \in Nat |-> F(n)[n]]
  <1>5. \A n \in Nat : F(n) \in [Nat -> Nat] /\ Doubles(F(n), n)
    BY Zenon, <1>3
  <1> HIDE DEF F
  <1>6. h[0] = 1
    BY <1>5 DEF Doubles
  <1>7. ASSUME NEW n \in Nat PROVE h[n + 1] = 2 * h[n]
    <2>1. F(n + 1)[n + 1] = 2 * F(n + 1)[n] /\ Doubles(F(n + 1), n)
      BY <1>5 DEF Doubles
    <2>2. F(n + 1)[n] = F(n)[n]
      <3>1. /\ F(n + 1) \in [Nat -> Nat] /\ F(n) \in [Nat -> Nat]
            /\ Doubles(F(n), n)
        BY <1>5
      <3> QED BY Zenon, <1>4, <2>1, <3>1
    <2> QED BY <2>1, <2>2
  <1>8. h = [n \in Nat |-> IF n = 0 THEN 1 ELSE 2 * h[n - 1]]
    <2> HIDE DEF h
    <2>1. ASSUME NEW n \in Nat PROVE h[n] = IF n = 0 THEN 1 ELSE 2 * h[n - 1]
      <3>1. CASE n = 0
        BY <1>6, <3>1
      <3>2. CASE n # 0
        <4>1. n - 1 \in Nat /\ (n - 1) + 1 = n
          BY <3>2
        <4>2. h[(n - 1) + 1] = 2 * h[n - 1]
          BY Zenon, <1>7, <4>1
        <4> QED BY Zenon, <3>2, <4>1, <4>2
      <3> QED BY Zenon, <3>1, <3>2
    <2>2. h = [n \in Nat |-> h[n]]
      BY Zenon DEF h
    <2> QED BY Zenon, <2>1, <2>2
  <1>9. PowerOfTwo = [n \in Nat |-> IF n = 0 THEN 1 ELSE 2 * PowerOfTwo[n - 1]]
    <2> HIDE DEF h
    <2> QED BY Zenon, <1>8 DEF PowerOfTwo
  <1>10. \A n \in Nat : PowerOfTwo[n] = IF n = 0 THEN 1 ELSE 2 * PowerOfTwo[n - 1]
    BY Zenon, <1>9
  <1> QED BY <1>10

LEMMA PowersGrow ==
    /\ \A n \in Nat : PowerOfTwo[n] \in Nat /\ PowerOfTwo[n] >= 1
    /\ \A m, n \in Nat : m <= n => PowerOfTwo[m] <= PowerOfTwo[n]
  <1> DEFINE S == {n \in Nat : PowerOfTwo[n] \in Nat /\ PowerOfTwo[n] >= 1}
  <1>1. 0 \in S /\ \A n \in Nat : n \in S => n + 1 \in S
    BY PowersOfTwo
  <1>2. \A n \in Nat : n \in S
    <2> HIDE DEF S
    <2> QED BY Zenon, <1>1, InductionOnSet
  <1>3. \A n \in Nat : PowerOfTwo[n] \in Nat /\ PowerOfTwo[n] >= 1
    BY Zenon, <1>2
  <1>4. ASSUME NEW m \in Nat PROVE \A n \in Nat : m <= n => PowerOfTwo[m] <= PowerOfTwo[n]
    <2> DEFINE M == {n \in Nat : m <= n => PowerOfTwo[m] <= PowerOfTwo[n]}
    <2>1. 0 \in M
      BY <1>3
    <2>2. ASSUME NEW n \in Nat, n \in M PROVE n + 1 \in M
      <3>1. PowerOfTwo[n + 1] = 2 * PowerOfTwo[n] /\ PowerOfTwo[n] \in Nat /\ PowerOfTwo[m] \in Nat
        BY Zenon, <1>3, PowersOfTwo
      <3>2. CASE m = n + 1
        BY <3>1, <3>2
      <3>3. CASE m # n + 1
        BY <2>2, <3>1, <3>3
      <3> QED BY Zenon, <3>2, <3>3
    <2>3. \A n \in Nat : n \in M
      <3> HIDE DEF M
      <3> QED BY Zenon, <2>1, <2>2, InductionOnSet
    <2> QED BY Zenon, <2>3
  <1> QED BY Zenon, <1>3, <1>4

\* On its way up the hole has left a number of levels below it; the moves before
\* those, down, went through no more than there are.
Climbing ==
    \E up \in 0..moves : /\ (call.hole + 1) * PowerOfTwo[up] <= size_
                         /\ PowerOfTwo[moves - up] <= size_

\* A move down at least doubles the hole's place in the vector, counted from 1,
\* and a move up at least halves it.
PathInv ==
    /\ call.at = "idle" => moves = 0
    /\ call.at = "down" => PowerOfTwo[moves] <= call.hole + 1
    /\ call.at = "up" /\ moves # 0 => Climbing

LEMMA UpPath ==
    ASSUME IInv, PathInv, MoveHoleUp
    PROVE  PathInv'
  <1> DEFINE h == call.hole
             p == ParentIndex(h)
  <1>1. /\ call.at = "up" /\ h # 0 /\ call' = [call EXCEPT !.hole = p]
        /\ size_' = SizeWith(h) /\ moves' = moves + 1
    BY Zenon DEF MoveHoleUp, Rises, MoveHole
  <1>2. call'.at = "up" /\ call'.hole = p
    BY <1>1 DEF IInv, TypeOK
  <1>3. h \in Nat /\ h > 0 /\ size_ \in Nat /\ moves \in Nat /\ h <= size_
    <2>1. Busy /\ h \in Slots /\ h <= Count /\ Count <= size_ /\ Count \in Int
      BY Zenon, <1>1, BusyAt
    <2> QED BY <1>1, <2>1 DEF IInv, TypeOK, Slots
  <1>4. p \in Nat /\ 2 * (p + 1) <= h + 1
    BY <1>3 DEF ParentIndex
  <1>5. size_' \in Nat /\ h + 1 <= size_' /\ size_ <= size_' /\ (h < size_ => size_' = size_)
    BY <1>1, <1>3 DEF SizeWith
  <1> HIDE DEF p, h
  <1>6. CASE moves = 0
    <2>1. (p + 1) * PowerOfTwo[1] <= size_' /\ PowerOfTwo[0] <= size_'
      <3>1. PowerOfTwo[0 + 1] = 2 * PowerOfTwo[0] /\ PowerOfTwo[0] = 1
        BY PowersOfTwo
      <3> QED BY SMTT(40), <1>3, <1>4, <1>5, <3>1
    <2>2. moves' = 1
      BY <1>1, <1>6
    <2>3. Climbing'
      BY SMTT(40), <1>2, <2>1, <2>2 DEF Climbing
    <2> QED BY Zenon, <1>2, <2>3 DEF PathInv
  <1>7. CASE moves # 0
    <2>1. PICK up \in 0..moves : (h + 1) * PowerOfTwo[up] <= size_ /\ PowerOfTwo[moves - up] <= size_
      BY Zenon, <1>1, <1>7 DEF PathInv, Climbing, h
    <2>2. /\ up \in Nat /\ PowerOfTwo[up] \in Nat /\ PowerOfTwo[up] >= 1
          /\ PowerOfTwo[up + 1] = 2 * PowerOfTwo[up]
      BY SMTT(40), <1>3, PowersOfTwo, PowersGrow
    <2> DEFINE q == PowerOfTwo[up]
    <2> HIDE DEF q
    <2>3. h + 1 <= (h + 1) * q /\ 2 * (p + 1) * q <= (h + 1) * q
      <3>1. q \in Nat /\ q >= 1
        BY Zenon, <2>2 DEF q
      <3> QED BY <1>3, <1>4, <3>1
    <2>4. size_' = size_
      BY SMTT(40), <1>3, <1>5, <2>1, <2>2, <2>3 DEF q
    <2>5. (p + 1) * PowerOfTwo[up + 1] <= size_'
      <3>1. (p + 1) * (2 * q) = 2 * (p + 1) * q /\ (h + 1) * q \in Int /\ 2 * (p + 1) * q \in Int
        BY <1>3, <1>4, <2>2 DEF q
      <3>2. (h + 1) * q <= size_ /\ PowerOfTwo[up + 1] = 2 * q
        BY Zenon, <2>1, <2>2 DEF q
      <3> QED BY SMTT(40), <1>3, <2>3, <2>4, <3>1, <3>2
    <2>6. up + 1 \in 0..moves' /\ moves' - (up + 1) = moves - up
      BY <1>1, <1>3
    <2>7. Climbing'
      BY Zenon, <1>2, <2>1, <2>4, <2>5, <2>6 DEF Climbing
    <2> QED BY Zenon, <1>2, <2>7 DEF PathInv
  <1> QED BY Zenon, <1>6, <1>7

LEMMA DownPath ==
    ASSUME IInv, PathInv, MoveHoleDown
    PROVE  PathInv'
  <1>1. /\ call.at = "down" /\ LeftIndex(call.hole) < Count /\ moves' = moves + 1
        /\ call' = [call EXCEPT !.hole = Largest]
    BY Zenon DEF MoveHoleDown, Sinks, MoveHole
  <1>2. call'.at = "down" /\ call'.hole = Largest
    BY <1>1 DEF IInv, TypeOK
  <1>3. /\ Largest \in 1..(Count - 1) /\ ParentIndex(Largest) = call.hole
        /\ call.hole \in Nat /\ Count \in Nat
    BY Zenon, <1>1, LargestChild, DownHole
  <1>4. Largest + 1 >= 2 * (call.hole + 1) /\ Largest \in Nat
    BY <1>3, Children
  <1>5. /\ moves \in Nat /\ PowerOfTwo[moves] \in Nat
        /\ PowerOfTwo[moves + 1] = 2 * PowerOfTwo[moves]
    BY Zenon, PowersOfTwo, PowersGrow DEF IInv, TypeOK
  <1>6. PowerOfTwo[moves] <= call.hole + 1
    BY Zenon, <1>1 DEF PathInv
  <1>7. PowerOfTwo[moves'] <= call'.hole + 1
    BY SMTT(40), <1>1, <1>2, <1>3, <1>4, <1>5, <1>6
  <1> QED BY Zenon, <1>2, <1>7 DEF PathInv

LEMMA TurnPath ==
    ASSUME IInv, PathInv, LeafTurns
    PROVE  PathInv'
  <1>1. /\ call.at = "down" /\ call' = [call EXCEPT !.at = "up"]
        /\ size_' = size_ /\ moves' = moves
    BY Zenon DEF LeafTurns
  <1>2. call'.at = "up" /\ call'.hole = call.hole
    BY <1>1 DEF IInv, TypeOK
  <1>3. call.hole \in Nat /\ call.hole < Count /\ Count \in Int /\ Count <= size_
    BY Zenon, <1>1, DownHole, BusyAt
  <1>4. PowerOfTwo[moves] <= call.hole + 1 /\ PowerOfTwo[moves] \in Nat /\ moves \in Nat
    BY Zenon, <1>1, PowersGrow DEF PathInv, IInv, TypeOK
  <1>5. (call.hole + 1) * PowerOfTwo[0] <= size_ /\ PowerOfTwo[moves - 0] <= size_
    <2>1. size_ \in Nat /\ PowerOfTwo[0] = 1
      BY HeapAssumption, PowersOfTwo DEF IInv, TypeOK
    <2> QED BY SMTT(40), <1>3, <1>4, <2>1
  <1>6. Climbing'
    BY <1>1, <1>2, <1>4, <1>5 DEF Climbing
  <1> QED BY Zenon, <1>2, <1>6 DEF PathInv

\* An operation begins with no move made, and ends with none counted.
LEMMA BeginPath ==
    ASSUME IInv, NEW at, NEW hole \in Nat, NEW e, NEW leaf, Begin(at, hole, e, leaf)
    PROVE  PathInv'
  <1>1. call'.at = at /\ call'.hole = hole /\ moves' = 0
    BY DEF Begin
  <1>2. PowerOfTwo[0] <= hole + 1
    BY SMTT(40), PowersOfTwo
  <1> QED BY Zenon, <1>1, <1>2 DEF PathInv

LEMMA FillPath ==
    ASSUME FillHole
    PROVE  PathInv'
  BY PowersOfTwo DEF FillHole, PathInv, Idle

\* Nothing is under way, before or after.
LEMMA IdlePath ==
    ASSUME PathInv, call' = call, moves' = moves, size_' = size_ \/ call = Idle
    PROVE  PathInv'
  <1>1. CASE call = Idle
    BY Zenon, <1>1 DEF PathInv, Idle
  <1>2. CASE size_' = size_
    BY Zenon, <1>2 DEF PathInv, Climbing
  <1> QED BY Zenon, <1>1, <1>2

LEMMA StepKeepsPath ==
    ASSUME IInv, PathInv, [Next]_vars
    PROVE  PathInv'
  <1>0. size_ \in Nat /\ Slots \subseteq Nat
    BY HeapAssumption DEF IInv, TypeOK, Slots
  <1>1. ASSUME NEW e \in Elements, NEW k \in Keys, insert(e, k) PROVE PathInv'
    BY Zenon, <1>0, <1>1, BeginPath DEF insert
  <1>2. ASSUME NEW pos \in Nat, NEW e \in Elements, NEW k \in Keys, NEW at, Substitute(pos, e, k, at)
        PROVE  PathInv'
    BY Zenon, <1>2, BeginPath DEF Substitute
  <1>3. ASSUME NEW pos \in Slots, erase(pos) PROVE PathInv'
    <2>1. \/ Begin("down", pos, heap_[GetLastIndex], TRUE)
          \/ call = Idle /\ call' = call /\ moves' = moves
      BY Zenon, <1>3 DEF erase, MayTouch
    <2> QED BY Zenon, <1>0, <2>1, BeginPath, IdlePath
  <1>4. ASSUME NEW pos \in Slots, Update(pos) PROVE PathInv'
    <2>1. \E at : Begin(at, pos, heap_[pos], FALSE)
      BY Zenon, <1>4 DEF Update
    <2> QED BY Zenon, <1>0, <2>1, BeginPath
  <1>5. ASSUME NEW pos \in Slots, NEW k \in Keys, Change(pos, k) PROVE PathInv'
    BY Zenon, <1>5, IdlePath DEF Change, Clean
  <1>6. CASE clear
    BY Zenon, <1>6, IdlePath DEF clear
  <1>7. ASSUME NEW S \in SUBSET members, EraseIf(S) PROVE PathInv'
    BY Zenon, <1>7, IdlePath DEF EraseIf, Clean
  <1>8. CASE FillAbove \/ FillBelow
    BY Zenon, <1>8, FillPath DEF FillAbove, FillBelow
  <1>9. CASE UNCHANGED vars
    BY Zenon, <1>9, IdlePath DEF vars
  <1>10. ASSUME NEW pos \in Slots, NEW k \in Keys, NEW e \in Elements, Replace(pos, e, k)
         PROVE  PathInv'
    BY Zenon, <1>0, <1>2, <1>10 DEF Replace
  <1>11. ASSUME NEW e \in Elements, NEW k \in Keys, ReplaceTop(e, k) PROVE PathInv'
    <2>1. 0 \in Nat
      OBVIOUS
    <2> QED BY Zenon, <1>2, <1>11, <2>1 DEF ReplaceTop
  <1> QED BY ZenonT(40), <1>1, <1>3, <1>4, <1>5, <1>6, <1>7, <1>8, <1>9, <1>10, <1>11, UpPath,
             DownPath, TurnPath DEF Next

\* An operation moves its hole at most twice as often as the tree has levels,
\* whatever its size and its keys: MoveHoleUp and MoveHoleDownAndFill go through
\* each level at most once down and once up.
THEOREM MovesAreBounded == Spec => []MovesBounded
  <1>1. Init => PathInv
    BY DEF Init, PathInv, Idle
  <1>2. ASSUME IInv, PathInv, moves > 0 PROVE PowerOfTwo[(moves + 1) \div 2] <= size_
    <2> DEFINE half == (moves + 1) \div 2
    <2>1. moves \in Nat /\ size_ \in Nat
      BY SMTT(40), <1>2, HeapAssumption DEF IInv, TypeOK
    <2>2. half \in Nat /\ half <= moves /\ \A n \in 0..moves : half <= n \/ half <= moves - n
      BY <1>2, <2>1
    <2> HIDE DEF half
    <2>3. \A n \in Nat : half <= n => PowerOfTwo[half] <= PowerOfTwo[n]
      BY Zenon, <2>2, PowersGrow
    <2>4. PowerOfTwo[half] \in Nat /\ \A n \in Nat : PowerOfTwo[n] \in Nat
      BY Zenon, <2>2, PowersGrow
    <2>5. CASE call.at = "down"
      <3>1. /\ call.hole \in Nat /\ call.hole < Count /\ Count \in Int /\ Count <= size_
            /\ PowerOfTwo[moves] <= call.hole + 1
        BY Zenon, <1>2, <2>5, DownHole, BusyAt DEF PathInv
      <3>2. PowerOfTwo[half] <= PowerOfTwo[moves]
        BY Zenon, <2>1, <2>2, <2>3
      <3> QED BY SMTT(40), <2>1, <2>4, <3>1, <3>2 DEF half
    <2>6. CASE call.at = "up"
      <3>0. moves # 0
        BY <1>2, <2>1
      <3>1. PICK up \in 0..moves : /\ (call.hole + 1) * PowerOfTwo[up] <= size_
                                   /\ PowerOfTwo[moves - up] <= size_
        BY Zenon, <1>2, <2>6, <3>0 DEF PathInv, Climbing
      <3>2. call.hole \in Nat
        <4>1. call.hole \in Slots
          BY Zenon, <1>2, <2>6, BusyAt
        <4> QED BY <4>1 DEF Slots
      <3>3. up \in Nat /\ moves - up \in Nat /\ PowerOfTwo[up] \in Nat /\ PowerOfTwo[moves - up] \in Nat
        BY <2>1, <2>4
      <3>4. PowerOfTwo[up] <= (call.hole + 1) * PowerOfTwo[up]
        BY SMTT(40), <3>2, <3>3
      <3>5. PowerOfTwo[up] <= size_
        BY SMTT(40), <2>1, <3>1, <3>2, <3>3, <3>4
      <3>6. half <= up \/ half <= moves - up
        BY Zenon, <2>2
      <3> QED BY SMTT(40), <2>1, <2>3, <2>4, <3>1, <3>3, <3>5, <3>6 DEF half
    <2>7. call.at # "idle"
      BY <1>2, <2>1 DEF PathInv
    <2> QED BY Zenon, <1>2, <2>5, <2>6, <2>7 DEF IInv, TypeOK, Points
  <1>3. IInv /\ PathInv => MovesBounded
    BY Zenon, <1>2 DEF MovesBounded
  <1> QED BY <1>1, <1>3, StepKeepsPath, Invariance, PTL DEF Spec
=============================================================================
