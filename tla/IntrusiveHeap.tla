---------------------------- MODULE IntrusiveHeap ----------------------------
(***************************************************************************)
(* base::IntrusiveHeap (src/base/intrusive_heap.h): a binary heap in a     *)
(* vector whose elements know their place.  An operation makes a hole,     *)
(* moves it up or down the tree one level at a time, and fills it.         *)
(*                                                                         *)
(* Every turn of the two loops is a step.  A slot that is a hole, or whose *)
(* element was moved away, holds NoElement.                                *)
(***************************************************************************)
EXTENDS Integers, FiniteSets

CONSTANTS
    Elements,
    NoElement,
    Keys,       \* what value_compare looks at
    MaxSize     \* bound on the size of the heap

ASSUME HeapAssumption ==
    NoElement \notin Elements /\ Keys \subseteq Int /\ MaxSize \in Nat

VARIABLES
    heap_, size_,   \* the vector: its slots and its size
    handle,         \* the index in the HeapHandle of each element
    key,            \* the value of each element
    call,           \* the operation under way: hole, element to fill it with
    dirty,          \* the element that the client modified in place, if any
    members,        \* history: the elements put in and not taken out
    moves           \* history: calls of MoveHole in this operation

vars == <<heap_, size_, handle, key, call, dirty, members, moves>>

kInvalidIndex == -1
Slots == 0..(MaxSize - 1)
Idle == [at |-> "idle", hole |-> kInvalidIndex, element |-> NoElement, leaf |-> FALSE]

Init ==
    /\ heap_ = [i \in Slots |-> NoElement] /\ size_ = 0
    /\ handle = [e \in Elements |-> kInvalidIndex]
    /\ key \in [Elements -> Keys]
    /\ call = Idle /\ dirty = NoElement
    /\ members = {} /\ moves = 0

\* Mutant: not halved.
ParentUnhalved(i) == i - 1

ParentIndex(i) == (i - 1) \div 2
LeftIndex(i) == 2 * i + 1
GetLastIndex == size_ - 1
Less(a, b) == key[a] < key[b]

\* MoveHoleDownAndFill: "We pretend that the space doesn't exist in the heap."
Count == IF call.leaf THEN size_ - 1 ELSE size_

\* Writing to the slot behind the last is push_back.
SizeWith(i) == IF i = size_ THEN size_ + 1 ELSE size_
-----------------------------------------------------------------------------
(* Operations                                                              *)

\* The client may call when nothing is under way, and has to deal with an element
\* that it modified before it does anything else.
Clean == call = Idle /\ dirty = NoElement
MayTouch(pos) == call = Idle /\ pos < size_ /\ dirty \in {NoElement, heap_[pos]}

Begin(at, hole, element, leaf) ==
    /\ call' = [at |-> at, hole |-> hole, element |-> element, leaf |-> leaf]
    /\ moves' = 0

insert(e, k) ==
    /\ Clean /\ e \notin members /\ size_ < MaxSize
    /\ key' = [key EXCEPT ![e] = k]
    /\ members' = members \cup {e}
    /\ Begin("up", size_, e, FALSE)
    /\ UNCHANGED <<heap_, size_, handle, dirty>>

\* take and erase.  Unless the element is the last one, the last one, a leaf,
\* fills its hole.
erase(pos) ==
    /\ MayTouch(pos)
    /\ members' = members \ {heap_[pos]} /\ dirty' = NoElement
    /\ handle' = [handle EXCEPT ![heap_[pos]] = kInvalidIndex,
                                ![heap_[GetLastIndex]] = kInvalidIndex]
    /\ heap_' = [heap_ EXCEPT ![pos] = NoElement, ![GetLastIndex] = NoElement]
    /\ IF pos = GetLastIndex
       THEN size_' = size_ - 1 /\ UNCHANGED <<call, moves>>
       ELSE Begin("down", pos, heap_[GetLastIndex], TRUE) /\ UNCHANGED size_
    /\ UNCHANGED key

\* The client changes the value of an element in its place.
Change(pos, k) ==
    /\ Clean /\ pos < size_
    /\ key' = [key EXCEPT ![heap_[pos]] = k]
    /\ dirty' = heap_[pos]
    /\ UNCHANGED <<heap_, size_, handle, call, members, moves>>

\* Mutant: never goes up.
UpdateGoesDown(pos) ==
    /\ MayTouch(pos)
    /\ handle' = [handle EXCEPT ![heap_[pos]] = kInvalidIndex]
    /\ heap_' = [heap_ EXCEPT ![pos] = NoElement]
    /\ Begin("down", pos, heap_[pos], FALSE)
    /\ dirty' = NoElement
    /\ UNCHANGED <<size_, key, members>>

\* Update, and Modify after its Change.
Update(pos) ==
    /\ MayTouch(pos)
    /\ handle' = [handle EXCEPT ![heap_[pos]] = kInvalidIndex]
    /\ heap_' = [heap_ EXCEPT ![pos] = NoElement]
    /\ LET child_greater_eq_parent ==
             pos > 0 /\ ~Less(heap_[pos], heap_[ParentIndex(pos)])
       IN  Begin(IF child_greater_eq_parent THEN "up" ELSE "down",
                 pos, heap_[pos], FALSE)
    /\ dirty' = NoElement
    /\ UNCHANGED <<size_, key, members>>

\* The new element takes the place of another one.
Substitute(pos, e, k, at) ==
    /\ Clean /\ pos < size_ /\ e \notin members
    /\ key' = [key EXCEPT ![e] = k]
    /\ members' = (members \ {heap_[pos]}) \cup {e}
    /\ handle' = [handle EXCEPT ![heap_[pos]] = kInvalidIndex]
    /\ heap_' = [heap_ EXCEPT ![pos] = NoElement]
    /\ Begin(at, pos, e, FALSE)
    /\ UNCHANGED <<size_, dirty>>

Replace(pos, e, k) ==
    Substitute(pos, e, k, IF k < key[heap_[pos]] THEN "down" ELSE "up")

ReplaceTop(e, k) == Substitute(0, e, k, "down")

clear ==
    /\ call = Idle
    /\ handle' = [e \in Elements |-> kInvalidIndex]
    /\ heap_' = [i \in Slots |-> NoElement] /\ size_' = 0
    /\ dirty' = NoElement /\ members' = {}
    /\ UNCHANGED <<key, call, moves>>

\* The heaps that hold just these elements: what make_heap may leave.
Arrangements(S) ==
    LET Places == 0..(Cardinality(S) - 1)
    IN  {h \in [Places -> S] :
           /\ \A e \in S : \E i \in Places : h[i] = e
           /\ \A i, j \in Places : h[i] = h[j] => i = j
           /\ \A i \in Places \ {0} : key[h[i]] <= key[h[ParentIndex(i)]]}

\* EraseIf with a predicate that the elements of S satisfy, among them one that was
\* modified, if any.
EraseIf(S) ==
    /\ call = Idle /\ S # {} /\ dirty \in S \cup {NoElement}
    /\ members' = members \ S
    /\ size_' = Cardinality(members')
    /\ \E h \in Arrangements(members') :
        /\ heap_' = [i \in Slots |-> IF i < size_' THEN h[i] ELSE NoElement]
        /\ handle' = [e \in Elements |->
             IF e \in members' THEN CHOOSE i \in 0..(size_' - 1) : h[i] = e
             ELSE kInvalidIndex]
    /\ dirty' = NoElement
    /\ UNCHANGED <<key, call, moves>>
-----------------------------------------------------------------------------
(* The hole                                                                *)

\* Mutant: the handle of the element that moves is not set.
MoveHoleSilently(from, to) ==
    /\ heap_' = [heap_ EXCEPT ![to] = heap_[from], ![from] = NoElement]
    /\ size_' = SizeWith(to)
    /\ call' = [call EXCEPT !.hole = from]
    /\ moves' = moves + 1
    /\ UNCHANGED <<handle, key, dirty, members>>

MoveHole(from, to) ==
    /\ heap_' = [heap_ EXCEPT ![to] = heap_[from], ![from] = NoElement]
    /\ handle' = [handle EXCEPT ![heap_[from]] = to]
    /\ size_' = SizeWith(to)
    /\ call' = [call EXCEPT !.hole = from]
    /\ moves' = moves + 1
    /\ UNCHANGED <<key, dirty, members>>

\* Mutant: the handle is the size that push_back leaves.
FillHoleWithSize ==
    /\ heap_' = [heap_ EXCEPT ![call.hole] = call.element]
    /\ size_' = IF call.leaf THEN size_ - 1 ELSE SizeWith(call.hole)
    /\ handle' = [handle EXCEPT ![call.element] = size_']
    /\ call' = Idle /\ moves' = 0
    /\ UNCHANGED <<key, dirty, members>>

\* FillHole, and the pop_back of take and erase.
FillHole ==
    /\ heap_' = [heap_ EXCEPT ![call.hole] = call.element]
    /\ handle' = [handle EXCEPT ![call.element] = call.hole]
    /\ size_' = IF call.leaf THEN size_ - 1 ELSE SizeWith(call.hole)
    /\ call' = Idle /\ moves' = 0
    /\ UNCHANGED <<key, dirty, members>>

Rises == call.hole # 0 /\ Less(heap_[ParentIndex(call.hole)], call.element)
MoveHoleUp == call.at = "up" /\ Rises /\ MoveHole(ParentIndex(call.hole), call.hole)
FillAbove == call.at = "up" /\ ~Rises /\ FillHole

\* The larger of the potentially two children.
Largest ==
    LET left == LeftIndex(call.hole)
        right == left + 1
    IN  IF right < Count /\ Less(heap_[left], heap_[right]) THEN right ELSE left

Sinks ==
    /\ LeftIndex(call.hole) < Count
    /\ call.leaf \/ Less(call.element, heap_[Largest])
MoveHoleDown == call.at = "down" /\ Sinks /\ MoveHole(Largest, call.hole)
FillBelow == call.at = "down" /\ ~Sinks /\ ~call.leaf /\ FillHole

\* A leaf may have to go back up.
LeafTurns ==
    /\ call.at = "down" /\ ~Sinks /\ call.leaf
    /\ call' = [call EXCEPT !.at = "up"]
    /\ UNCHANGED <<heap_, size_, handle, key, dirty, members, moves>>
-----------------------------------------------------------------------------
Next ==
    \/ \E e \in Elements, k \in Keys : insert(e, k) \/ ReplaceTop(e, k)
    \/ \E pos \in Slots :
        \/ erase(pos) \/ Update(pos)
        \/ \E k \in Keys : Change(pos, k) \/ \E e \in Elements : Replace(pos, e, k)
    \/ clear \/ \E S \in SUBSET members : EraseIf(S)
    \/ MoveHoleUp \/ FillAbove \/ MoveHoleDown \/ FillBelow \/ LeafTurns

Spec == Init /\ [][Next]_vars
-----------------------------------------------------------------------------
(* Properties                                                              *)

Points == {"idle", "up", "down"}
Indices == Slots \cup {kInvalidIndex}

\* The types of the vector, the handles and the operation under way.
TypeOK ==
    /\ heap_ \in [Slots -> Elements \cup {NoElement}]
    /\ size_ \in 0..MaxSize
    /\ handle \in [Elements -> Indices]
    /\ key \in [Elements -> Keys]
    /\ call \in [at : Points, hole : Indices, element : Elements \cup {NoElement},
                 leaf : BOOLEAN]
    /\ dirty \in Elements \cup {NoElement}
    /\ members \in SUBSET Elements
    /\ moves \in Nat

\* Between operations no element is greater than its parent, and so none greater
\* than top(), whatever was inserted, erased, replaced or modified before: "a
\* standard max-heap" (intrusive_heap.h:8).  The repository's README.md:113 has "an
\* intrusive min-heap", which the code is not.
HeapOrdered ==
    Clean => \A i \in 1..(size_ - 1) : key[heap_[i]] <= key[heap_[ParentIndex(i)]]

\* A handle follows its element: it is the element's slot, also while others are
\* moved, and is invalid for those that are not in the heap; nothing else is.
HandlesFollow ==
    /\ \A e \in members :
        \/ call.element = e /\ handle[e] = kInvalidIndex
        \/ handle[e] \in 0..(size_ - 1) /\ heap_[handle[e]] = e
    /\ \A e \in Elements \ members : handle[e] = kInvalidIndex
    /\ call = Idle => \A i \in 0..(size_ - 1) : heap_[i] \in members

PowerOfTwo[n \in Nat] == IF n = 0 THEN 1 ELSE 2 * PowerOfTwo[n - 1]

\* "Amortized O(lg size)": an operation moves the hole through the levels of the
\* tree at most once down and once up again, so its loops end.
MovesBounded == moves > 0 => PowerOfTwo[(moves + 1) \div 2] <= size_
=============================================================================
