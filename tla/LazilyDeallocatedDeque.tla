----------------------- MODULE LazilyDeallocatedDeque -----------------------
(***************************************************************************)
(* base::sequence_manager::LazilyDeallocatedDeque                          *)
(* (src/base/task/lazily_deallocated_deque.h), the queue of TaskLoop: a    *)
(* list of rings that grows by a new ring at the tail and is moved to one  *)
(* smaller ring when little of it has been used for a while.               *)
(*                                                                         *)
(* A deque is a record of the class's fields with the list of its rings in *)
(* place of head_ and tail_; its operations are operators on the record.   *)
(* The class is used by one thread at a time, so an operation is a step.   *)
(***************************************************************************)
EXTENDS Naturals, Sequences, FiniteSets, SequencesExt

CONSTANTS
    Deques,     \* the deques of a program
    T,          \* elements
    NoElement,  \* a slot in which no element has been constructed
    kMinimumRingSize, kReclaimThreshold, kMinimumShrinkIntervalInSeconds,
    MaxSize,    \* bound on the elements of all deques together
    MaxNow      \* bound on the time

ASSUME RingAssumption ==
    /\ kMinimumRingSize \in Nat /\ kMinimumRingSize >= 2
    /\ kReclaimThreshold \in Nat /\ kMinimumShrinkIntervalInSeconds \in Nat
ASSUME ElementAssumption == NoElement \notin T

VARIABLES
    deques,     \* the state of each deque
    now,        \* now_source(), in seconds
    elements    \* reference: each deque as a plain sequence

vars == <<deques, now, elements>>
-----------------------------------------------------------------------------
(* Ring: front_index_ is the slot before the first element, back_index_    *)
(* that of the last, and equal indices mean empty.                         *)

NewRing(capacity) ==
    [front_index_ |-> 0, back_index_ |-> 0, capacity |-> capacity,
     data_ |-> [i \in 0..(capacity - 1) |-> NoElement]]

\* Mutant: one too far round.
DecrementTooFar(ring, i) == IF i = 0 THEN ring.capacity ELSE i - 1

CircularDecrement(ring, i) == IF i = 0 THEN ring.capacity - 1 ELSE i - 1
CircularIncrement(ring, i) == IF i + 1 = ring.capacity THEN 0 ELSE i + 1

RingEmpty(ring) == ring.back_index_ = ring.front_index_

\* Mutant: the ring may be filled up.
CanAlwaysPush(ring) == TRUE

CanPush(ring) == ring.front_index_ # CircularIncrement(ring, ring.back_index_)

RingPushFront(ring, t) ==
    [ring EXCEPT !.data_[ring.front_index_] = t,
                 !.front_index_ = CircularDecrement(ring, @)]

RingPushBack(ring, t) ==
    LET back == CircularIncrement(ring, ring.back_index_)
    IN  [ring EXCEPT !.back_index_ = back, !.data_[back] = t]

\* Destroys the element.
RingPopFront(ring) ==
    LET front == CircularIncrement(ring, ring.front_index_)
    IN  [ring EXCEPT !.front_index_ = front, !.data_[front] = NoElement]

RingFront(ring) == ring.data_[CircularIncrement(ring, ring.front_index_)]
RingBack(ring) == ring.data_[ring.back_index_]
-----------------------------------------------------------------------------
(* The deque                                                               *)

Empty == [rings |-> <<>>, size_ |-> 0, max_size_ |-> 0, next_resize_time_ |-> 0]

Larger(a, b) == IF a < b THEN b ELSE a
Total(numbers) == FoldSeq(LAMBDA a, b : a + b, 0, numbers)
Capacities(d) == [i \in DOMAIN d.rings |-> d.rings[i].capacity]
capacity(d) == Total(Capacities(d))
front(d) == RingFront(Head(d.rings))
back(d) == RingBack(Last(d.rings))

\* head_ and tail_ point to a first ring.
WithRing(d) ==
    IF d.rings = <<>> THEN [d EXCEPT !.rings = <<NewRing(kMinimumRingSize)>>] ELSE d

\* max_size_ = std::max(max_size_, ++size_)
Counted(d) == [d EXCEPT !.size_ = @ + 1, !.max_size_ = Larger(@, d.size_ + 1)]

\* Grows by the minimum amount.
push_front(deque, t) ==
    LET d == WithRing(deque)
        rings == IF CanPush(Head(d.rings)) THEN d.rings
                 ELSE <<NewRing(kMinimumRingSize)>> \o d.rings
    IN  Counted([d EXCEPT !.rings = [rings EXCEPT ![1] = RingPushFront(@, t)]])

\* Grows by a ring larger by a half than the last.
push_back(deque, t) ==
    LET d == WithRing(deque)
        last == Last(d.rings).capacity
        rings == IF CanPush(Last(d.rings)) THEN d.rings
                 ELSE Append(d.rings, NewRing(2 + last + (last \div 2)))
    IN  Counted([d EXCEPT !.rings = [rings EXCEPT ![Len(rings)] = RingPushBack(@, t)]])

\* Drops the first ring when it is empty and not the only one.
pop_front(d) ==
    LET ring == RingPopFront(Head(d.rings))
    IN  [d EXCEPT !.rings = IF RingEmpty(ring) /\ Len(@) > 1 THEN Tail(@)
                            ELSE [@ EXCEPT ![1] = ring],
                  !.size_ = @ - 1]

clear(d) == [d EXCEPT !.rings = <<>>, !.size_ = 0]

\* Moves the elements, one front() and pop_front() at a time, to one new ring.
SetCapacity(d, new_capacity) ==
    LET moved[n \in 0..d.size_] ==
            IF n = 0 THEN [from |-> d, to |-> NewRing(new_capacity)]
            ELSE LET m == moved[n - 1]
                 IN  [from |-> pop_front(m.from),
                      to |-> RingPushBack(m.to, front(m.from))]
    IN  [d EXCEPT !.rings = <<moved[d.size_].to>>]

\* Mutant: no slot more than the elements that were in use.
ShrunkCapacityTooSmall(d) == Larger(d.max_size_, kMinimumRingSize)

\* "Due to the way the Ring works we need 1 more slot than is used."
ShrunkCapacity(d) == Larger(d.max_size_ + 1, kMinimumRingSize)

\* The high-water mark starts again also when nothing is moved.
MaybeShrinkQueue(d, current_time) ==
    LET used == [d EXCEPT !.max_size_ = d.size_]
    IN  IF d.rings = <<>> \/ current_time < d.next_resize_time_ THEN d
        ELSE IF ShrunkCapacity(d) + kReclaimThreshold >= capacity(d) THEN used
        ELSE [SetCapacity(used, ShrunkCapacity(d)) EXCEPT
                !.next_resize_time_ = current_time + kMinimumShrinkIntervalInSeconds]
-----------------------------------------------------------------------------
(* Iteration: a cursor is a ring's place in the list and an index; 0 is    *)
(* the null pointer.                                                       *)

begin(d) ==
    IF d.rings = <<>> \/ RingEmpty(Head(d.rings)) THEN [ring |-> 0, index |-> 0]
    ELSE [ring |-> 1,
          index |-> CircularIncrement(d.rings[1], d.rings[1].front_index_)]

advance(d, at) ==
    LET ring == d.rings[at.ring]
        next == at.ring + 1
    IN  IF at.index # ring.back_index_
        THEN [at EXCEPT !.index = CircularIncrement(ring, @)]
        ELSE IF next > Len(d.rings) THEN [ring |-> 0, index |-> 0]
        ELSE [ring |-> next,
              index |-> CircularIncrement(d.rings[next], d.rings[next].front_index_)]

\* What a loop from begin() sees until its iterator is null, in at most n turns.
Iterated(d, n) ==
    LET loop[i \in 0..n] ==
            IF i = 0 THEN [at |-> begin(d), seen |-> <<>>]
            ELSE LET l == loop[i - 1]
                 IN  IF l.at.ring = 0 THEN l
                     ELSE [at |-> advance(d, l.at),
                           seen |-> Append(l.seen,
                                           d.rings[l.at.ring].data_[l.at.index])]
    IN  loop[n].seen
-----------------------------------------------------------------------------
Init ==
    /\ deques = [d \in Deques |-> Empty]
    /\ now = 0
    /\ elements = [d \in Deques |-> <<>>]

Room == FoldSet(LAMBDA d, n : Len(elements[d]) + n, 0, Deques) < MaxSize

\* The deque takes on a new state, and the sequence it stands for a new value.
Becomes(d, deque, sequence) ==
    /\ deques' = [deques EXCEPT ![d] = deque]
    /\ elements' = [elements EXCEPT ![d] = sequence]
    /\ UNCHANGED now

PushFront(d) == Room /\ \E t \in T :
    Becomes(d, push_front(deques[d], t), <<t>> \o elements[d])
PushBack(d) == Room /\ \E t \in T :
    Becomes(d, push_back(deques[d], t), Append(elements[d], t))
PopFront(d) ==
    elements[d] # <<>> /\ Becomes(d, pop_front(deques[d]), Tail(elements[d]))
Clear(d) == Becomes(d, clear(deques[d]), <<>>)
Shrink(d) == Becomes(d, MaybeShrinkQueue(deques[d], now), elements[d])

\* Mutant: max_size_ is not swapped.
swap_without_max(c, d) ==
    /\ deques' = [deques EXCEPT
                    ![c] = [deques[d] EXCEPT !.max_size_ = deques[c].max_size_],
                    ![d] = [deques[c] EXCEPT !.max_size_ = deques[d].max_size_]]
    /\ elements' = [elements EXCEPT ![c] = elements[d], ![d] = elements[c]]
    /\ UNCHANGED now

swap(c, d) ==
    /\ deques' = [deques EXCEPT ![c] = deques[d], ![d] = deques[c]]
    /\ elements' = [elements EXCEPT ![c] = elements[d], ![d] = elements[c]]
    /\ UNCHANGED now

Tick == now < MaxNow /\ now' = now + 1 /\ UNCHANGED <<deques, elements>>

Next == \/ Tick
        \/ \E d \in Deques : \/ PushFront(d) \/ PushBack(d) \/ PopFront(d)
                             \/ Clear(d) \/ Shrink(d)
                             \/ \E c \in Deques \ {d} : swap(c, d)

Spec == Init /\ [][Next]_vars
-----------------------------------------------------------------------------
(* Properties                                                              *)

\* The slots of a ring that hold an element, by its indices.
Occupied(ring) ==
    LET f == ring.front_index_
        b == ring.back_index_
    IN  IF f <= b THEN (f + 1)..b ELSE (0..b) \cup ((f + 1)..(ring.capacity - 1))

Rings == UNION {Range(deques[d].rings) : d \in Deques}

\* The types of the fields and of the rings.
TypeOK ==
    /\ now \in Nat
    /\ elements \in [Deques -> Seq(T)]
    /\ \A d \in Deques :
        /\ deques[d].size_ \in Nat /\ deques[d].max_size_ \in Nat
        /\ deques[d].next_resize_time_ \in Nat
    /\ \A ring \in Rings :
        /\ ring.capacity \in Nat \ {0}
        /\ ring.front_index_ \in 0..(ring.capacity - 1)
        /\ ring.back_index_ \in 0..(ring.capacity - 1)
        /\ ring.data_ \in [0..(ring.capacity - 1) -> T \cup {NoElement}]

\* Placement new only into free slots and destructors only on elements: the
\* slots that hold an element are those between the indices.  Only a deque's
\* single ring may be empty, so front(), back() and the iterator, which do not
\* look further, find an element whenever size_ says there is one.
RingsWellFormed ==
    /\ \A ring \in Rings : \A i \in DOMAIN ring.data_ :
        ring.data_[i] # NoElement <=> i \in Occupied(ring)
    /\ \A d \in Deques : \A i \in DOMAIN deques[d].rings :
        RingEmpty(deques[d].rings[i]) => Len(deques[d].rings) = 1

\* size_ is the number of elements, and the high-water mark from which
\* MaybeShrinkQueue takes the new capacity is never below it.
SizesAgree ==
    \A d \in Deques :
        /\ deques[d].size_ = Total([i \in DOMAIN deques[d].rings |->
                                      Cardinality(Occupied(deques[d].rings[i]))])
        /\ deques[d].size_ <= deques[d].max_size_

\* Every deque is the sequence of what was pushed and not popped: iteration sees
\* it and ends, and front() and back() are its ends, however the rings grow,
\* shrink and are dropped.
IsItsSequence ==
    \A d \in Deques :
        /\ Iterated(deques[d], Len(elements[d]) + 1) = elements[d]
        /\ elements[d] # <<>> => /\ front(deques[d]) = Head(elements[d])
                                /\ back(deques[d]) = Last(elements[d])
=============================================================================
