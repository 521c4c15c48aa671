------------------------------ MODULE MpmcQueue ------------------------------
(***************************************************************************)
(* dvyukov::mpmc_bounded_queue (src/base/bounded-mpmc-queue.h): a bounded  *)
(* queue without locks.  A cell is free for position pos when its          *)
(* sequence_ is pos, and holds the item of pos when it is pos + 1.         *)
(*                                                                         *)
(* Every access to an atomic is a step, and so is every access to a cell's *)
(* data_.  The acquire load and the release store of sequence_ order the   *)
(* accesses to data_; the relaxed accesses are to one position each.       *)
(* Positions do not wrap: 2^64 operations are out of reach.                *)
(***************************************************************************)
EXTENDS Integers, Sequences, FiniteSets

CONSTANTS
    Threads,      \* threads that call enqueue and dequeue
    Data,         \* items
    NoData,       \* data_ of a cell that was never written
    buffer_size,
    MaxEnqueues,  \* bound on the positions that enqueue hands out
    Running       \* the threads that the scheduler never suspends for good

\* The constructor's assertion.
ASSUME BufferSizeAssumption ==
    /\ buffer_size \in Nat /\ buffer_size >= 2
    /\ \E k \in 1..buffer_size : buffer_size = 2^k
ASSUME DataAssumption == NoData \notin Data /\ MaxEnqueues \in Nat
ASSUME RunningAssumption == Running \subseteq Threads

VARIABLES
    sequence_, data_,              \* the cells
    enqueue_pos_, dequeue_pos_,
    call,         \* per thread: the call under way and its locals
    accepted      \* history: the item of each position enqueue handed out

cells == <<sequence_, data_>>
vars == <<cells, enqueue_pos_, dequeue_pos_, call, accepted>>

Points == {"idle", "load", "claim", "reload", "copy", "publish"}
Idle == [op |-> "none", at |-> "idle", pos |-> 0, item |-> NoData]
In(t, op, at) == call[t].op = op /\ call[t].at = at

\* pos & buffer_mask_, buffer_size being a power of two.
Cell(pos) == pos % buffer_size
MyCell(t) == Cell(call[t].pos)

Init ==
    /\ sequence_ = [i \in 0..(buffer_size - 1) |-> i]
    /\ data_ = [i \in 0..(buffer_size - 1) |-> NoData]
    /\ enqueue_pos_ = 0 /\ dequeue_pos_ = 0
    /\ call = [t \in Threads |-> Idle]
    /\ accepted = <<>>

Unclaimed == {t \in Threads : call[t].op = "enqueue"
                              /\ call[t].at \in {"load", "claim", "reload"}}
-----------------------------------------------------------------------------
(* The search for a cell, common to enqueue and dequeue                    *)

Position(op) == IF op = "enqueue" THEN enqueue_pos_ ELSE dequeue_pos_

\* Mutant: dequeue, like enqueue, compares with pos.
ReadyAtPosition(op, pos) == pos

\* The sequence_ that makes the cell of pos ready for the operation.
Ready(op, pos) == IF op = "enqueue" THEN pos ELSE pos + 1

Begin(t, op, item) ==
    /\ call[t].at = "idle"
    /\ call' = [call EXCEPT ![t] = [op |-> op, at |-> "load",
                                    pos |-> Position(op), item |-> item]]
    /\ UNCHANGED <<cells, enqueue_pos_, dequeue_pos_, accepted>>

enqueue(t, item) ==
    /\ enqueue_pos_ + Cardinality(Unclaimed) < MaxEnqueues
    /\ Begin(t, "enqueue", item)

dequeue(t) == Begin(t, "dequeue", NoData)

\* Loads sequence_ and compares: go for the cell, return false, or try again.
LoadSequence(t) ==
    /\ call[t].at = "load"
    /\ LET dif == sequence_[MyCell(t)] - Ready(call[t].op, call[t].pos) IN
       call' = [call EXCEPT ![t] = IF dif = 0 THEN [@ EXCEPT !.at = "claim"]
                                   ELSE IF dif < 0 THEN Idle
                                   ELSE [@ EXCEPT !.at = "reload"]]
    /\ UNCHANGED <<cells, enqueue_pos_, dequeue_pos_, accepted>>

\* Mutant: the loop goes on with the old position.
ReloadsNothing(t) ==
    /\ call[t].at = "reload"
    /\ call' = [call EXCEPT ![t].at = "load"]
    /\ UNCHANGED <<cells, enqueue_pos_, dequeue_pos_, accepted>>

Reload(t) ==
    /\ call[t].at = "reload"
    /\ call' = [call EXCEPT ![t].at = "load", ![t].pos = Position(call[t].op)]
    /\ UNCHANGED <<cells, enqueue_pos_, dequeue_pos_, accepted>>

\* compare_exchange_weak fails: the position moved on, or for no reason.  It
\* leaves the position it saw in pos.
ClaimFails(t) ==
    /\ call[t].at = "claim"
    /\ call' = [call EXCEPT ![t].at = "load", ![t].pos = Position(call[t].op)]
    /\ UNCHANGED <<cells, enqueue_pos_, dequeue_pos_, accepted>>
-----------------------------------------------------------------------------
(* enqueue: claim a position, write the cell, publish it                   *)

\* Mutant: the position is stored, not compared and exchanged.
EnqueueClaimsAnyway(t) ==
    /\ In(t, "enqueue", "claim")
    /\ enqueue_pos_' = call[t].pos + 1
    /\ accepted' = Append(accepted, call[t].item)
    /\ call' = [call EXCEPT ![t].at = "copy"]
    /\ UNCHANGED <<cells, dequeue_pos_>>

EnqueueClaims(t) ==
    /\ In(t, "enqueue", "claim") /\ enqueue_pos_ = call[t].pos
    /\ enqueue_pos_' = enqueue_pos_ + 1
    /\ accepted' = Append(accepted, call[t].item)
    /\ call' = [call EXCEPT ![t].at = "copy"]
    /\ UNCHANGED <<cells, dequeue_pos_>>

EnqueueCopies(t) ==
    /\ In(t, "enqueue", "copy")
    /\ data_' = [data_ EXCEPT ![MyCell(t)] = call[t].item]
    /\ call' = [call EXCEPT ![t].at = "publish"]
    /\ UNCHANGED <<sequence_, enqueue_pos_, dequeue_pos_, accepted>>

EnqueuePublishes(t) ==
    /\ In(t, "enqueue", "publish")
    /\ sequence_' = [sequence_ EXCEPT ![MyCell(t)] = call[t].pos + 1]
    /\ call' = [call EXCEPT ![t] = Idle]
    /\ UNCHANGED <<data_, enqueue_pos_, dequeue_pos_, accepted>>
-----------------------------------------------------------------------------
(* dequeue: claim a position, read the cell, free it for the next lap      *)

\* Mutant: the position is stored, not compared and exchanged.
DequeueClaimsAnyway(t) ==
    /\ In(t, "dequeue", "claim")
    /\ dequeue_pos_' = call[t].pos + 1
    /\ call' = [call EXCEPT ![t].at = "copy"]
    /\ UNCHANGED <<cells, enqueue_pos_, accepted>>

DequeueClaims(t) ==
    /\ In(t, "dequeue", "claim") /\ dequeue_pos_ = call[t].pos
    /\ dequeue_pos_' = dequeue_pos_ + 1
    /\ call' = [call EXCEPT ![t].at = "copy"]
    /\ UNCHANGED <<cells, enqueue_pos_, accepted>>

DequeueCopies(t) ==
    /\ In(t, "dequeue", "copy")
    /\ call' = [call EXCEPT ![t].at = "publish", ![t].item = data_[MyCell(t)]]
    /\ UNCHANGED <<cells, enqueue_pos_, dequeue_pos_, accepted>>

\* Mutant: buffer_mask_ alone is added.
DequeueFreesNext(t) ==
    /\ In(t, "dequeue", "publish")
    /\ sequence_' = [sequence_ EXCEPT ![MyCell(t)] = call[t].pos + buffer_size - 1]
    /\ call' = [call EXCEPT ![t] = Idle]
    /\ UNCHANGED <<data_, enqueue_pos_, dequeue_pos_, accepted>>

\* Mutant: the cell is given the number of the lap before.
DequeueFreesLastLap(t) ==
    /\ In(t, "dequeue", "publish")
    /\ sequence_' = [sequence_ EXCEPT ![MyCell(t)] = call[t].pos - buffer_size]
    /\ call' = [call EXCEPT ![t] = Idle]
    /\ UNCHANGED <<data_, enqueue_pos_, dequeue_pos_, accepted>>

\* sequence_.store(pos + buffer_mask_ + 1)
DequeueFrees(t) ==
    /\ In(t, "dequeue", "publish")
    /\ sequence_' = [sequence_ EXCEPT ![MyCell(t)] = call[t].pos + buffer_size]
    /\ call' = [call EXCEPT ![t] = Idle]
    /\ UNCHANGED <<data_, enqueue_pos_, dequeue_pos_, accepted>>
-----------------------------------------------------------------------------
Claims(t) == EnqueueClaims(t) \/ DequeueClaims(t)
Proceeds(t) ==
    \/ LoadSequence(t) \/ Reload(t)
    \/ EnqueueCopies(t) \/ EnqueuePublishes(t)
    \/ DequeueCopies(t) \/ DequeueFrees(t)

Next == \E t \in Threads :
    \/ \E item \in Data : enqueue(t, item)
    \/ dequeue(t) \/ Claims(t) \/ ClaimFails(t) \/ Proceeds(t)

Spec == Init /\ [][Next]_vars

\* Only the threads of Running are sure to run; the others may stop for ever
\* anywhere, also in the middle of a call.  A compare_exchange_weak whose
\* comparison keeps being true does not fail for ever.
Fairness == \A t \in Running :
    /\ WF_vars(Proceeds(t) \/ Claims(t) \/ ClaimFails(t))
    /\ SF_vars(Claims(t))

FairSpec == Spec /\ Fairness
-----------------------------------------------------------------------------
(* Properties                                                              *)

\* The types of the cells, the positions and the calls.
TypeOK ==
    /\ sequence_ \in [0..(buffer_size - 1) -> Nat]
    /\ data_ \in [0..(buffer_size - 1) -> Data \cup {NoData}]
    /\ enqueue_pos_ \in Nat /\ dequeue_pos_ \in Nat
    /\ call \in [Threads -> [op : {"none", "enqueue", "dequeue"}, at : Points,
                             pos : Nat, item : Data \cup {NoData}]]
    /\ accepted \in Seq(Data)

InCell(t) == call[t].at \in {"copy", "publish"}

\* A cell belongs to one call between its claim and its store to sequence_: no
\* two calls access the data_ of a cell at the same time.
CellsAreExclusive ==
    \A s, t \in Threads : s # t /\ InCell(s) /\ InCell(t) => MyCell(s) # MyCell(t)

\* dequeue returns the items in the order in which enqueue claimed positions,
\* each exactly as it was enqueued, however calls overlap and lap the buffer.
FirstInFirstOut == \A t \in Threads :
    In(t, "dequeue", "publish") => call[t].item = accepted[call[t].pos + 1]

\* At most buffer_size items are accepted and not handed out.
Bounded == dequeue_pos_ <= enqueue_pos_ /\ enqueue_pos_ <= dequeue_pos_ + buffer_size

Full == enqueue_pos_ = dequeue_pos_ + buffer_size
Empty == enqueue_pos_ = dequeue_pos_
Fails(t, op) == In(t, op, "load") /\ call'[t].at = "idle"

\* A call that returns false while no other call is under way tells the truth:
\* the queue is full, or empty, at that moment.
FalseIsTrueAlone ==
    [][\A t \in Threads :
         (\A s \in Threads \ {t} : call[s].at = "idle")
         => /\ Fails(t, "enqueue") => Full
            /\ Fails(t, "dequeue") => Empty]_vars

\* The queue is "lock-free": a thread that runs gets out of its enqueue or dequeue
\* unless others claim positions meanwhile, and threads that stopped in the middle
\* of their calls cannot keep it there.  (One call may lose every race and starve;
\* the bound on positions hides that, so the property does not claim the contrary.)
LockFree ==
    \A t \in Running, n \in 0..(2 * MaxEnqueues) :
        call[t].at # "idle" /\ enqueue_pos_ + dequeue_pos_ = n
          ~> call[t].at = "idle" \/ enqueue_pos_ + dequeue_pos_ > n
=============================================================================
