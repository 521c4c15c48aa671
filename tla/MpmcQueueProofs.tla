--------------------------- MODULE MpmcQueueProofs ---------------------------
(***************************************************************************)
(* Theorems about MpmcQueue: cells are exclusive and items come out in the *)
(* order of their positions, for any number of threads and any size.       *)
(***************************************************************************)
EXTENDS MpmcQueue, TLAPS

Ops == {"none", "enqueue", "dequeue"}
Searching(t) == call[t].at \in {"load", "claim", "reload"}
Writing(t) == InCell(t) /\ call[t].op = "enqueue"
Reading(t) == InCell(t) /\ call[t].op = "dequeue"
WriterAt(p) == \E t \in Threads : Writing(t) /\ call[t].pos = p
ReaderAt(p) == \E t \in Threads : Reading(t) /\ call[t].pos = p

\* What a call knows of its position.
CallInv(t) ==
    /\ call[t].at # "idle" => call[t].op \in {"enqueue", "dequeue"}
    /\ call[t].op = "enqueue" => call[t].item \in Data
    /\ Writing(t) =>
        /\ dequeue_pos_ <= call[t].pos /\ call[t].pos < enqueue_pos_
        /\ call[t].item = accepted[call[t].pos + 1]
        /\ call[t].at = "publish" => data_[MyCell(t)] = call[t].item
    /\ Reading(t) =>
        /\ call[t].pos < dequeue_pos_ /\ enqueue_pos_ <= call[t].pos + buffer_size
        /\ call[t].at = "copy" => data_[MyCell(t)] = accepted[call[t].pos + 1]
        /\ call[t].at = "publish" => call[t].item = accepted[call[t].pos + 1]
    /\ Searching(t) => call[t].pos <= Position(call[t].op)
    /\ call[t].at = "claim" /\ call[t].pos = Position(call[t].op) =>
         sequence_[MyCell(t)] = Ready(call[t].op, call[t].pos)

\* The cells of the buffer_size positions from dequeue_pos_ on: those of
\* accepted items are being written or hold their item, the others are free or
\* still being read for the lap before.
WindowInv ==
    \A p \in dequeue_pos_..(dequeue_pos_ + buffer_size - 1) :
        /\ p < enqueue_pos_ /\ WriterAt(p) => sequence_[Cell(p)] = p
        /\ p < enqueue_pos_ /\ ~WriterAt(p) =>
             sequence_[Cell(p)] = p + 1 /\ data_[Cell(p)] = accepted[p + 1]
        /\ enqueue_pos_ <= p /\ ReaderAt(p - buffer_size) =>
             sequence_[Cell(p)] = p - buffer_size + 1
        /\ enqueue_pos_ <= p /\ ~ReaderAt(p - buffer_size) =>
             sequence_[Cell(p)] = p

\* No two calls have the same position.
Distinct ==
    \A s, t \in Threads : s # t /\ InCell(s) /\ InCell(t) => call[s].pos # call[t].pos

IInv == /\ TypeOK /\ Bounded /\ Len(accepted) = enqueue_pos_
        /\ Distinct /\ WindowInv /\ \A t \in Threads : CallInv(t)
-----------------------------------------------------------------------------
(* Arithmetic of cells                                                     *)

LEMMA SizeFacts == buffer_size \in Nat /\ buffer_size >= 2
BY Zenon, BufferSizeAssumption

LEMMA CellRange ==
    ASSUME NEW p \in Nat
    PROVE  Cell(p) \in 0..(buffer_size - 1)
BY SizeFacts DEF Cell

\* Quotient and remainder.
LEMMA CellDivision ==
    ASSUME NEW p \in Nat
    PROVE  /\ p \div buffer_size \in Int
           /\ p = buffer_size * (p \div buffer_size) + Cell(p)
BY SizeFacts DEF Cell

LEMMA RemainderUnique ==
    ASSUME NEW p \in Nat, NEW q \in Int, NEW r \in 0..(buffer_size - 1),
           p = buffer_size * q + r
    PROVE  r = Cell(p)
BY SizeFacts DEF Cell

\* No multiple of the size lies strictly between zero and the size.
LEMMA NoMultipleInside ==
    ASSUME NEW q \in Int, NEW x \in Int, x = buffer_size * q, 0 < x, x < buffer_size
    PROVE  FALSE
BY SizeFacts

\* A lap later a position has the same cell.
LEMMA CellLap ==
    ASSUME NEW p \in Nat
    PROVE  Cell(p + buffer_size) = Cell(p)
<1> DEFINE q == p \div buffer_size
           r == Cell(p)
<1>1. q \in Int /\ p = buffer_size * q + r /\ r \in 0..(buffer_size - 1)
  BY Zenon, CellDivision, CellRange
<1> HIDE DEF q, r
<1>2. p + buffer_size = buffer_size * (q + 1) + r
  BY <1>1, SizeFacts
<1>3. q + 1 \in Int /\ p + buffer_size \in Nat
  BY <1>1, SizeFacts
<1>4. r = Cell(p + buffer_size)
  BY Zenon, <1>1, <1>2, <1>3, RemainderUnique
<1> QED
  BY Zenon, <1>4 DEF r

\* Positions less than a lap apart have different cells.
LEMMA CellsDiffer ==
    ASSUME NEW a \in Nat, NEW b \in Nat, a < b, b < a + buffer_size
    PROVE  Cell(a) # Cell(b)
<1> SUFFICES ASSUME Cell(a) = Cell(b) PROVE FALSE
  BY Zenon
<1> DEFINE qa == a \div buffer_size
           qb == b \div buffer_size
           r == Cell(a)
<1>1. /\ qa \in Int /\ qb \in Int /\ r \in Int
      /\ a = buffer_size * qa + r /\ b = buffer_size * qb + r
  BY CellDivision, CellRange, SizeFacts
<1> HIDE DEF qa, qb, r
<1>2. b - a = buffer_size * (qb - qa) /\ qb - qa \in Int /\ b - a \in Int
  BY <1>1, SizeFacts
<1>3. 0 < b - a /\ b - a < buffer_size
  BY SizeFacts
<1> QED
  BY Zenon, <1>2, <1>3, NoMultipleInside

LEMMA Apart ==
    ASSUME NEW a \in Nat, NEW b \in Nat, a # b,
           a < b + buffer_size, b < a + buffer_size
    PROVE  Cell(a) # Cell(b)
<1>1. a < b \/ b < a
  OBVIOUS
<1> QED
  BY Zenon, <1>1, CellsDiffer
-----------------------------------------------------------------------------
(* Initial states and the search for a cell                                *)

LEMMA InitIInv == Init => IInv
<1> SUFFICES ASSUME Init PROVE IInv
  BY Zenon
<1>1. TypeOK
  BY SizeFacts DEF Init, TypeOK, Idle, Points
<1>2. Bounded /\ Len(accepted) = enqueue_pos_
  BY SizeFacts DEF Init, Bounded
<1>3. \A t \in Threads : call[t] = Idle /\ ~InCell(t)
  BY Zenon DEF Init, Idle, InCell
<1>4. Distinct /\ \A p \in Int : ~ReaderAt(p)
  BY Zenon, <1>3 DEF Distinct, ReaderAt, Reading
<1>5. WindowInv
  <2>0. dequeue_pos_ = 0 /\ enqueue_pos_ = 0
    BY Zenon DEF Init
  <2> SUFFICES ASSUME NEW p \in 0..(buffer_size - 1)
               PROVE  sequence_[Cell(p)] = p
    <3>1. \A p \in 0..(buffer_size - 1) : ~(p < 0) /\ p - buffer_size \in Int
      BY SizeFacts
    <3>2. dequeue_pos_..(dequeue_pos_ + buffer_size - 1) = 0..(buffer_size - 1)
      BY <2>0, SizeFacts
    <3> QED
      BY <1>4, <2>0, <3>1, <3>2, Zenon DEF WindowInv
  <2>1. Cell(p) = p
    <3>1. p \in Nat /\ 0 \in Int /\ p = buffer_size * 0 + p
      BY SizeFacts
    <3> QED
      BY Zenon, <3>1, RemainderUnique
  <2> QED
    BY Zenon, <2>1, SizeFacts DEF Init
<1>6. \A t \in Threads : CallInv(t)
  BY <1>3 DEF CallInv, Idle, Writing, Reading, Searching
<1> QED
  BY Zenon, <1>1, <1>2, <1>4, <1>5, <1>6 DEF IInv

\* A step that only changes the call of a thread that is in no cell, before or
\* after it.
LEMMA SearchStep ==
    ASSUME IInv, NEW t \in Threads, ~InCell(t),
           NEW c \in [op : Ops, at : Points \ {"copy", "publish"},
                      pos : Nat, item : Data \cup {NoData}],
           c.at # "idle" => c.op \in {"enqueue", "dequeue"} /\ c.pos <= Position(c.op),
           c.op = "enqueue" => c.item \in Data,
           c.at = "claim" => sequence_[Cell(c.pos)] = Ready(c.op, c.pos),
           call' = [call EXCEPT ![t] = c],
           UNCHANGED <<cells, enqueue_pos_, dequeue_pos_, accepted>>
    PROVE  IInv'
<1>0. /\ UNCHANGED <<sequence_, data_, enqueue_pos_, dequeue_pos_, accepted>>
      /\ TypeOK
  BY Zenon DEF cells, IInv
<1>1. TypeOK'
  BY Zenon, <1>0 DEF TypeOK, Ops
<1>2. Bounded' /\ Len(accepted)' = enqueue_pos_'
  BY Zenon, <1>0 DEF IInv, Bounded
<1>3. call'[t] = c /\ \A s \in Threads \ {t} : call'[s] = call[s]
  BY Zenon, <1>0 DEF TypeOK
<1>4. c.at \notin {"copy", "publish"}
  BY Zenon
<1>5. \A s \in Threads : InCell(s)' <=> InCell(s) /\ s # t
  BY Zenon, <1>3, <1>4 DEF InCell
<1>6. Distinct'
  BY <1>3, <1>5 DEF IInv, Distinct
<1>7. \A p : WriterAt(p)' <=> WriterAt(p)
  BY Zenon, <1>3, <1>5 DEF WriterAt, Writing
<1>8. \A p : ReaderAt(p)' <=> ReaderAt(p)
  BY Zenon, <1>3, <1>5 DEF ReaderAt, Reading
<1>9. WindowInv'
  BY Zenon, <1>0, <1>7, <1>8 DEF IInv, WindowInv, Cell
<1>10. ASSUME NEW s \in Threads PROVE CallInv(s)'
  <2>1. CASE s = t
    <3>1. ~InCell(t)'
      BY Zenon, <1>5
    <3> QED
      BY ZenonT(40), <2>1, <3>1, <1>0, <1>3
      DEF CallInv, Writing, Reading, Searching, Position, Ready, MyCell, Cell
  <2>2. CASE s # t
    <3>1. CallInv(s)
      BY Zenon DEF IInv
    <3> QED
      BY <2>2, <3>1, <1>0, <1>3
      DEF CallInv, Writing, Reading, Searching, InCell, Position, Ready, MyCell, Cell
  <2> QED
    BY Zenon, <2>1, <2>2
<1> QED
  BY Zenon, <1>1, <1>2, <1>6, <1>9, <1>10 DEF IInv

LEMMA SearchIInv ==
    ASSUME IInv, NEW t \in Threads,
           \/ \E item \in Data : enqueue(t, item)
           \/ dequeue(t) \/ LoadSequence(t) \/ Reload(t) \/ ClaimFails(t)
    PROVE  IInv'
<1>0. TypeOK /\ CallInv(t)
  BY Zenon DEF IInv
<1>a. /\ call[t].op \in Ops /\ call[t].pos \in Nat /\ call[t].item \in Data \cup {NoData}
      /\ enqueue_pos_ \in Nat /\ dequeue_pos_ \in Nat
  BY Zenon, <1>0 DEF TypeOK, Ops
<1>b. \A op : Position(op) \in Nat
  BY Zenon, <1>a DEF Position
<1>1. ASSUME NEW op \in {"enqueue", "dequeue"}, NEW item \in Data \cup {NoData},
             op = "enqueue" => item \in Data, Begin(t, op, item)
      PROVE  IInv'
  <2> DEFINE c == [op |-> op, at |-> "load", pos |-> Position(op), item |-> item]
  <2>1. call' = [call EXCEPT ![t] = c] /\ ~InCell(t)
    BY Zenon, <1>1 DEF Begin, InCell
  <2>2. c \in [op : Ops, at : Points \ {"copy", "publish"},
               pos : Nat, item : Data \cup {NoData}]
    BY Zenon, <1>b DEF Ops, Points
  <2>3. /\ c.at = "load" /\ c.op = op /\ c.pos = Position(op) /\ c.item = item
        /\ c.pos <= Position(c.op)
    BY <1>b
  <2>4. UNCHANGED <<cells, enqueue_pos_, dequeue_pos_, accepted>>
    BY Zenon, <1>1 DEF Begin
  <2> HIDE DEF c
  <2> QED
    BY <1>1, <2>1, <2>2, <2>3, <2>4, SearchStep, Zenon
<1>2. ASSUME NEW at \in {"claim", "reload", "load"}, NEW pos \in Nat,
             ~InCell(t), call[t].at # "idle", pos <= Position(call[t].op),
             at = "claim" => sequence_[Cell(pos)] = Ready(call[t].op, pos),
             call' = [call EXCEPT ![t] = [@ EXCEPT !.at = at, !.pos = pos]],
             UNCHANGED <<cells, enqueue_pos_, dequeue_pos_, accepted>>
      PROVE  IInv'
  <2> DEFINE c == [call[t] EXCEPT !.at = at, !.pos = pos]
  <2>1. call' = [call EXCEPT ![t] = c]
    BY Zenon, <1>2, <1>0 DEF TypeOK
  <2>2. c \in [op : Ops, at : Points \ {"copy", "publish"},
               pos : Nat, item : Data \cup {NoData}]
    BY <1>0, ZenonT(40) DEF Ops, Points, TypeOK
  <2>3. c.at = at /\ c.op = call[t].op /\ c.pos = pos /\ c.item = call[t].item
    BY Zenon, <1>0 DEF TypeOK
  <2>4. /\ c.op \in {"enqueue", "dequeue"}
        /\ c.op = "enqueue" => c.item \in Data
    BY Zenon, <2>3, <1>2, <1>0 DEF CallInv
  <2> HIDE DEF c
  <2>5. c.pos <= Position(c.op)
    BY Zenon, <1>2, <2>3
  <2>6. c.at = "claim" => sequence_[Cell(c.pos)] = Ready(c.op, c.pos)
    BY Zenon, <1>2, <2>3
  <2> QED
    BY <1>2, <2>1, <2>2, <2>4, <2>5, <2>6, SearchStep, Zenon
<1>3. CASE \E item \in Data : enqueue(t, item)
  BY Zenon, <1>3, <1>1 DEF enqueue
<1>4. CASE dequeue(t)
  BY Zenon, <1>4, <1>1 DEF dequeue
<1>5. CASE LoadSequence(t)
  <2> DEFINE dif == sequence_[MyCell(t)] - Ready(call[t].op, call[t].pos)
  <2>1. /\ call[t].at = "load" /\ ~InCell(t)
        /\ UNCHANGED <<cells, enqueue_pos_, dequeue_pos_, accepted>>
        /\ call[t].pos <= Position(call[t].op)
    BY Zenon, <1>5, <1>0 DEF LoadSequence, InCell, CallInv, Searching
  <2>2. sequence_[MyCell(t)] \in Nat /\ Ready(call[t].op, call[t].pos) \in Nat
    <3>1. MyCell(t) \in 0..(buffer_size - 1)
      BY Zenon, <1>a, CellRange DEF MyCell
    <3> QED
      BY <3>1, <1>0, <1>a DEF TypeOK, Ready
  <2>3. CASE dif = 0
    <3>1. call' = [call EXCEPT ![t] = [@ EXCEPT !.at = "claim"]]
      BY Zenon, <1>5, <2>3 DEF LoadSequence
    <3>2. call' = [call EXCEPT ![t] = [@ EXCEPT !.at = "claim", !.pos = call[t].pos]]
      BY <3>1, <1>0, Zenon DEF TypeOK
    <3>3. sequence_[Cell(call[t].pos)] = Ready(call[t].op, call[t].pos)
      BY <2>2, <2>3 DEF MyCell
    <3> QED
      BY <3>2, <3>3, <2>1, <1>a, <1>2, Zenon
  <2>4. CASE dif < 0
    <3>1. call' = [call EXCEPT ![t] = Idle]
      <4>1. dif # 0
        BY <2>2, <2>4
      <4> QED
        BY <1>5, <2>4, <4>1, Zenon DEF LoadSequence
    <3>2. Idle \in [op : Ops, at : Points \ {"copy", "publish"},
                    pos : Nat, item : Data \cup {NoData}]
      BY Zenon DEF Idle, Ops, Points
    <3>3. Idle.at = "idle" /\ Idle.op = "none"
      BY Zenon DEF Idle
    <3> QED
      BY <3>1, <3>2, <3>3, <2>1, SearchStep, Zenon
  <2>5. CASE dif > 0
    <3>1. call' = [call EXCEPT ![t] = [@ EXCEPT !.at = "reload"]]
      <4>1. dif # 0 /\ ~(dif < 0)
        BY <2>2, <2>5
      <4> QED
        BY <1>5, <4>1, Zenon DEF LoadSequence
    <3>2. call' = [call EXCEPT ![t] = [@ EXCEPT !.at = "reload", !.pos = call[t].pos]]
      BY <3>1, <1>0, Zenon DEF TypeOK
    <3> QED
      BY <3>2, <2>1, <1>a, <1>2, Zenon
  <2> QED
    BY <2>2, <2>3, <2>4, <2>5
<1>6. CASE Reload(t) \/ ClaimFails(t)
  <2>1. /\ call[t].at \in {"reload", "claim"} /\ ~InCell(t)
        /\ call' = [call EXCEPT ![t].at = "load", ![t].pos = Position(call[t].op)]
        /\ UNCHANGED <<cells, enqueue_pos_, dequeue_pos_, accepted>>
    BY Zenon, <1>6 DEF Reload, ClaimFails, InCell
  <2>2. call' = [call EXCEPT ![t] = [@ EXCEPT !.at = "load",
                                              !.pos = Position(call[t].op)]]
    BY <2>1, <1>0, Zenon DEF TypeOK
  <2>3. Position(call[t].op) \in Nat /\ Position(call[t].op) <= Position(call[t].op)
    BY <1>b
  <2> QED
    BY <2>1, <2>2, <2>3, <1>2, Zenon
<1> QED
  BY Zenon, <1>3, <1>4, <1>5, <1>6
-----------------------------------------------------------------------------
(* The claims                                                              *)

\* What IInv says, in the form in which the steps below use it.
LEMMA Facts ==
    ASSUME IInv
    PROVE  /\ enqueue_pos_ \in Nat /\ dequeue_pos_ \in Nat
           /\ dequeue_pos_ <= enqueue_pos_
           /\ enqueue_pos_ <= dequeue_pos_ + buffer_size
           /\ \A t \in Threads : call[t].pos \in Nat /\ CallInv(t)
           /\ accepted \in Seq(Data) /\ Len(accepted) = enqueue_pos_
BY Zenon DEF IInv, TypeOK, Bounded

\* A claimed position of enqueue is free: the buffer is not full and nobody
\* reads the cell any more.
LEMMA EnqueueFindsRoom ==
    ASSUME IInv, NEW t \in Threads, EnqueueClaims(t)
    PROVE  /\ enqueue_pos_ < dequeue_pos_ + buffer_size
           /\ sequence_[Cell(enqueue_pos_)] = enqueue_pos_
           /\ ~ReaderAt(enqueue_pos_ - buffer_size)
<1>1. sequence_[Cell(enqueue_pos_)] = enqueue_pos_
  BY Zenon, Facts DEF EnqueueClaims, In, CallInv, Position, Ready, MyCell
<1>2. enqueue_pos_ # dequeue_pos_ + buffer_size
  <2> SUFFICES ASSUME enqueue_pos_ = dequeue_pos_ + buffer_size PROVE FALSE
    BY Zenon
  <2>1. Cell(enqueue_pos_) = Cell(dequeue_pos_)
    BY Zenon, CellLap, Facts
  <2>2. /\ dequeue_pos_ \in dequeue_pos_..(dequeue_pos_ + buffer_size - 1)
        /\ dequeue_pos_ < enqueue_pos_
    BY SizeFacts, Facts
  <2>3. \/ sequence_[Cell(dequeue_pos_)] = dequeue_pos_
        \/ sequence_[Cell(dequeue_pos_)] = dequeue_pos_ + 1
    BY Zenon, <2>2 DEF IInv, WindowInv
  <2> QED
    BY <1>1, <2>1, <2>3, SizeFacts, Facts
<1>3. enqueue_pos_ < dequeue_pos_ + buffer_size
  BY <1>2, Facts, SizeFacts
<1>4. ~ReaderAt(enqueue_pos_ - buffer_size)
  <2>1. /\ enqueue_pos_ \in dequeue_pos_..(dequeue_pos_ + buffer_size - 1)
        /\ enqueue_pos_ <= enqueue_pos_
        /\ enqueue_pos_ # enqueue_pos_ - buffer_size + 1
    BY <1>3, Facts, SizeFacts
  <2> QED
    BY Zenon, <1>1, <2>1 DEF IInv, WindowInv
<1> QED
  BY Zenon, <1>1, <1>3, <1>4

\* A claimed position of dequeue holds its item: the queue is not empty and
\* nobody writes the cell any more.
LEMMA DequeueFindsItem ==
    ASSUME IInv, NEW t \in Threads, DequeueClaims(t)
    PROVE  /\ dequeue_pos_ < enqueue_pos_
           /\ sequence_[Cell(dequeue_pos_)] = dequeue_pos_ + 1
           /\ ~WriterAt(dequeue_pos_)
           /\ data_[Cell(dequeue_pos_)] = accepted[dequeue_pos_ + 1]
<1>1. sequence_[Cell(dequeue_pos_)] = dequeue_pos_ + 1
  BY Zenon, Facts DEF DequeueClaims, In, CallInv, Position, Ready, MyCell
<1>2. /\ dequeue_pos_ \in dequeue_pos_..(dequeue_pos_ + buffer_size - 1)
      /\ dequeue_pos_ + 1 # dequeue_pos_
      /\ dequeue_pos_ + 1 # dequeue_pos_ - buffer_size + 1
  BY SizeFacts, Facts
<1>3. dequeue_pos_ < enqueue_pos_
  <2> SUFFICES ASSUME enqueue_pos_ <= dequeue_pos_ PROVE FALSE
    BY Facts
  <2> QED
    BY Zenon, <1>1, <1>2 DEF IInv, WindowInv
<1>4. ~WriterAt(dequeue_pos_)
  BY Zenon, <1>1, <1>2, <1>3 DEF IInv, WindowInv
<1> QED
  BY Zenon, <1>1, <1>2, <1>3, <1>4 DEF IInv, WindowInv
-----------------------------------------------------------------------------
(* One lemma per step that claims, uses or releases a cell                 *)

LEMMA EnqueueClaimsIInv ==
    ASSUME IInv, NEW t \in Threads, EnqueueClaims(t)
    PROVE  IInv'
<1> DEFINE E == enqueue_pos_
           D == dequeue_pos_
<1>0. TypeOK /\ Distinct /\ WindowInv /\ CallInv(t) /\ In(t, "enqueue", "claim")
  BY Zenon DEF IInv, EnqueueClaims
<1>a. /\ E < D + buffer_size /\ sequence_[Cell(E)] = E /\ ~ReaderAt(E - buffer_size)
  BY Zenon, EnqueueFindsRoom
<1>b. /\ UNCHANGED <<sequence_, data_, dequeue_pos_>>
      /\ enqueue_pos_' = E + 1 /\ accepted' = Append(accepted, call[t].item)
      /\ call[t].pos = E
  BY Zenon DEF EnqueueClaims, cells
<1>c. call[t].item \in Data
  BY Zenon, <1>0 DEF CallInv, In
<1>d. /\ call'[t].op = "enqueue" /\ call'[t].at = "copy"
      /\ call'[t].pos = E /\ call'[t].item = call[t].item
      /\ \A s \in Threads \ {t} : call'[s] = call[s]
  BY Zenon, <1>0, <1>b DEF EnqueueClaims, TypeOK, In
<1>e. \A p \in Nat : p < E => accepted'[p + 1] = accepted[p + 1]
  BY SMTT(40), <1>b, <1>c, Facts
<1>f. accepted'[E + 1] = call[t].item /\ Len(accepted') = E + 1
  BY SMTT(40), <1>b, <1>c, Facts
<1>1. TypeOK'
  <2>1. call' \in [Threads -> [op : Ops, at : Points, pos : Nat, item : Data \cup {NoData}]]
    BY SMTT(40), <1>0 DEF TypeOK, EnqueueClaims, Points, Ops
  <2>2. accepted' \in Seq(Data) /\ enqueue_pos_' \in Nat
    BY <1>b, <1>c, Facts
  <2> QED
    BY Zenon, <2>1, <2>2, <1>0, <1>b DEF TypeOK, Ops
<1>2. Bounded' /\ Len(accepted)' = enqueue_pos_'
  BY <1>a, <1>b, <1>f, Facts, SizeFacts DEF Bounded
<1>3. ~InCell(t) /\ InCell(t)' /\ \A s \in Threads \ {t} : InCell(s)' <=> InCell(s)
  BY Zenon, <1>0, <1>d DEF InCell, In
<1>4. \A s \in Threads : InCell(s) => call[s].pos < E
  <2> TAKE s \in Threads
  <2> HAVE InCell(s)
  <2>1. CallInv(s) /\ call[s].pos \in Nat
    BY Zenon, Facts
  <2>2. CASE Writing(s)
    BY Zenon, <2>1, <2>2 DEF CallInv
  <2>3. CASE Reading(s)
    BY <2>1, <2>3, Facts DEF CallInv
  <2> QED
    BY Zenon, <2>1, <2>2, <2>3 DEF CallInv, InCell, Writing, Reading
<1>5. Distinct'
  <2> SUFFICES ASSUME NEW r \in Threads, NEW s \in Threads, r # s, InCell(r)', InCell(s)'
               PROVE  call'[r].pos # call'[s].pos
    BY Zenon DEF Distinct
  <2> QED
    BY <1>0, <1>3, <1>4, <1>d, Facts DEF Distinct
<1>6. \A p : WriterAt(p)' <=> WriterAt(p) \/ p = E
  BY Zenon, <1>3, <1>d DEF WriterAt, Writing
<1>7. \A p : ReaderAt(p)' <=> ReaderAt(p)
  BY Zenon, <1>3, <1>d DEF ReaderAt, Reading
<1>8. WindowInv'
  <2> SUFFICES ASSUME NEW p \in D..(D + buffer_size - 1)
               PROVE  /\ p < E + 1 /\ WriterAt(p)' => sequence_[Cell(p)] = p
                      /\ p < E + 1 /\ ~WriterAt(p)' =>
                           sequence_[Cell(p)] = p + 1 /\ data_[Cell(p)] = accepted'[p + 1]
                      /\ E + 1 <= p /\ ReaderAt(p - buffer_size)' =>
                           sequence_[Cell(p)] = p - buffer_size + 1
                      /\ E + 1 <= p /\ ~ReaderAt(p - buffer_size)' =>
                           sequence_[Cell(p)] = p
    BY <1>b, Zenon DEF WindowInv, Cell
  <2>0. p \in Nat
    BY Facts
  <2>1. CASE p < E
    <3>1. p # E /\ ~(E + 1 <= p) /\ accepted'[p + 1] = accepted[p + 1]
      BY <2>0, <2>1, <1>e, Facts
    <3> QED
      BY Zenon, <3>1, <2>1, <1>0, <1>6 DEF WindowInv
  <2>2. CASE p = E
    BY <2>2, <1>a, <1>6, Facts
  <2>3. CASE p > E
    <3>1. ~(p < E + 1) /\ E <= p
      BY <2>0, <2>3, Facts
    <3> QED
      BY Zenon, <3>1, <1>0, <1>7 DEF WindowInv
  <2> QED
    BY <2>0, <2>1, <2>2, <2>3, Facts
<1>9. ASSUME NEW s \in Threads PROVE CallInv(s)'
  <2>0. CallInv(s) /\ call[s].pos \in Nat
    BY Zenon, Facts
  <2>1. CASE s = t
    <3>1. D <= E /\ E < E + 1
      BY Facts
    <3> QED
      BY Zenon, <2>1, <3>1, <1>b, <1>c, <1>d, <1>f
      DEF CallInv, Writing, Reading, Searching, InCell
  <2>2. CASE s # t
    <3>0. call'[s] = call[s] /\ MyCell(s)' = MyCell(s)
      BY Zenon, <2>2, <1>d DEF MyCell, Cell
    <3>1. ASSUME Writing(s)
          PROVE  call[s].pos < E + 1 /\ accepted'[call[s].pos + 1] = accepted[call[s].pos + 1]
      BY SMTT(40), <3>1, <2>0, <1>4, <1>e, Facts DEF Writing
    <3>2. ASSUME Reading(s)
          PROVE  /\ E + 1 <= call[s].pos + buffer_size
                 /\ accepted'[call[s].pos + 1] = accepted[call[s].pos + 1]
      <4>1. E <= call[s].pos + buffer_size /\ call[s].pos < E
        BY Zenon, <3>2, <2>0, <1>4 DEF CallInv, Reading
      <4>2. call[s].pos # E - buffer_size
        BY Zenon, <3>2, <1>a DEF ReaderAt
      <4> QED
        <5>1. E + 1 <= call[s].pos + buffer_size
          BY SMTT(40), <4>1, <4>2, <2>0, Facts, SizeFacts
        <5> QED
          BY Zenon, <5>1, <4>1, <2>0, <1>e
    <3>3. ASSUME Searching(s)
          PROVE  /\ call[s].pos <= Position(call[s].op)'
                 /\ call[s].pos = Position(call[s].op)' => call[s].op # "enqueue"
      <4>1. call[s].pos <= Position(call[s].op)
        BY Zenon, <3>3, <2>0 DEF CallInv
      <4> QED
        BY <4>1, <3>0, <2>0, <1>b, Facts, SMTT(40) DEF Position
    <3>4. (Writing(s)' <=> Writing(s)) /\ (Reading(s)' <=> Reading(s))
          /\ (Searching(s)' <=> Searching(s))
      BY Zenon, <3>0 DEF Writing, Reading, Searching, InCell
    <3>5. (call[s].at = "claim" /\ call[s].pos = Position(call[s].op)' =>
             sequence_[MyCell(s)] = Ready(call[s].op, call[s].pos))
      <4>1. call[s].op # "enqueue" => Position(call[s].op)' = Position(call[s].op)
        BY Zenon, <3>0, <1>b DEF Position
      <4> QED
        BY Zenon, <4>1, <3>3, <2>0 DEF CallInv, Searching
    <3> QED
      BY <2>0, <3>0, <3>1, <3>2, <3>3, <3>4, <3>5, <1>b, ZenonT(40) DEF CallInv, Ready
  <2> QED
    BY Zenon, <2>1, <2>2
<1> QED
  BY Zenon, <1>1, <1>2, <1>5, <1>8, <1>9 DEF IInv

LEMMA DequeueClaimsIInv ==
    ASSUME IInv, NEW t \in Threads, DequeueClaims(t)
    PROVE  IInv'
<1> DEFINE E == enqueue_pos_
           D == dequeue_pos_
<1>0. TypeOK /\ Distinct /\ WindowInv /\ CallInv(t) /\ In(t, "dequeue", "claim")
  BY Zenon DEF IInv, DequeueClaims
<1>a. /\ D < E /\ sequence_[Cell(D)] = D + 1 /\ ~WriterAt(D)
      /\ data_[Cell(D)] = accepted[D + 1]
  BY Zenon, DequeueFindsItem
<1>b. /\ UNCHANGED <<sequence_, data_, enqueue_pos_, accepted>>
      /\ dequeue_pos_' = D + 1 /\ call[t].pos = D
  BY Zenon DEF DequeueClaims, cells
<1>d. /\ call'[t].op = "dequeue" /\ call'[t].at = "copy" /\ call'[t].pos = D
      /\ \A s \in Threads \ {t} : call'[s] = call[s]
  BY Zenon, <1>0, <1>b DEF DequeueClaims, TypeOK, In
<1>1. TypeOK'
  <2>1. call' \in [Threads -> [op : Ops, at : Points, pos : Nat, item : Data \cup {NoData}]]
    <3> DEFINE Records == [op : Ops, at : Points, pos : Nat, item : Data \cup {NoData}]
    <3>1. call' = [call EXCEPT ![t] = [call[t] EXCEPT !.at = "copy"]]
      BY Zenon DEF DequeueClaims
    <3>2. call \in [Threads -> Records]
      BY Zenon, <1>0 DEF TypeOK, Ops
    <3>3. call[t] \in Records /\ "copy" \in Points
      BY Zenon, <3>2 DEF Points
    <3>4. [call[t] EXCEPT !.at = "copy"] \in Records
      BY Zenon, <3>3
    <3> HIDE DEF Records
    <3>5. call' \in [Threads -> Records]
      BY Zenon, <3>1, <3>2, <3>4
    <3> QED BY Zenon, <3>5 DEF Records
  <2> QED
    BY <2>1, <1>0, <1>b, Facts DEF TypeOK, Ops
<1>2. Bounded' /\ Len(accepted)' = enqueue_pos_'
  BY <1>a, <1>b, Facts, SizeFacts DEF Bounded
<1>3. ~InCell(t) /\ InCell(t)' /\ \A s \in Threads \ {t} : InCell(s)' <=> InCell(s)
  BY Zenon, <1>0, <1>d DEF InCell, In
<1>4. \A s \in Threads : InCell(s) => call[s].pos # D
  <2> TAKE s \in Threads
  <2> HAVE InCell(s)
  <2>1. CallInv(s) /\ call[s].pos \in Nat
    BY Zenon, Facts
  <2>2. CASE Writing(s)
    BY Zenon, <2>2, <1>a DEF WriterAt
  <2>3. CASE Reading(s)
    BY <2>1, <2>3, Facts DEF CallInv
  <2> QED
    BY Zenon, <2>1, <2>2, <2>3 DEF CallInv, InCell, Writing, Reading
<1>5. Distinct'
  BY Zenon, <1>0, <1>3, <1>4, <1>d DEF Distinct
<1>6. \A p : WriterAt(p)' <=> WriterAt(p)
  BY Zenon, <1>3, <1>d DEF WriterAt, Writing
<1>7. \A p : ReaderAt(p)' <=> ReaderAt(p) \/ p = D
  BY Zenon, <1>3, <1>d DEF ReaderAt, Reading
<1>8. WindowInv'
  <2> SUFFICES ASSUME NEW p \in (D + 1)..(D + 1 + buffer_size - 1)
               PROVE  /\ p < E /\ WriterAt(p)' => sequence_[Cell(p)] = p
                      /\ p < E /\ ~WriterAt(p)' =>
                           sequence_[Cell(p)] = p + 1 /\ data_[Cell(p)] = accepted[p + 1]
                      /\ E <= p /\ ReaderAt(p - buffer_size)' =>
                           sequence_[Cell(p)] = p - buffer_size + 1
                      /\ E <= p /\ ~ReaderAt(p - buffer_size)' =>
                           sequence_[Cell(p)] = p
    BY Zenon, <1>b DEF WindowInv, Cell
  <2>1. CASE p = D + buffer_size
    <3>1. p - buffer_size = D /\ ~(p < E)
      BY <2>1, Facts, SizeFacts
    <3>2. Cell(p) = Cell(D)
      BY Zenon, <2>1, CellLap, Facts
    <3> QED
      BY Zenon, <3>1, <3>2, <1>a, <1>7
  <2>2. CASE p # D + buffer_size
    <3>1. p \in D..(D + buffer_size - 1) /\ p - buffer_size # D
      BY SMTT(40), <2>2, Facts, SizeFacts
    <3> QED
      BY Zenon, <3>1, <1>0, <1>6, <1>7 DEF WindowInv
  <2> QED
    BY Zenon, <2>1, <2>2
<1>9. ASSUME NEW s \in Threads PROVE CallInv(s)'
  <2>0. CallInv(s) /\ call[s].pos \in Nat
    BY Zenon, Facts
  <2>1. CASE s = t
    <3>1. D < D + 1 /\ E <= D + buffer_size
      BY Facts
    <3>2. MyCell(t)' = Cell(D)
      BY Zenon, <1>d DEF MyCell, Cell
    <3> QED
      BY Zenon, <2>1, <3>1, <3>2, <1>a, <1>b, <1>d
      DEF CallInv, Writing, Reading, Searching, InCell
  <2>2. CASE s # t
    <3>0. call'[s] = call[s] /\ MyCell(s)' = MyCell(s)
      BY Zenon, <2>2, <1>d DEF MyCell, Cell
    <3>1. ASSUME Writing(s) PROVE D + 1 <= call[s].pos
      <4>1. D <= call[s].pos /\ call[s].pos # D
        BY Zenon, <3>1, <2>0, <1>4 DEF CallInv, Writing
      <4> QED
        BY <4>1, <2>0, Facts, SMTT(40)
    <3>2. ASSUME Reading(s) PROVE call[s].pos < D + 1
      BY <3>2, <2>0, Facts, SMTT(40) DEF CallInv
    <3>3. ASSUME Searching(s)
          PROVE  /\ call[s].pos <= Position(call[s].op)'
                 /\ call[s].pos = Position(call[s].op)' => call[s].op = "enqueue"
      <4>1. call[s].pos <= Position(call[s].op)
        BY Zenon, <3>3, <2>0 DEF CallInv
      <4> QED
        BY <4>1, <3>0, <2>0, <1>b, Facts, SMTT(40) DEF Position
    <3>4. (Writing(s)' <=> Writing(s)) /\ (Reading(s)' <=> Reading(s))
          /\ (Searching(s)' <=> Searching(s))
      BY Zenon, <3>0 DEF Writing, Reading, Searching, InCell
    <3>5. (call[s].at = "claim" /\ call[s].pos = Position(call[s].op)' =>
             sequence_[MyCell(s)] = Ready(call[s].op, call[s].pos))
      <4>1. call[s].op = "enqueue" => Position(call[s].op)' = Position(call[s].op)
        BY Zenon, <3>0, <1>b DEF Position
      <4> QED
        BY Zenon, <4>1, <3>3, <2>0 DEF CallInv, Searching
    <3> QED
      BY Zenon, <2>0, <3>0, <3>1, <3>2, <3>3, <3>4, <3>5, <1>b DEF CallInv, Ready
  <2> QED
    BY Zenon, <2>1, <2>2
<1> QED
  BY Zenon, <1>1, <1>2, <1>5, <1>8, <1>9 DEF IInv

\* Positions in cells lie within one lap, so their cells differ.
LEMMA CellsOfCalls ==
    ASSUME IInv, NEW s \in Threads, NEW t \in Threads, s # t, InCell(s), InCell(t)
    PROVE  MyCell(s) # MyCell(t)
<1>1. ASSUME NEW u \in Threads, InCell(u)
      PROVE  /\ call[u].pos \in Nat /\ call[u].pos < enqueue_pos_
             /\ enqueue_pos_ <= call[u].pos + buffer_size
  <2>1. CallInv(u) /\ call[u].pos \in Nat
    BY Zenon, Facts
  <2>2. CASE Writing(u)
    <3>1. dequeue_pos_ <= call[u].pos /\ call[u].pos < enqueue_pos_
      BY Zenon, <2>1, <2>2 DEF CallInv
    <3> QED
      BY <2>1, <3>1, Facts, SizeFacts, SMTT(40)
  <2>3. CASE Reading(u)
    <3>1. call[u].pos < dequeue_pos_ /\ enqueue_pos_ <= call[u].pos + buffer_size
      BY Zenon, <2>1, <2>3 DEF CallInv
    <3> QED
      BY <2>1, <3>1, Facts, SizeFacts, SMTT(40)
  <2> QED
    BY Zenon, <1>1, <2>1, <2>2, <2>3 DEF CallInv, InCell, Writing, Reading
<1>2. call[s].pos # call[t].pos
  BY Zenon DEF IInv, Distinct
<1>3. /\ call[s].pos \in Nat /\ call[t].pos \in Nat
      /\ call[s].pos < call[t].pos + buffer_size
      /\ call[t].pos < call[s].pos + buffer_size
  BY SMTT(40), <1>1, SizeFacts, Facts
<1> QED
  BY Zenon, <1>2, <1>3, Apart DEF MyCell

\* A writer's cell belongs to the window and carries its position.
LEMMA WritersCell ==
    ASSUME IInv, NEW t \in Threads, Writing(t)
    PROVE  /\ call[t].pos \in dequeue_pos_..(dequeue_pos_ + buffer_size - 1)
           /\ call[t].pos < enqueue_pos_
           /\ sequence_[MyCell(t)] = call[t].pos
           /\ \A p \in dequeue_pos_..(dequeue_pos_ + buffer_size - 1) :
                p # call[t].pos => Cell(p) # MyCell(t)
<1>1. /\ dequeue_pos_ <= call[t].pos /\ call[t].pos < enqueue_pos_
      /\ call[t].pos \in Nat
  BY Zenon, Facts DEF CallInv
<1>2. call[t].pos \in dequeue_pos_..(dequeue_pos_ + buffer_size - 1)
  BY SMTT(40), <1>1, Facts, SizeFacts
<1>3. WriterAt(call[t].pos)
  BY Zenon DEF WriterAt
<1>4. sequence_[MyCell(t)] = call[t].pos
  BY Zenon, <1>1, <1>2, <1>3 DEF IInv, WindowInv, MyCell
<1>5. ASSUME NEW p \in dequeue_pos_..(dequeue_pos_ + buffer_size - 1), p # call[t].pos
      PROVE  Cell(p) # MyCell(t)
  <2>1. /\ p \in Nat
        /\ p < call[t].pos + buffer_size /\ call[t].pos < p + buffer_size
    BY SMTT(40), <1>1, <1>2, Facts, SizeFacts
  <2> QED
    BY Zenon, <1>1, <1>5, <2>1, Apart DEF MyCell
<1> QED
  BY Zenon, <1>1, <1>2, <1>4, <1>5

\* A reader's cell is that of the same position a lap later.
LEMMA ReadersCell ==
    ASSUME IInv, NEW t \in Threads, Reading(t)
    PROVE  /\ call[t].pos + buffer_size \in dequeue_pos_..(dequeue_pos_ + buffer_size - 1)
           /\ enqueue_pos_ <= call[t].pos + buffer_size
           /\ MyCell(t) = Cell(call[t].pos + buffer_size)
           /\ sequence_[MyCell(t)] = call[t].pos + 1
           /\ \A p \in dequeue_pos_..(dequeue_pos_ + buffer_size - 1) :
                p # call[t].pos + buffer_size => Cell(p) # MyCell(t)
<1> DEFINE n == call[t].pos + buffer_size
<1>1. /\ call[t].pos < dequeue_pos_ /\ enqueue_pos_ <= n
      /\ call[t].pos \in Nat
  BY Zenon, Facts DEF CallInv
<1>2. n \in dequeue_pos_..(dequeue_pos_ + buffer_size - 1) /\ n - buffer_size = call[t].pos
  BY SMTT(40), <1>1, Facts, SizeFacts
<1>3. ReaderAt(n - buffer_size)
  BY Zenon, <1>2 DEF ReaderAt
<1>4. MyCell(t) = Cell(n)
  BY Zenon, <1>1, CellLap DEF MyCell
<1>5. sequence_[MyCell(t)] = n - buffer_size + 1
  BY Zenon, <1>1, <1>2, <1>3, <1>4 DEF IInv, WindowInv
<1>6. ASSUME NEW p \in dequeue_pos_..(dequeue_pos_ + buffer_size - 1), p # n
      PROVE  Cell(p) # MyCell(t)
  <2>1. p \in Nat /\ n \in Nat /\ p < n + buffer_size /\ n < p + buffer_size
    BY SMTT(40), <1>1, <1>2, Facts, SizeFacts
  <2> HIDE DEF n
  <2> QED
    BY Zenon, <1>4, <1>6, <2>1, Apart
<1> QED
  BY Zenon, <1>1, <1>2, <1>4, <1>5, <1>6

LEMMA EnqueueCopiesIInv ==
    ASSUME IInv, NEW t \in Threads, EnqueueCopies(t)
    PROVE  IInv'
<1>0. TypeOK /\ Distinct /\ WindowInv /\ CallInv(t) /\ In(t, "enqueue", "copy")
  BY Zenon DEF IInv, EnqueueCopies
<1>a. Writing(t) /\ InCell(t)
  BY Zenon, <1>0 DEF Writing, InCell, In
<1>b. /\ UNCHANGED <<sequence_, enqueue_pos_, dequeue_pos_, accepted>>
      /\ data_' = [data_ EXCEPT ![MyCell(t)] = call[t].item]
  BY Zenon DEF EnqueueCopies
<1>c. MyCell(t) \in 0..(buffer_size - 1) /\ \A p \in Nat : Cell(p) \in 0..(buffer_size - 1)
  BY CellRange, Facts, Zenon DEF MyCell
<1>d. /\ call'[t].op = "enqueue" /\ call'[t].at = "publish"
      /\ call'[t].pos = call[t].pos /\ call'[t].item = call[t].item
      /\ \A s \in Threads \ {t} : call'[s] = call[s]
  BY Zenon, <1>0 DEF EnqueueCopies, TypeOK, In
<1>e. data_'[MyCell(t)] = call[t].item
  BY Zenon, <1>0, <1>b, <1>c DEF TypeOK
<1>f. \A i \in 0..(buffer_size - 1) : i # MyCell(t) => data_'[i] = data_[i]
  BY Zenon, <1>0, <1>b DEF TypeOK
<1>1. TypeOK'
  <2>1. call' \in [Threads -> [op : Ops, at : Points, pos : Nat, item : Data \cup {NoData}]]
    BY ZenonT(40), <1>0 DEF TypeOK, EnqueueCopies, Points, Ops
  <2>2. data_' \in [0..(buffer_size - 1) -> Data \cup {NoData}]
    BY <1>0, <1>b, <1>c, Zenon DEF TypeOK
  <2> QED
    BY Zenon, <2>1, <2>2, <1>0, <1>b DEF TypeOK, Ops
<1>2. Bounded' /\ Len(accepted)' = enqueue_pos_'
  BY Zenon, <1>b DEF IInv, Bounded
<1>3. \A s \in Threads : (InCell(s)' <=> InCell(s)) /\ call'[s].pos = call[s].pos
                          /\ call'[s].op = call[s].op
  BY Zenon, <1>0, <1>a, <1>d DEF InCell, In
<1>5. Distinct'
  BY Zenon, <1>0, <1>3 DEF Distinct
<1>6. \A p : (WriterAt(p)' <=> WriterAt(p)) /\ (ReaderAt(p)' <=> ReaderAt(p))
  BY Zenon, <1>3 DEF WriterAt, Writing, ReaderAt, Reading
<1>7. ASSUME NEW p \in dequeue_pos_..(dequeue_pos_ + buffer_size - 1), ~WriterAt(p)
      PROVE  data_'[Cell(p)] = data_[Cell(p)]
  <2>1. p # call[t].pos /\ p \in Nat
    BY <1>7, <1>a, Facts DEF WriterAt
  <2> QED
    BY Zenon, <2>1, <1>a, <1>c, <1>f, WritersCell
<1>8. WindowInv'
  BY Zenon, <1>0, <1>b, <1>6, <1>7 DEF WindowInv, Cell
<1>9. ASSUME NEW s \in Threads PROVE CallInv(s)'
  <2>0. CallInv(s) /\ call[s].pos \in Nat /\ MyCell(s)' = MyCell(s)
    BY Zenon, <1>3, Facts DEF MyCell, Cell
  <2>1. CASE s = t
    BY Zenon, <2>0, <2>1, <1>a, <1>b, <1>d, <1>e
    DEF CallInv, Writing, Reading, Searching, InCell
  <2>2. CASE s # t
    <3>0. call'[s] = call[s]
      BY Zenon, <2>2, <1>d
    <3>1. InCell(s) => data_'[MyCell(s)] = data_[MyCell(s)]
      <4>1. MyCell(s) \in 0..(buffer_size - 1)
        BY Zenon, <2>0, <1>c DEF MyCell
      <4> QED
        BY Zenon, <2>2, <4>1, <1>a, <1>f, CellsOfCalls
    <3> QED
      BY Zenon, <2>0, <3>0, <3>1, <1>b
      DEF CallInv, Ready, Position, Writing, Reading, Searching, InCell
  <2> QED
    BY Zenon, <2>1, <2>2
<1> QED
  BY Zenon, <1>1, <1>2, <1>5, <1>8, <1>9 DEF IInv

LEMMA DequeueCopiesIInv ==
    ASSUME IInv, NEW t \in Threads, DequeueCopies(t)
    PROVE  IInv'
<1>0. TypeOK /\ Distinct /\ WindowInv /\ CallInv(t) /\ In(t, "dequeue", "copy")
  BY Zenon DEF IInv, DequeueCopies
<1>a. Reading(t) /\ InCell(t)
  BY Zenon, <1>0 DEF Reading, InCell, In
<1>b. UNCHANGED <<sequence_, data_, enqueue_pos_, dequeue_pos_, accepted>>
  BY Zenon DEF DequeueCopies, cells
<1>c. MyCell(t) \in 0..(buffer_size - 1)
  BY CellRange, Facts, Zenon DEF MyCell
<1>d. /\ call'[t].op = "dequeue" /\ call'[t].at = "publish"
      /\ call'[t].pos = call[t].pos /\ call'[t].item = data_[MyCell(t)]
      /\ \A s \in Threads \ {t} : call'[s] = call[s]
  BY Zenon, <1>0 DEF DequeueCopies, TypeOK, In
<1>1. TypeOK'
  <2>1. data_[MyCell(t)] \in Data \cup {NoData}
    BY Zenon, <1>0, <1>c DEF TypeOK
  <2>2. call' \in [Threads -> [op : Ops, at : Points, pos : Nat, item : Data \cup {NoData}]]
    <3> DEFINE x == data_[MyCell(t)]
    <3>1. call' = [call EXCEPT ![t] = [@ EXCEPT !.at = "publish", !.item = x]]
      BY <1>0, Zenon DEF DequeueCopies, TypeOK
    <3> HIDE DEF x
    <3>2. x \in Data \cup {NoData}
      BY Zenon, <2>1 DEF x
    <3> QED
      BY ZenonT(40), <1>0, <3>1, <3>2 DEF TypeOK, Points, Ops
  <2> QED
    BY Zenon, <2>2, <1>0, <1>b DEF TypeOK, Ops
<1>2. Bounded' /\ Len(accepted)' = enqueue_pos_'
  BY Zenon, <1>b DEF IInv, Bounded
<1>3. \A s \in Threads : (InCell(s)' <=> InCell(s)) /\ call'[s].pos = call[s].pos
                          /\ call'[s].op = call[s].op
  BY Zenon, <1>0, <1>a, <1>d DEF InCell, In
<1>5. Distinct'
  BY Zenon, <1>0, <1>3 DEF Distinct
<1>6. \A p : (WriterAt(p)' <=> WriterAt(p)) /\ (ReaderAt(p)' <=> ReaderAt(p))
  BY Zenon, <1>3 DEF WriterAt, Writing, ReaderAt, Reading
<1>8. WindowInv'
  BY Zenon, <1>0, <1>b, <1>6 DEF WindowInv, Cell
<1>9. ASSUME NEW s \in Threads PROVE CallInv(s)'
  <2>0. CallInv(s) /\ MyCell(s)' = MyCell(s)
    BY Zenon, <1>3, Facts DEF MyCell, Cell
  <2>1. CASE s = t
    <3>1. data_[MyCell(t)] = accepted[call[t].pos + 1]
      BY Zenon, <1>0, <1>a DEF CallInv, In
    <3> QED
      BY Zenon, <2>0, <2>1, <3>1, <1>a, <1>b, <1>d
      DEF CallInv, Writing, Reading, Searching, InCell
  <2>2. CASE s # t
    <3>0. call'[s] = call[s]
      BY Zenon, <2>2, <1>d
    <3> QED
      BY Zenon, <2>0, <3>0, <1>b
      DEF CallInv, Ready, Position, Writing, Reading, Searching, InCell
  <2> QED
    BY Zenon, <2>1, <2>2
<1> QED
  BY Zenon, <1>1, <1>2, <1>5, <1>8, <1>9 DEF IInv

LEMMA EnqueuePublishesIInv ==
    ASSUME IInv, NEW t \in Threads, EnqueuePublishes(t)
    PROVE  IInv'
<1> DEFINE W == dequeue_pos_..(dequeue_pos_ + buffer_size - 1)
<1>0. TypeOK /\ Distinct /\ WindowInv /\ CallInv(t) /\ In(t, "enqueue", "publish")
  BY Zenon DEF IInv, EnqueuePublishes
<1>a. Writing(t) /\ InCell(t) /\ call[t].pos \in Nat
  BY Zenon, <1>0, Facts DEF Writing, InCell, In
<1>b. /\ UNCHANGED <<data_, enqueue_pos_, dequeue_pos_, accepted>>
      /\ sequence_' = [sequence_ EXCEPT ![MyCell(t)] = call[t].pos + 1]
  BY Zenon DEF EnqueuePublishes
<1>c. MyCell(t) \in 0..(buffer_size - 1) /\ \A p \in Nat : Cell(p) \in 0..(buffer_size - 1)
  BY Zenon, CellRange, Facts DEF MyCell
<1>d. call'[t] = Idle /\ \A s \in Threads \ {t} : call'[s] = call[s]
  BY Zenon, <1>0 DEF EnqueuePublishes, TypeOK
<1>e. sequence_'[MyCell(t)] = call[t].pos + 1
  BY Zenon, <1>0, <1>b, <1>c DEF TypeOK
<1>f. \A i \in 0..(buffer_size - 1) : i # MyCell(t) => sequence_'[i] = sequence_[i]
  BY Zenon, <1>0, <1>b DEF TypeOK
<1>1. TypeOK'
  <2>1. call' \in [Threads -> [op : Ops, at : Points, pos : Nat, item : Data \cup {NoData}]]
    <3>1. Idle \in [op : Ops, at : Points, pos : Nat, item : Data \cup {NoData}]
      BY Zenon DEF Idle, Ops, Points
    <3> QED
      BY Zenon, <1>0, <3>1 DEF TypeOK, EnqueuePublishes, Ops
  <2>2. sequence_' \in [0..(buffer_size - 1) -> Nat]
    <3>1. call[t].pos + 1 \in Nat
      BY <1>a
    <3> QED
      BY <3>1, <1>0, <1>b, ZenonT(40) DEF TypeOK
  <2> QED
    BY Zenon, <2>1, <2>2, <1>0, <1>b DEF TypeOK, Ops
<1>2. Bounded' /\ Len(accepted)' = enqueue_pos_'
  BY Zenon, <1>b DEF IInv, Bounded
<1>3. \A s \in Threads : InCell(s)' <=> InCell(s) /\ s # t
  BY <1>d DEF InCell, Idle
<1>5. Distinct'
  BY Zenon, <1>0, <1>3, <1>d DEF Distinct
<1>6. \A p : WriterAt(p)' <=> WriterAt(p) /\ p # call[t].pos
  BY Zenon, <1>0, <1>3, <1>a, <1>d DEF WriterAt, Writing, Distinct
<1>7. \A p : ReaderAt(p)' <=> ReaderAt(p)
  BY Zenon, <1>0, <1>3, <1>d DEF ReaderAt, Reading, In
<1>8. WindowInv'
  <2> SUFFICES ASSUME NEW p \in W
               PROVE  /\ p < enqueue_pos_ /\ WriterAt(p)' => sequence_'[Cell(p)] = p
                      /\ p < enqueue_pos_ /\ ~WriterAt(p)' =>
                           sequence_'[Cell(p)] = p + 1 /\ data_[Cell(p)] = accepted[p + 1]
                      /\ enqueue_pos_ <= p /\ ReaderAt(p - buffer_size)' =>
                           sequence_'[Cell(p)] = p - buffer_size + 1
                      /\ enqueue_pos_ <= p /\ ~ReaderAt(p - buffer_size)' =>
                           sequence_'[Cell(p)] = p
    BY Zenon, <1>b DEF WindowInv, Cell
  <2>1. CASE p = call[t].pos
    <3>1. ~WriterAt(p)' /\ p < enqueue_pos_ /\ ~(enqueue_pos_ <= p)
      BY <2>1, <1>6, <1>a, WritersCell, Facts, SMTT(40)
    <3>2. data_[Cell(p)] = accepted[p + 1]
      BY Zenon, <2>1, <1>0, <1>a DEF CallInv, In, MyCell
    <3>3. sequence_'[Cell(p)] = p + 1
      BY Zenon, <2>1, <1>e DEF MyCell
    <3> QED
      BY Zenon, <3>1, <3>2, <3>3
  <2>2. CASE p # call[t].pos
    <3>1. Cell(p) # MyCell(t)
      BY Zenon, <2>2, <1>a, WritersCell
    <3>2. sequence_'[Cell(p)] = sequence_[Cell(p)]
      <4>1. p \in Nat
        BY Facts, SizeFacts
      <4>2. Cell(p) \in 0..(buffer_size - 1)
        BY Zenon, <4>1, <1>c
      <4> QED
        BY Zenon, <3>1, <4>2, <1>f
    <3>3. (WriterAt(p)' <=> WriterAt(p))
          /\ (ReaderAt(p - buffer_size)' <=> ReaderAt(p - buffer_size))
      BY Zenon, <2>2, <1>6, <1>7
    <3> QED
      BY Zenon, <3>2, <3>3, <1>0 DEF WindowInv
  <2> QED
    BY Zenon, <2>1, <2>2
<1>9. ASSUME NEW s \in Threads PROVE CallInv(s)'
  <2>0. CallInv(s) /\ call[s].pos \in Nat
    BY Zenon, Facts
  <2>1. CASE s = t
    BY <2>1, <1>d, SMTT(40) DEF CallInv, Writing, Reading, Searching, InCell, Idle
  <2>2. CASE s # t
    <3>0. call'[s] = call[s] /\ MyCell(s)' = MyCell(s) /\ MyCell(s) \in 0..(buffer_size - 1)
      BY Zenon, <2>0, <2>2, <1>c, <1>d DEF MyCell, Cell
    <3>1. ASSUME call[s].at = "claim", call[s].pos = Position(call[s].op)
          PROVE  MyCell(s) # MyCell(t)
      <4> SUFFICES ASSUME MyCell(s) = MyCell(t) PROVE FALSE
        BY Zenon
      <4>1. call[t].pos = Ready(call[s].op, call[s].pos) /\ call[t].pos < enqueue_pos_
        BY Zenon, <3>1, <2>0, <1>a, WritersCell DEF CallInv
      <4>2. CASE call[s].op = "enqueue"
        BY <4>1, <4>2, <3>1, Facts DEF Ready, Position
      <4>3. CASE call[s].op # "enqueue"
        <5>1. call[t].pos = call[s].pos + 1
          BY Zenon, <4>1, <4>3 DEF Ready
        <5>2. /\ call[s].pos < call[t].pos + buffer_size
              /\ call[t].pos < call[s].pos + buffer_size /\ call[s].pos # call[t].pos
          BY <5>1, <2>0, SizeFacts
        <5> QED
          BY Zenon, <5>2, <2>0, <1>a, Apart DEF MyCell
      <4> QED
        BY Zenon, <4>2, <4>3
    <3>2. Position(call[s].op)' = Position(call[s].op)
      BY Zenon, <3>0, <1>b DEF Position
    <3>3. (call[s].at = "claim" /\ call[s].pos = Position(call[s].op) =>
             sequence_'[MyCell(s)] = Ready(call[s].op, call[s].pos))
      BY Zenon, <2>0, <3>0, <3>1, <1>f DEF CallInv
    <3> QED
      BY Zenon, <2>0, <3>0, <3>2, <3>3, <1>b
      DEF CallInv, Ready, Writing, Reading, Searching, InCell
  <2> QED
    BY Zenon, <2>1, <2>2
<1> QED
  BY Zenon, <1>1, <1>2, <1>5, <1>8, <1>9 DEF IInv
LEMMA DequeueFreesIInv ==
    ASSUME IInv, NEW t \in Threads, DequeueFrees(t)
    PROVE  IInv'
<1> DEFINE W == dequeue_pos_..(dequeue_pos_ + buffer_size - 1)
<1>0. TypeOK /\ Distinct /\ WindowInv /\ CallInv(t) /\ In(t, "dequeue", "publish")
  BY Zenon DEF IInv, DequeueFrees
<1>a. Reading(t) /\ InCell(t) /\ call[t].pos \in Nat
  BY Zenon, <1>0, Facts DEF Reading, InCell, In
<1>b. /\ UNCHANGED <<data_, enqueue_pos_, dequeue_pos_, accepted>>
      /\ sequence_' = [sequence_ EXCEPT ![MyCell(t)] = call[t].pos + buffer_size]
  BY Zenon DEF DequeueFrees
<1>c. MyCell(t) \in 0..(buffer_size - 1) /\ \A p \in Nat : Cell(p) \in 0..(buffer_size - 1)
  BY Zenon, CellRange, Facts DEF MyCell
<1>d. call'[t] = Idle /\ \A s \in Threads \ {t} : call'[s] = call[s]
  BY Zenon, <1>0 DEF DequeueFrees, TypeOK
<1>e. sequence_'[MyCell(t)] = call[t].pos + buffer_size
  BY Zenon, <1>0, <1>b, <1>c DEF TypeOK
<1>f. \A i \in 0..(buffer_size - 1) : i # MyCell(t) => sequence_'[i] = sequence_[i]
  BY Zenon, <1>0, <1>b DEF TypeOK
<1>1. TypeOK'
  <2>1. call' \in [Threads -> [op : Ops, at : Points, pos : Nat, item : Data \cup {NoData}]]
    <3>1. Idle \in [op : Ops, at : Points, pos : Nat, item : Data \cup {NoData}]
      BY Zenon DEF Idle, Ops, Points
    <3> QED
      BY Zenon, <1>0, <3>1 DEF TypeOK, DequeueFrees, Ops
  <2>2. sequence_' \in [0..(buffer_size - 1) -> Nat]
    <3>1. call[t].pos + buffer_size \in Nat
      BY <1>a, SizeFacts
    <3> QED
      BY <3>1, <1>0, <1>b, ZenonT(40) DEF TypeOK
  <2> QED
    BY Zenon, <2>1, <2>2, <1>0, <1>b DEF TypeOK, Ops
<1>2. Bounded' /\ Len(accepted)' = enqueue_pos_'
  BY Zenon, <1>b DEF IInv, Bounded
<1>3. \A s \in Threads : InCell(s)' <=> InCell(s) /\ s # t
  BY <1>d DEF InCell, Idle
<1>5. Distinct'
  BY Zenon, <1>0, <1>3, <1>d DEF Distinct
<1>6. \A p : WriterAt(p)' <=> WriterAt(p)
  BY Zenon, <1>0, <1>3, <1>d DEF WriterAt, Writing, In
<1>7. \A p : ReaderAt(p)' <=> ReaderAt(p) /\ p # call[t].pos
  BY Zenon, <1>0, <1>3, <1>a, <1>d DEF ReaderAt, Reading, Distinct
<1>8. WindowInv'
  <2> SUFFICES ASSUME NEW p \in W
               PROVE  /\ p < enqueue_pos_ /\ WriterAt(p)' => sequence_'[Cell(p)] = p
                      /\ p < enqueue_pos_ /\ ~WriterAt(p)' =>
                           sequence_'[Cell(p)] = p + 1 /\ data_[Cell(p)] = accepted[p + 1]
                      /\ enqueue_pos_ <= p /\ ReaderAt(p - buffer_size)' =>
                           sequence_'[Cell(p)] = p - buffer_size + 1
                      /\ enqueue_pos_ <= p /\ ~ReaderAt(p - buffer_size)' =>
                           sequence_'[Cell(p)] = p
    BY Zenon, <1>b DEF WindowInv, Cell
  <2>1. CASE p = call[t].pos + buffer_size
    <3>1. p - buffer_size = call[t].pos /\ enqueue_pos_ <= p /\ ~(p < enqueue_pos_)
      BY SMTT(40), <2>1, <1>a, ReadersCell, Facts, SizeFacts
    <3>2. ~ReaderAt(p - buffer_size)'
      BY Zenon, <3>1, <1>7
    <3>3. sequence_'[Cell(p)] = p
      BY Zenon, <2>1, <1>a, <1>e, ReadersCell
    <3> QED
      BY Zenon, <3>1, <3>2, <3>3
  <2>2. CASE p # call[t].pos + buffer_size
    <3>0. p - buffer_size # call[t].pos
      BY <2>2, <1>a, Facts, SizeFacts
    <3>1. Cell(p) # MyCell(t)
      BY Zenon, <2>2, <1>a, ReadersCell
    <3>2. sequence_'[Cell(p)] = sequence_[Cell(p)]
      <4>1. p \in Nat
        BY Facts, SizeFacts
      <4>2. Cell(p) \in 0..(buffer_size - 1)
        BY Zenon, <4>1, <1>c
      <4> QED
        BY Zenon, <3>1, <4>2, <1>f
    <3>3. (WriterAt(p)' <=> WriterAt(p))
          /\ (ReaderAt(p - buffer_size)' <=> ReaderAt(p - buffer_size))
      BY Zenon, <3>0, <1>6, <1>7
    <3> QED
      BY Zenon, <3>2, <3>3, <1>0 DEF WindowInv
  <2> QED
    BY Zenon, <2>1, <2>2
<1>9. ASSUME NEW s \in Threads PROVE CallInv(s)'
  <2>0. CallInv(s) /\ call[s].pos \in Nat
    BY Zenon, Facts
  <2>1. CASE s = t
    BY <2>1, <1>d DEF CallInv, Writing, Reading, Searching, InCell, Idle
  <2>2. CASE s # t
    <3>0. call'[s] = call[s] /\ MyCell(s)' = MyCell(s) /\ MyCell(s) \in 0..(buffer_size - 1)
      BY Zenon, <2>0, <2>2, <1>c, <1>d DEF MyCell, Cell
    <3>1. ASSUME call[s].at = "claim", call[s].pos = Position(call[s].op)
          PROVE  MyCell(s) # MyCell(t)
      <4> SUFFICES ASSUME MyCell(s) = MyCell(t) PROVE FALSE
        BY Zenon
      <4>1. /\ call[t].pos + 1 = Ready(call[s].op, call[s].pos)
            /\ call[t].pos < dequeue_pos_
        <5>1. sequence_[MyCell(s)] = Ready(call[s].op, call[s].pos)
          BY <3>1, <2>0, Zenon DEF CallInv
        <5>2. sequence_[MyCell(t)] = call[t].pos + 1
          BY <1>a, ReadersCell, Zenon
        <5>3. call[t].pos < dequeue_pos_
          BY <1>0, <1>a, Zenon DEF CallInv
        <5> QED
          BY <5>1, <5>2, <5>3, Zenon
      <4>2. CASE call[s].op # "enqueue"
        BY <4>1, <4>2, <3>1, <1>a, Facts, SMTT(40) DEF Ready, Position
      <4>3. CASE call[s].op = "enqueue"
        <5>1. call[s].pos = call[t].pos + 1
          BY Zenon, <4>1, <4>3 DEF Ready
        <5>2. /\ call[s].pos < call[t].pos + buffer_size
              /\ call[t].pos < call[s].pos + buffer_size /\ call[s].pos # call[t].pos
          BY <5>1, <1>a, SizeFacts
        <5> QED
          BY Zenon, <5>2, <2>0, <1>a, Apart DEF MyCell
      <4> QED
        BY <4>2, <4>3, Zenon
    <3>2. Position(call[s].op)' = Position(call[s].op)
      BY Zenon, <3>0, <1>b DEF Position
    <3>3. (call[s].at = "claim" /\ call[s].pos = Position(call[s].op) =>
             sequence_'[MyCell(s)] = Ready(call[s].op, call[s].pos))
      BY Zenon, <2>0, <3>0, <3>1, <1>f DEF CallInv
    <3> QED
      BY Zenon, <2>0, <3>0, <3>2, <3>3, <1>b
      DEF CallInv, Ready, Writing, Reading, Searching, InCell
  <2> QED
    BY Zenon, <2>1, <2>2
<1> QED
  BY Zenon, <1>1, <1>2, <1>5, <1>8, <1>9 DEF IInv
-----------------------------------------------------------------------------
(* Theorems                                                                *)

\* The invariant holds in every state, for any number of threads and items and
\* any size that the constructor's assertion lets pass.
THEOREM Invariance == Spec => []IInv
<1>1. ASSUME IInv, [Next]_vars PROVE IInv'
  <2>1. CASE UNCHANGED vars
    <3>1. UNCHANGED <<sequence_, data_, enqueue_pos_, dequeue_pos_, call, accepted>>
      BY Zenon, <2>1 DEF vars, cells
    <3> QED
      BY <1>1, <3>1
      DEF IInv, TypeOK, Bounded, Distinct, WindowInv, CallInv, InCell, Writing, Reading,
          WriterAt, ReaderAt, Searching, Position, Ready, MyCell, Cell
  <2>2. ASSUME NEW t \in Threads,
               \/ \E item \in Data : enqueue(t, item)
               \/ dequeue(t) \/ Claims(t) \/ ClaimFails(t) \/ Proceeds(t)
        PROVE  IInv'
    BY Zenon, <1>1, <2>2, SearchIInv, EnqueueClaimsIInv, DequeueClaimsIInv, EnqueueCopiesIInv,
       DequeueCopiesIInv, EnqueuePublishesIInv, DequeueFreesIInv
    DEF Claims, Proceeds
  <2> QED
    BY ZenonT(40), <1>1, <2>1, <2>2 DEF Next
<1> QED
  BY <1>1, InitIInv, PTL DEF Spec

\* The cells, the positions and the calls keep their types.
THEOREM TypeCorrect == Spec => []TypeOK
<1>1. IInv => TypeOK
  BY Zenon DEF IInv
<1> QED
  BY <1>1, Invariance, PTL

\* Between its claim and its store to sequence_ a call has its cell for itself.
THEOREM ExclusiveCells == Spec => []CellsAreExclusive
<1>1. IInv => CellsAreExclusive
  BY Zenon, CellsOfCalls DEF CellsAreExclusive
<1> QED
  BY <1>1, Invariance, PTL

\* dequeue returns the items in the order in which enqueue claimed positions.
THEOREM QueueOrder == Spec => []FirstInFirstOut
<1>1. IInv => FirstInFirstOut
  BY Zenon DEF IInv, FirstInFirstOut, CallInv, Reading, InCell, In
<1> QED
  BY <1>1, Invariance, PTL

\* The queue never holds more than buffer_size items.
THEOREM QueueBounded == Spec => []Bounded
<1>1. IInv => Bounded
  BY Zenon DEF IInv
<1> QED
  BY <1>1, Invariance, PTL
-----------------------------------------------------------------------------
(* What false means to a call that is alone                                *)

\* Every position, however stale, shares its cell with one of the window.
LEMMA WindowHasCell ==
    ASSUME NEW a \in Nat, NEW d \in Nat
    PROVE  \E p \in d..(d + buffer_size - 1) : Cell(p) = Cell(a)
<1> DEFINE q == d \div buffer_size
           r == Cell(a)
           e == Cell(d)
<1>1. /\ q \in Int /\ d = buffer_size * q + e
      /\ r \in 0..(buffer_size - 1) /\ e \in 0..(buffer_size - 1)
  BY Zenon, CellDivision, CellRange
<1> HIDE DEF q, r, e
<1>2. CASE e <= r
  <2>1. d + (r - e) = buffer_size * q + r /\ d + (r - e) \in d..(d + buffer_size - 1)
    BY <1>1, <1>2, SizeFacts
  <2>2. d + (r - e) \in Nat
    BY <1>1, <1>2, SizeFacts
  <2>3. Cell(d + (r - e)) = r
    BY Zenon, <1>1, <2>1, <2>2, RemainderUnique
  <2> QED
    BY Zenon, <2>1, <2>3 DEF r
<1>3. CASE r < e
  <2>0. buffer_size * (q + 1) = buffer_size * q + buffer_size /\ q + 1 \in Int
    BY <1>1, SizeFacts
  <2>1. /\ d + (r - e) + buffer_size = buffer_size * (q + 1) + r
        /\ d + (r - e) + buffer_size \in d..(d + buffer_size - 1)
        /\ d + (r - e) + buffer_size \in Nat
    BY <1>1, <1>3, <2>0, SizeFacts
  <2>2. Cell(d + (r - e) + buffer_size) = r
    BY Zenon, <1>1, <2>0, <2>1, RemainderUnique
  <2> QED
    BY Zenon, <2>1, <2>2 DEF r
<1> QED
  BY <1>1, <1>2, <1>3, SizeFacts

\* Only LoadSequence(t) makes thread t return false.
LEMMA FailsByLoad ==
    ASSUME TypeOK, Next, NEW t \in Threads, call[t].at = "load", call'[t].at = "idle"
    PROVE  LoadSequence(t)
<1>1. PICK s \in Threads : \/ \E item \in Data : enqueue(s, item)
                          \/ dequeue(s) \/ Claims(s) \/ ClaimFails(s) \/ Proceeds(s)
  BY Zenon DEF Next
<1>2. s = t
  <2>1. \E c : call' = [call EXCEPT ![s] = c]
    BY Zenon, <1>1
    DEF enqueue, dequeue, Begin, Claims, EnqueueClaims, DequeueClaims, ClaimFails, Proceeds,
        LoadSequence, Reload, EnqueueCopies, EnqueuePublishes, DequeueCopies, DequeueFrees
  <2> QED
    BY Zenon, <2>1 DEF TypeOK
<1> QED
  BY Zenon, <1>1, <1>2
  DEF enqueue, dequeue, Begin, Claims, EnqueueClaims, DequeueClaims, ClaimFails, Proceeds,
      Reload, EnqueueCopies, EnqueuePublishes, DequeueCopies, DequeueFrees, In

\* A call that returns false while no other call is under way tells the truth.
THEOREM TruthfulAlone == Spec => FalseIsTrueAlone
<1> DEFINE A == \A t \in Threads :
                  (\A s \in Threads \ {t} : call[s].at = "idle")
                  => /\ Fails(t, "enqueue") => Full
                     /\ Fails(t, "dequeue") => Empty
<1>1. ASSUME IInv, [Next]_vars PROVE [A]_vars
  <2> SUFFICES ASSUME Next, NEW t \in Threads,
                      \A s \in Threads \ {t} : call[s].at = "idle",
                      call[t].at = "load", call'[t].at = "idle",
                      call[t].op \in {"enqueue", "dequeue"}
               PROVE  /\ call[t].op = "enqueue" => Full
                      /\ call[t].op = "dequeue" => Empty
    BY Zenon, <1>1 DEF Fails, In
  <2> DEFINE pos == call[t].pos
             W == dequeue_pos_..(dequeue_pos_ + buffer_size - 1)
  <2>0. TypeOK /\ CallInv(t) /\ WindowInv /\ pos \in Nat
    BY Zenon, <1>1, Facts DEF IInv
  <2>1. LoadSequence(t)
    BY Zenon, <2>0, FailsByLoad
  <2>2. pos <= Position(call[t].op)
    BY Zenon, <2>0 DEF CallInv, Searching
  <2>3. \A p : ~WriterAt(p) /\ ~ReaderAt(p)
    BY Zenon DEF WriterAt, ReaderAt, Writing, Reading, InCell
  <2>4. \A p \in W : /\ p < enqueue_pos_ => sequence_[Cell(p)] = p + 1
                     /\ enqueue_pos_ <= p => sequence_[Cell(p)] = p
    BY Zenon, <2>0, <2>3 DEF WindowInv
  <2>5. PICK p \in W : Cell(p) = Cell(pos)
    BY <2>0, <1>1, Facts, WindowHasCell, Zenon
  <2>6. p \in Nat /\ dequeue_pos_ <= p
    BY <1>1, Facts, SizeFacts
  <2>7. sequence_[Cell(p)] < Ready(call[t].op, pos)
    <3>1. sequence_[MyCell(t)] \in Nat /\ Ready(call[t].op, pos) \in Nat
      <4>1. MyCell(t) \in 0..(buffer_size - 1)
        BY Zenon, <2>0, CellRange DEF MyCell
      <4> QED
        BY <4>1, <2>0 DEF TypeOK, Ready
    <3>2. sequence_[MyCell(t)] - Ready(call[t].op, pos) < 0
      BY Zenon, <2>0, <2>1 DEF LoadSequence, TypeOK
    <3> QED
      BY <3>1, <3>2, <2>5 DEF MyCell
  <2>8. ASSUME call[t].op = "enqueue" PROVE Full
    <3>1. pos <= enqueue_pos_ /\ sequence_[Cell(p)] < pos
      BY Zenon, <2>2, <2>7, <2>8 DEF Position, Ready
    <3>2. p < pos
      BY <3>1, <2>0, <2>4, <2>6, <1>1, Facts
    <3>3. p + buffer_size <= pos
      BY <3>2, <2>0, <2>5, <2>6, CellsDiffer, SizeFacts
    <3> QED
      BY SMTT(40), <3>1, <3>3, <2>0, <2>6, <1>1, Facts, SizeFacts DEF Full
  <2>9. ASSUME call[t].op = "dequeue" PROVE Empty
    <3>1. pos <= dequeue_pos_ /\ sequence_[Cell(p)] < pos + 1
      BY Zenon, <2>2, <2>7, <2>9 DEF Position, Ready
    <3>2. enqueue_pos_ <= p
      BY <3>1, <2>0, <2>4, <2>6, <1>1, Facts
    <3>3. p < pos + 1
      BY Zenon, <3>1, <3>2, <2>4
    <3> QED
      BY <3>1, <3>2, <3>3, <2>0, <2>6, <1>1, Facts DEF Empty
  <2> QED
    BY Zenon, <2>8, <2>9
<1>2. Spec => [][A]_vars
  <2>1. IInv /\ [Next]_vars => [A]_vars
    BY Zenon, <1>1
  <2> QED
    BY <2>1, Invariance, PTL DEF Spec
<1> QED
  BY Zenon, <1>2 DEF FalseIsTrueAlone
=============================================================================
