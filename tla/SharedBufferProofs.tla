------------------------- MODULE SharedBufferProofs -------------------------
(***************************************************************************)
(* Theorems about SharedBuffer: no call reports corruption, no byte in     *)
(* transit is overwritten, and the buffer implements ByteChannel, for any  *)
(* numbers of writers and readers, any payloads and any size.              *)
(***************************************************************************)
EXTENDS SharedBuffer, Integers, SequenceTheorems, TLAPS

\* Positions are at most one lap apart, so that a remainder is one subtraction.
Wrap(a) == IF a < usable_len THEN a ELSE a - usable_len

Used == NumBytesInUse(read_pos, write_pos)

\* At most one call of each side is under way, and it has set the flag.
WriteLock ==
    /\ \A w \in Writers : writer[w].at # "idle" => write_flag
    /\ \A v, w \in Writers : writer[v].at # "idle" /\ writer[w].at # "idle" => v = w

ReadLock ==
    /\ \A r \in Readers : reader[r].at # "idle" => read_flag
    /\ \A q, r \in Readers : reader[q].at # "idle" /\ reader[r].at # "idle" => q = r

\* What a TryWrite knows: room can only have grown since it loaded read_pos, and
\* the bytes it copied are in the region behind write_pos.
WriterInv(w) ==
    /\ writer[w].at \in {"load_read", "load_write", "copy"} =>
         writer[w].data \in Payloads /\ writer[w].len = Len(writer[w].data)
    /\ writer[w].at \in {"load_read", "load_write"} => writer[w].copied = 0
    /\ writer[w].at = "load_write" =>
         Used <= NumBytesInUse(writer[w].cur_read_pos, write_pos)
    /\ writer[w].at = "copy" =>
         /\ writer[w].cur_write_pos = write_pos
         /\ writer[w].copied <= writer[w].len
         /\ Used + writer[w].len < usable_len
         /\ \A i \in 1..writer[w].copied :
              region[Wrap(write_pos + i - 1)] = writer[w].data[i]
    /\ writer[w].result # "corruption"

\* What a TryReadLocked knows: the bytes it is going to consume are in transit, and
\* it has a prefix of them.
ReaderInv(r) ==
    /\ reader[r].at \in {"load_read", "load_write"} =>
         reader[r].data = <<>> /\ reader[r].len > 0
    /\ reader[r].at \in {"load_write", "copy"} => reader[r].cur_read_pos = read_pos
    /\ reader[r].at = "copy" =>
         /\ 0 < reader[r].len /\ reader[r].len <= Used
         /\ Len(reader[r].data) <= reader[r].len
         /\ read_pos < reader[r].cur_write_pos =>
              read_pos + reader[r].len <= reader[r].cur_write_pos
         /\ \A i \in 1..Len(reader[r].data) :
              reader[r].data[i] = region[Wrap(read_pos + i - 1)]
    /\ reader[r].result # "corruption"

IInv ==
    /\ TypeOK /\ WriteLock /\ ReadLock
    /\ \A w \in Writers : WriterInv(w)
    /\ \A r \in Readers : ReaderInv(r)
-----------------------------------------------------------------------------
(* Arithmetic of positions                                                 *)

\* A remainder is the one number in range that is a multiple away.
LEMMA RemainderUnique ==
    ASSUME NEW a \in Nat, NEW q \in Int, NEW r \in Positions, a = usable_len * q + r
    PROVE  a % usable_len = r
BY SizeAssumption DEF Positions

\* Up to two laps a remainder is at most one subtraction.
LEMMA Remainder ==
    ASSUME NEW a \in Nat, a < usable_len + usable_len
    PROVE  /\ a % usable_len = Wrap(a)
           /\ Wrap(a) \in Positions
<1>1. CASE a < usable_len
  <2>1. a \in Positions /\ a = usable_len * 0 + a
    BY <1>1, SizeAssumption DEF Positions
  <2>2. a % usable_len = a
    BY <2>1, RemainderUnique
  <2> QED
    BY Zenon, <1>1, <2>1, <2>2 DEF Wrap
<1>2. CASE ~(a < usable_len)
  <2>1. a - usable_len \in Positions /\ a = usable_len * 1 + (a - usable_len)
    BY <1>2, SizeAssumption DEF Positions
  <2>2. a % usable_len = a - usable_len
    BY <2>1, RemainderUnique
  <2> QED
    BY Zenon, <1>2, <2>1, <2>2 DEF Wrap
<1> QED
  BY Zenon, <1>1, <1>2

\* The number of bytes in use never reaches the size, and leads from one position
\* to the other.
LEMMA UsedRange ==
    ASSUME NEW r \in Positions, NEW w \in Positions
    PROVE  /\ NumBytesInUse(r, w) \in Nat
           /\ NumBytesInUse(r, w) < usable_len
           /\ Wrap(r + NumBytesInUse(r, w)) = w
BY SizeAssumption DEF Positions, NumBytesInUse, Wrap

\* Writing n bytes, when they fit, puts n more in use.
LEMMA UsedAfterWrite ==
    ASSUME NEW r \in Positions, NEW w \in Positions, NEW n \in Nat,
           NumBytesInUse(r, w) + n < usable_len
    PROVE  /\ (w + n) % usable_len = Wrap(w + n)
           /\ Wrap(w + n) \in Positions
           /\ NumBytesInUse(r, Wrap(w + n)) = NumBytesInUse(r, w) + n
<1>1. w + n \in Nat /\ w + n < usable_len + usable_len
  BY SizeAssumption, UsedRange DEF Positions
<1>2. NumBytesInUse(r, Wrap(w + n)) = NumBytesInUse(r, w) + n
  BY SizeAssumption DEF Positions, NumBytesInUse, Wrap
<1> QED
  BY Zenon, <1>1, <1>2, Remainder

\* Reading n of the bytes in use leaves the others.
LEMMA UsedAfterRead ==
    ASSUME NEW r \in Positions, NEW w \in Positions, NEW n \in Nat,
           n <= NumBytesInUse(r, w)
    PROVE  /\ (r + n) % usable_len = Wrap(r + n)
           /\ Wrap(r + n) \in Positions
           /\ NumBytesInUse(Wrap(r + n), w) = NumBytesInUse(r, w) - n
<1>1. r + n \in Nat /\ r + n < usable_len + usable_len
  BY SizeAssumption, UsedRange DEF Positions
<1>2. NumBytesInUse(Wrap(r + n), w) = NumBytesInUse(r, w) - n
  BY SizeAssumption DEF Positions, NumBytesInUse, Wrap
<1> QED
  BY Zenon, <1>1, <1>2, Remainder

\* The bytes a writer may fill are not those in use, nor one another.
LEMMA Apart ==
    ASSUME NEW r \in Positions, NEW w \in Positions, NEW n \in Nat,
           NumBytesInUse(r, w) + n < usable_len, NEW k \in 0..(n - 1)
    PROVE  /\ \A i \in 1..NumBytesInUse(r, w) : Wrap(r + i - 1) # Wrap(w + k)
           /\ \A i \in 1..k : Wrap(w + i - 1) # Wrap(w + k)
BY SizeAssumption DEF Positions, NumBytesInUse, Wrap

\* Two copies, to the end of the region and from its start, or one that wraps.
LEMMA TwoCopies ==
    ASSUME NEW p \in Positions, NEW k \in Nat, k < usable_len
    PROVE  /\ Wrap(p + k) \in Positions
           /\ Wrap(p + k) = IF k < usable_len - p THEN p + k ELSE k - (usable_len - p)
BY SizeAssumption DEF Positions, Wrap

\* Slots in use are less than a lap from read_pos.
LEMMA SlotIsWrap ==
    ASSUME TypeOK, NEW i \in 1..Used
    PROVE  Slot(i) = Wrap(read_pos + i - 1) /\ Slot(i) \in Positions
<1>1. read_pos \in Positions /\ write_pos \in Positions
  BY Zenon DEF TypeOK
<1>2. Used \in Nat /\ Used < usable_len
  BY Zenon, <1>1, UsedRange DEF Used
<1>3. read_pos + i - 1 \in Nat /\ read_pos + i - 1 < usable_len + usable_len
  BY <1>1, <1>2, SizeAssumption DEF Positions
<1> QED
  BY Zenon, <1>3, Remainder DEF Slot
-----------------------------------------------------------------------------
(* Every step preserves the invariant                                      *)

LEMMA InitHolds == Init => IInv
<1> SUFFICES ASSUME Init PROVE IInv
  BY Zenon
<1>1. 0 \in Positions /\ 0 \in 0..usable_len
  BY SizeAssumption DEF Positions
<1>2. Idle("none") \in Calls(CallPoints)
  BY <1>1 DEF Idle, Calls, CallPoints, Results
<1>3. TypeOK
  <2>1. region \in [Positions -> Byte]
    BY Zenon DEF Init
  <2>2. writer \in [Writers -> Calls(CallPoints)] /\ reader \in [Readers -> Calls(CallPoints)]
    BY Zenon, <1>2 DEF Init
  <2>3. accepted \in Seq(Byte) /\ delivered \in Seq(Byte) /\ writes \in Nat
    BY DEF Init
  <2> QED
    BY Zenon, <1>1, <2>1, <2>2, <2>3 DEF Init, TypeOK
<1>4. /\ \A w \in Writers : writer[w].at = "idle" /\ writer[w].result = "none"
      /\ \A r \in Readers : reader[r].at = "idle" /\ reader[r].result = "none"
  BY Zenon DEF Init, Idle
<1> QED
  BY Zenon, <1>3, <1>4 DEF IInv, WriteLock, ReadLock, WriterInv, ReaderInv

\* A step of a writer that leaves the region and the positions alone needs only its
\* own record and the lock looked at.
LEMMA WriterMoves ==
    ASSUME IInv, NEW w \in Writers, NEW call \in Calls(CallPoints),
           writer' = [writer EXCEPT ![w] = call],
           UNCHANGED <<write_pos, read_flag, read_pos, region, reader, accepted,
                       delivered>>,
           write_flag' \in BOOLEAN, writes' \in Nat,
           WriteLock', WriterInv(w)'
    PROVE  IInv'
<1>1. TypeOK'
  BY Zenon DEF IInv, TypeOK
<1>2. \A v \in Writers : WriterInv(v)'
  <2> TAKE v \in Writers
  <2>1. CASE v = w
    BY Zenon, <2>1
  <2>2. CASE v # w
    <3>1. writer'[v] = writer[v]
      BY Zenon, <2>2 DEF IInv, TypeOK
    <3> QED
      BY <3>1 DEF IInv, WriterInv, Used, NumBytesInUse
  <2> QED
    BY Zenon, <2>1, <2>2
<1>3. \A r \in Readers : ReaderInv(r)'
  BY Zenon DEF IInv, ReaderInv, Used, NumBytesInUse
<1>4. ReadLock'
  BY Zenon DEF IInv, ReadLock
<1> QED
  BY Zenon, <1>1, <1>2, <1>3, <1>4 DEF IInv

LEMMA ReaderMoves ==
    ASSUME IInv, NEW r \in Readers, NEW call \in Calls(CallPoints),
           reader' = [reader EXCEPT ![r] = call],
           UNCHANGED <<write_flag, write_pos, read_pos, region, writer, accepted,
                       delivered, writes>>,
           read_flag' \in BOOLEAN,
           ReadLock', ReaderInv(r)'
    PROVE  IInv'
<1>1. TypeOK'
  BY Zenon DEF IInv, TypeOK
<1>2. \A q \in Readers : ReaderInv(q)'
  <2> TAKE q \in Readers
  <2>1. CASE q = r
    BY Zenon, <2>1
  <2>2. CASE q # r
    <3>1. reader'[q] = reader[q]
      BY Zenon, <2>2 DEF IInv, TypeOK
    <3> QED
      BY <3>1 DEF IInv, ReaderInv, Used, NumBytesInUse
  <2> QED
    BY Zenon, <2>1, <2>2
<1>3. \A w \in Writers : WriterInv(w)'
  BY Zenon DEF IInv, WriterInv, Used, NumBytesInUse
<1>4. WriteLock'
  BY Zenon DEF IInv, WriteLock
<1> QED
  BY Zenon, <1>1, <1>2, <1>3, <1>4 DEF IInv

\* A call under way that stays under way keeps the lock as it is.
LEMMA WriterKeepsLock ==
    ASSUME IInv, NEW w \in Writers, NEW call \in Calls(CallPoints),
           writer' = [writer EXCEPT ![w] = call],
           writer[w].at # "idle", UNCHANGED write_flag
    PROVE  WriteLock'
BY Zenon DEF IInv, TypeOK, WriteLock

LEMMA ReaderKeepsLock ==
    ASSUME IInv, NEW r \in Readers, NEW call \in Calls(CallPoints),
           reader' = [reader EXCEPT ![r] = call],
           reader[r].at # "idle", UNCHANGED read_flag
    PROVE  ReadLock'
BY Zenon DEF IInv, TypeOK, ReadLock

LEMMA StutterKeeps ==
    ASSUME IInv, UNCHANGED vars
    PROVE  IInv'
<1>1. Used' = Used
  BY Zenon DEF vars, control, Used, NumBytesInUse
<1>2. TypeOK' /\ WriteLock' /\ ReadLock'
  BY Zenon DEF vars, control, IInv, TypeOK, WriteLock, ReadLock
<1>3. \A w \in Writers : WriterInv(w)'
  BY Zenon DEF vars, control, IInv, WriterInv, Used, NumBytesInUse
<1>4. \A r \in Readers : ReaderInv(r)'
  BY Zenon, <1>1 DEF vars, control, IInv, ReaderInv
<1> QED
  BY Zenon, <1>2, <1>3, <1>4 DEF IInv

LEMMA TryLockForWritingKeeps ==
    ASSUME IInv, NEW w \in Writers, NEW data \in Payloads, TryLockForWriting(w, data)
    PROVE  IInv'
<1>0. 0 \in Positions /\ 0 \in 0..usable_len
  BY SizeAssumption DEF Positions
<1>1. write_flag' \in BOOLEAN /\ writes' \in Nat
  <2>1. writes' \in Nat
    BY DEF TryLockForWriting, IInv, TypeOK
  <2>2. write_flag' \in BOOLEAN
    BY Zenon DEF TryLockForWriting, IInv, TypeOK
  <2> QED
    BY Zenon, <2>1, <2>2
<1>2. CASE Len(data) > usable_len \/ write_flag
  <2>1. writer' = [writer EXCEPT ![w] = Idle("general")] /\ UNCHANGED write_flag
    BY <1>2, PayloadsAssumption, SizeAssumption DEF TryLockForWriting
  <2>2. Idle("general") \in Calls(CallPoints)
    BY <1>0 DEF Idle, Calls, CallPoints, Results
  <2>3. writer'[w].at = "idle" /\ writer'[w].result = "general"
    BY Zenon, <2>1 DEF Idle, IInv, TypeOK
  <2>4. WriteLock'
    BY Zenon, <2>1, <2>3 DEF IInv, TypeOK, WriteLock
  <2>5. WriterInv(w)'
    BY Zenon, <2>3 DEF WriterInv
  <2> QED
    BY Zenon, <1>1, <2>1, <2>2, <2>4, <2>5, WriterMoves DEF TryLockForWriting
<1>3. CASE ~(Len(data) > usable_len \/ write_flag)
  <2> DEFINE call == [Idle("none") EXCEPT !.at = "load_read", !.data = data,
                                          !.len = Len(data)]
  <2>1. writer' = [writer EXCEPT ![w] = call] /\ write_flag' = TRUE
    BY Zenon, <1>3 DEF TryLockForWriting
  <2>2. data \in Seq(Byte) /\ Len(data) \in 0..usable_len
    BY <1>3, PayloadsAssumption, SizeAssumption
  <2>3. call \in Calls(CallPoints)
    BY Zenon, <1>0, <2>2 DEF Idle, Calls, CallPoints, Results
  <2>4. call.at = "load_read" /\ call.data = data /\ call.len = Len(data)
        /\ call.copied = 0 /\ call.result = "none"
    BY Zenon DEF Idle
  <2>5. writer'[w] = call
    BY Zenon, <2>1 DEF IInv, TypeOK
  <2> HIDE DEF call
  <2>6. \A v \in Writers : writer[v].at = "idle"
    BY Zenon, <1>3 DEF IInv, WriteLock
  <2>7. WriteLock'
    BY Zenon, <2>1, <2>6 DEF IInv, TypeOK, WriteLock
  <2>8. WriterInv(w)'
    BY Zenon, <2>4, <2>5 DEF WriterInv
  <2> QED
    BY Zenon, <1>1, <2>1, <2>3, <2>7, <2>8, WriterMoves DEF TryLockForWriting
<1> QED
  BY Zenon, <1>2, <1>3

LEMMA WriterLoadsReadPosKeeps ==
    ASSUME IInv, NEW w \in Writers, WriterLoadsReadPos(w)
    PROVE  IInv'
<1> DEFINE call == [writer[w] EXCEPT !.at = "load_write", !.cur_read_pos = read_pos]
<1>1. writer' = [writer EXCEPT ![w] = call]
  BY Zenon DEF WriterLoadsReadPos, IInv, TypeOK
<1>2. writer[w] \in Calls(CallPoints) /\ read_pos \in Positions /\ write_pos \in Positions
  BY Zenon DEF IInv, TypeOK
<1>3. call \in Calls(CallPoints)
  BY Zenon, <1>2 DEF Calls, CallPoints
<1>4. /\ call.at = "load_write" /\ call.cur_read_pos = read_pos
      /\ call.data = writer[w].data /\ call.len = writer[w].len
      /\ call.copied = writer[w].copied /\ call.result = writer[w].result
  BY Zenon, <1>2 DEF Calls
<1>5. writer'[w] = call
  BY Zenon, <1>1 DEF IInv, TypeOK
<1> HIDE DEF call
<1>6. WriteLock'
  BY Zenon, <1>1, <1>3, WriterKeepsLock DEF WriterLoadsReadPos, control
<1>7. NumBytesInUse(read_pos, write_pos) \in Nat
  BY Zenon, <1>2, UsedRange
<1>8. Used' = NumBytesInUse(writer[w].cur_read_pos, write_pos)'
  BY Zenon, <1>4, <1>5 DEF WriterLoadsReadPos, control, Used, NumBytesInUse
<1>9. Used' = NumBytesInUse(read_pos, write_pos)
  BY Zenon DEF WriterLoadsReadPos, control, Used, NumBytesInUse
<1>10. WriterInv(w)'
  BY <1>4, <1>5, <1>7, <1>8, <1>9 DEF WriterLoadsReadPos, IInv, WriterInv
<1>11. write_flag' \in BOOLEAN /\ writes' \in Nat
  BY Zenon DEF WriterLoadsReadPos, control, IInv, TypeOK
<1> QED
  BY Zenon, <1>1, <1>3, <1>6, <1>10, <1>11, WriterMoves DEF WriterLoadsReadPos, control

LEMMA WriterLoadsWritePosKeeps ==
    ASSUME IInv, NEW w \in Writers, WriterLoadsWritePos(w)
    PROVE  IInv'
<1> DEFINE full == [writer[w] EXCEPT !.at = "unlock", !.result = "general"]
           room == [writer[w] EXCEPT !.at = "copy", !.cur_write_pos = write_pos]
           loaded == NumBytesInUse(writer[w].cur_read_pos, write_pos)
           call == IF usable_len - loaded <= writer[w].len THEN full ELSE room
<1>1. /\ writer[w] \in Calls(CallPoints) /\ read_pos \in Positions
      /\ write_pos \in Positions /\ writer[w].cur_read_pos \in Positions
      /\ writer[w].len \in 0..usable_len
  BY Zenon DEF IInv, TypeOK, Calls
<1>2. ValidateReadWritePositions(writer[w].cur_read_pos, write_pos)
  BY <1>1, SizeAssumption DEF ValidateReadWritePositions, Positions
<1>3. writer' = [writer EXCEPT ![w] = call]
  BY Zenon, <1>2 DEF WriterLoadsWritePos, IInv, TypeOK
<1>4. full \in Calls(CallPoints) /\ room \in Calls(CallPoints)
  BY Zenon, <1>1 DEF Calls, CallPoints, Results
<1>5. /\ full.at = "unlock" /\ full.result = "general"
      /\ room.at = "copy" /\ room.cur_write_pos = write_pos
      /\ room.data = writer[w].data /\ room.len = writer[w].len
      /\ room.copied = writer[w].copied /\ room.result = writer[w].result
  BY Zenon, <1>1 DEF Calls
<1>6. call \in Calls(CallPoints)
  BY Zenon, <1>4
<1>7. writer'[w] = call
  BY Zenon, <1>3 DEF IInv, TypeOK
<1>8. WriteLock'
  BY Zenon, <1>3, <1>6, WriterKeepsLock DEF WriterLoadsWritePos, control
<1>9. WriterInv(w)'
  <2>1. CASE usable_len - loaded <= writer[w].len
    <3>1. writer'[w].at = "unlock" /\ writer'[w].result = "general"
      BY Zenon, <1>5, <1>7, <2>1
    <3> QED
      BY Zenon, <3>1 DEF WriterInv
  <2>2. CASE ~(usable_len - loaded <= writer[w].len)
    <3>1. writer'[w] = room
      BY Zenon, <1>7, <2>2
    <3> HIDE DEF room
    <3>2. writer[w].at = "load_write" /\ Used <= loaded /\ writer[w].copied = 0
      BY Zenon DEF IInv, WriterInv, WriterLoadsWritePos
    <3>3. Used \in Nat /\ loaded \in Nat
      BY Zenon, <1>1, UsedRange DEF Used
    <3>4. Used + writer[w].len < usable_len
      BY <1>1, <2>2, <3>2, <3>3, SizeAssumption
    <3>5. Used' = Used
      BY Zenon DEF WriterLoadsWritePos, control, Used, NumBytesInUse
    <3>6. write_pos' = write_pos
      BY Zenon DEF WriterLoadsWritePos, control
    <3>7. writer[w].data \in Payloads /\ writer[w].len = Len(writer[w].data)
          /\ writer[w].result # "corruption"
      BY Zenon, <3>2 DEF IInv, WriterInv
    <3> HIDE DEF loaded
    <3> QED
      BY <1>1, <1>5, <3>1, <3>2, <3>4, <3>5, <3>6, <3>7 DEF WriterInv
  <2> QED
    BY Zenon, <2>1, <2>2
<1>10. write_flag' \in BOOLEAN /\ writes' \in Nat
  BY Zenon DEF WriterLoadsWritePos, control, IInv, TypeOK
<1> HIDE DEF call
<1> QED
  BY Zenon, <1>3, <1>6, <1>8, <1>9, <1>10, WriterMoves DEF WriterLoadsWritePos, control

LEMMA UnlockForWritingKeeps ==
    ASSUME IInv, NEW w \in Writers, UnlockForWriting(w)
    PROVE  IInv'
<1> DEFINE call == Idle(writer[w].result)
<1>1. writer' = [writer EXCEPT ![w] = call]
  BY Zenon DEF UnlockForWriting, IInv, TypeOK
<1>2. writer[w].result \in Results /\ 0 \in Positions /\ 0 \in 0..usable_len
  BY SizeAssumption DEF IInv, TypeOK, Calls, Positions
<1>3. call \in Calls(CallPoints) /\ call.at = "idle" /\ call.result = writer[w].result
  BY <1>2 DEF Idle, Calls, CallPoints
<1> HIDE DEF call
<1>4. writer'[w] = call
  BY Zenon, <1>1 DEF IInv, TypeOK
<1>5. \A v \in Writers : writer'[v].at = "idle"
  BY Zenon, <1>1, <1>3 DEF IInv, TypeOK, WriteLock, UnlockForWriting
<1>6. WriteLock'
  BY Zenon, <1>5 DEF WriteLock
<1>7. WriterInv(w)'
  BY Zenon, <1>3, <1>4 DEF IInv, WriterInv
<1>8. write_flag' \in BOOLEAN /\ writes' \in Nat
  BY Zenon DEF UnlockForWriting, IInv, TypeOK
<1> QED
  BY Zenon, <1>1, <1>3, <1>6, <1>7, <1>8, WriterMoves DEF UnlockForWriting

\* The byte a TryWrite copies goes behind write_pos and the bytes copied before it,
\* in the two memcpys as in one that wraps.
LEMMA WriterSlot ==
    ASSUME IInv, NEW w \in Writers, WriterCopiesByte(w)
    PROVE  /\ region' = [region EXCEPT ![Wrap(write_pos + writer[w].copied)] =
                                          writer[w].data[writer[w].copied + 1]]
           /\ Wrap(write_pos + writer[w].copied) \in Positions
           /\ writer[w].copied \in 0..(writer[w].len - 1)
           /\ writer[w].len \in Nat /\ Used + writer[w].len < usable_len
           /\ writer[w].data[writer[w].copied + 1] \in Byte
<1>1. /\ writer[w] \in Calls(CallPoints) /\ read_pos \in Positions
      /\ write_pos \in Positions
  BY Zenon DEF IInv, TypeOK
<1>2. /\ writer[w].at = "copy" /\ writer[w].cur_write_pos = write_pos
      /\ writer[w].len = Len(writer[w].data) /\ Used + writer[w].len < usable_len
  BY Zenon DEF IInv, WriterInv, WriterCopiesByte
<1>3. /\ writer[w].len \in Nat /\ writer[w].copied \in Nat
      /\ writer[w].copied < writer[w].len /\ writer[w].data \in Seq(Byte)
  BY <1>1, SizeAssumption DEF Calls, WriterCopiesByte
<1>4. writer[w].copied < usable_len
  <2>1. Used \in Nat
    BY Zenon, <1>1, UsedRange DEF Used
  <2> QED
    BY <1>2, <1>3, <2>1, SizeAssumption
<1>5. writer[w].data[writer[w].copied + 1] \in Byte
  BY <1>2, <1>3
<1>6. region' = [region EXCEPT ![Wrap(write_pos + writer[w].copied)] =
                                  writer[w].data[writer[w].copied + 1]]
  <2> DEFINE copied == writer[w].copied
             q == IF copied < usable_len - write_pos THEN write_pos + copied
                  ELSE copied - (usable_len - write_pos)
  <2>1. region' = [region EXCEPT ![q] = writer[w].data[copied + 1]]
    BY Zenon, <1>2 DEF WriterCopiesByte
  <2>2. q = Wrap(write_pos + copied)
    BY Zenon, <1>1, <1>3, <1>4, TwoCopies
  <2> QED
    BY Zenon, <2>1, <2>2
<1>7. Wrap(write_pos + writer[w].copied) \in Positions
  BY Zenon, <1>1, <1>3, <1>4, TwoCopies
<1> QED
  BY <1>2, <1>3, <1>5, <1>6, <1>7

LEMMA WriterCopiesByteKeeps ==
    ASSUME IInv, NEW w \in Writers, WriterCopiesByte(w)
    PROVE  IInv'
<1> DEFINE call == [writer[w] EXCEPT !.copied = writer[w].copied + 1]
           p == Wrap(write_pos + writer[w].copied)
           byte == writer[w].data[writer[w].copied + 1]
<1>1. /\ writer[w] \in Calls(CallPoints) /\ read_pos \in Positions
      /\ write_pos \in Positions /\ region \in [Positions -> Byte]
  BY Zenon DEF IInv, TypeOK
<1>2. /\ region' = [region EXCEPT ![p] = byte] /\ p \in Positions /\ byte \in Byte
      /\ writer[w].copied \in 0..(writer[w].len - 1)
      /\ writer[w].len \in Nat /\ Used + writer[w].len < usable_len
  BY Zenon, WriterSlot
<1>3. writer' = [writer EXCEPT ![w] = call]
  BY Zenon DEF WriterCopiesByte, IInv, TypeOK
<1>4. writer[w].copied + 1 \in 0..usable_len
  BY <1>1, <1>2, SizeAssumption DEF Calls
<1>5. /\ call \in Calls(CallPoints)
      /\ call.at = writer[w].at /\ call.data = writer[w].data
      /\ call.len = writer[w].len /\ call.copied = writer[w].copied + 1
      /\ call.cur_write_pos = writer[w].cur_write_pos /\ call.result = writer[w].result
  BY Zenon, <1>1, <1>4 DEF Calls
<1>6. writer'[w] = call
  BY Zenon, <1>3 DEF IInv, TypeOK
<1>7. writer[w].at = "copy"
  BY Zenon DEF WriterCopiesByte
<1> HIDE DEF call, byte
<1>8. WriteLock'
  BY Zenon, <1>3, <1>5, <1>7, WriterKeepsLock DEF WriterCopiesByte, control
<1>9. ReadLock'
  BY Zenon DEF WriterCopiesByte, control, IInv, ReadLock
<1>10. TypeOK'
  <2>1. region' \in [Positions -> Byte]
    BY Zenon, <1>1, <1>2
  <2>2. writer' \in [Writers -> Calls(CallPoints)]
    BY Zenon, <1>3, <1>5 DEF IInv, TypeOK
  <2> QED
    BY Zenon, <2>1, <2>2 DEF WriterCopiesByte, control, IInv, TypeOK
<1>11. Used' = Used /\ write_pos' = write_pos /\ read_pos' = read_pos /\ reader' = reader
  BY Zenon DEF WriterCopiesByte, control, Used, NumBytesInUse
<1>12. /\ \A i \in 1..Used : Wrap(read_pos + i - 1) # p
       /\ \A i \in 1..writer[w].copied : Wrap(write_pos + i - 1) # p
  BY Zenon, <1>1, <1>2, Apart DEF Used
<1>13. \A q : q # p => region'[q] = region[q]
  BY <1>1, <1>2
<1>14. \A v \in Writers : WriterInv(v)'
  <2> TAKE v \in Writers
  <2>1. CASE v = w
    <3>1. \A i \in 1..call.copied : region'[Wrap(write_pos + i - 1)] = call.data[i]
      <4> TAKE i \in 1..call.copied
      <4>1. CASE i = writer[w].copied + 1
        <5>1. write_pos + i - 1 = write_pos + writer[w].copied
          BY SMTT(40), <1>1, <1>2, <4>1 DEF Positions
        <5>2. region'[p] = byte
          BY Zenon, <1>1, <1>2
        <5> QED
          BY Zenon, <1>5, <4>1, <5>1, <5>2 DEF byte
      <4>2. CASE i # writer[w].copied + 1
        <5>1. i \in 1..writer[w].copied
          BY <1>2, <1>5, <4>2
        <5>2. region[Wrap(write_pos + i - 1)] = writer[w].data[i]
          BY Zenon, <1>7, <5>1 DEF IInv, WriterInv
        <5> QED
          BY Zenon, <1>5, <1>12, <1>13, <5>1, <5>2
      <4> QED
        BY Zenon, <4>1, <4>2
    <3>2. call.copied <= call.len
      BY <1>2, <1>5
    <3>3. /\ writer[w].data \in Payloads /\ writer[w].len = Len(writer[w].data)
          /\ writer[w].cur_write_pos = write_pos /\ writer[w].result # "corruption"
      BY Zenon, <1>7 DEF IInv, WriterInv
    <3> QED
      BY Zenon, <1>2, <1>5, <1>6, <1>7, <1>11, <2>1, <3>1, <3>2, <3>3 DEF WriterInv
  <2>2. CASE v # w
    <3>1. writer'[v] = writer[v] /\ writer[v].at = "idle"
      BY Zenon, <1>3, <1>7, <2>2 DEF IInv, TypeOK, WriteLock
    <3> QED
      BY Zenon, <3>1 DEF IInv, WriterInv
  <2> QED
    BY Zenon, <2>1, <2>2
<1>15. \A r \in Readers : ReaderInv(r)'
  <2> TAKE r \in Readers
  <2>1. ReaderInv(r)
    BY Zenon DEF IInv
  <2>2. reader[r].at = "copy" => \A i \in 1..Len(reader[r].data) :
                                     region'[Wrap(read_pos + i - 1)] = region[Wrap(read_pos + i - 1)]
    <3> SUFFICES ASSUME reader[r].at = "copy", NEW i \in 1..Len(reader[r].data)
                 PROVE  region'[Wrap(read_pos + i - 1)] = region[Wrap(read_pos + i - 1)]
      BY Zenon
    <3>1. Len(reader[r].data) <= reader[r].len /\ reader[r].len <= Used
      BY Zenon, <2>1 DEF ReaderInv
    <3>2. Len(reader[r].data) \in Nat /\ reader[r].len \in Nat
      BY SMTT(40), SizeAssumption DEF IInv, TypeOK, Calls
    <3>3. Used \in Nat
      BY Zenon, <1>1, UsedRange DEF Used
    <3>4. i \in 1..Used
      BY <3>1, <3>2, <3>3
    <3> QED
      BY Zenon, <1>12, <1>13, <3>4
  <2> QED
    BY Zenon, <1>11, <2>1, <2>2 DEF ReaderInv
<1> QED
  BY Zenon, <1>8, <1>9, <1>10, <1>14, <1>15 DEF IInv

\* A TryWrite publishes exactly what it copied, and write_pos had not moved.
LEMMA WriterPublishesFacts ==
    ASSUME IInv, NEW w \in Writers, WriterPublishes(w)
    PROVE  /\ write_pos' = Wrap(write_pos + writer[w].len) /\ write_pos' \in Positions
           /\ Used' = Used + writer[w].len
           /\ writer[w].len \in Nat /\ Used \in Nat
           /\ Used + writer[w].len < usable_len
           /\ accepted' = accepted \o writer[w].data
           /\ writer' = [writer EXCEPT ![w] = [writer[w] EXCEPT !.at = "unlock",
                                                                !.result = "success"]]
<1>1. /\ writer[w] \in Calls(CallPoints) /\ read_pos \in Positions
      /\ write_pos \in Positions
  BY Zenon DEF IInv, TypeOK
<1>2. writer[w].cur_write_pos = write_pos /\ Used + writer[w].len < usable_len
  BY Zenon DEF IInv, WriterInv, WriterPublishes
<1>3. writer[w].len \in Nat
  BY <1>1, SizeAssumption DEF Calls
<1>4. Used \in Nat
  BY Zenon, <1>1, UsedRange DEF Used
<1>5. /\ (write_pos + writer[w].len) % usable_len = Wrap(write_pos + writer[w].len)
      /\ Wrap(write_pos + writer[w].len) \in Positions
      /\ NumBytesInUse(read_pos, Wrap(write_pos + writer[w].len)) = Used + writer[w].len
  BY Zenon, <1>1, <1>2, <1>3, UsedAfterWrite DEF Used
<1>6. write_pos' = Wrap(write_pos + writer[w].len) /\ read_pos' = read_pos
  BY Zenon, <1>2, <1>5 DEF WriterPublishes
<1>7. Used' = NumBytesInUse(read_pos, Wrap(write_pos + writer[w].len))
  BY Zenon, <1>6 DEF Used, NumBytesInUse
<1>8. /\ accepted' = accepted \o writer[w].data
      /\ writer' = [writer EXCEPT ![w] = [writer[w] EXCEPT !.at = "unlock",
                                                           !.result = "success"]]
  BY Zenon, <1>2 DEF WriterPublishes, IInv, TypeOK
<1> QED
  BY Zenon, <1>2, <1>3, <1>4, <1>5, <1>6, <1>7, <1>8

LEMMA WriterPublishesKeeps ==
    ASSUME IInv, NEW w \in Writers, WriterPublishes(w)
    PROVE  IInv'
<1> DEFINE call == [writer[w] EXCEPT !.at = "unlock", !.result = "success"]
<1>1. /\ write_pos' \in Positions /\ Used' = Used + writer[w].len
      /\ writer[w].len \in Nat /\ Used \in Nat
      /\ accepted' = accepted \o writer[w].data
      /\ writer' = [writer EXCEPT ![w] = call]
  BY Zenon, WriterPublishesFacts
<1>2. writer[w] \in Calls(CallPoints)
  BY Zenon DEF IInv, TypeOK
<1>3. call \in Calls(CallPoints) /\ call.at = "unlock" /\ call.result = "success"
  BY ZenonT(40), <1>2 DEF Calls, CallPoints, Results
<1>4. writer'[w] = call
  BY Zenon, <1>1 DEF IInv, TypeOK
<1> HIDE DEF call
<1>5. writer[w].at = "copy"
  BY Zenon DEF WriterPublishes
<1>6. TypeOK'
  <2>1. writer' \in [Writers -> Calls(CallPoints)]
    BY Zenon, <1>1, <1>3 DEF IInv, TypeOK
  <2>2. accepted' \in Seq(Byte)
    <3>1. accepted \in Seq(Byte) /\ writer[w].data \in Seq(Byte)
      BY Zenon, <1>2 DEF IInv, TypeOK, Calls
    <3> QED
      BY <1>1, <3>1
  <2> QED
    BY Zenon, <1>1, <2>1, <2>2 DEF WriterPublishes, IInv, TypeOK
<1>7. WriteLock'
  BY Zenon, <1>1, <1>3, <1>5, WriterKeepsLock DEF WriterPublishes
<1>8. ReadLock'
  BY Zenon DEF WriterPublishes, IInv, ReadLock
<1>9. \A v \in Writers : WriterInv(v)'
  <2> TAKE v \in Writers
  <2>1. CASE v = w
    BY Zenon, <1>3, <1>4, <2>1 DEF WriterInv
  <2>2. CASE v # w
    <3>1. writer'[v] = writer[v] /\ writer[v].at = "idle"
      BY Zenon, <1>1, <1>5, <2>2 DEF IInv, TypeOK, WriteLock
    <3> QED
      BY Zenon, <3>1 DEF IInv, WriterInv
  <2> QED
    BY Zenon, <2>1, <2>2
<1>10. \A r \in Readers : ReaderInv(r)'
  <2> TAKE r \in Readers
  <2>1. ReaderInv(r) /\ reader'[r] = reader[r] /\ read_pos' = read_pos /\ region' = region
    BY Zenon DEF IInv, WriterPublishes
  <2>2. reader[r].len \in Nat
    BY SizeAssumption DEF IInv, TypeOK, Calls
  <2>3. reader[r].len <= Used => reader[r].len <= Used'
    BY <1>1, <2>2
  <2> QED
    BY Zenon, <2>1, <2>3 DEF ReaderInv
<1> QED
  BY Zenon, <1>6, <1>7, <1>8, <1>9, <1>10 DEF IInv

LEMMA TryLockForReadingKeeps ==
    ASSUME IInv, NEW r \in Readers, NEW len \in 1..usable_len, TryLockForReading(r, len)
    PROVE  IInv'
<1>1. CASE read_flag
  <2>1. UNCHANGED vars
    BY Zenon, <1>1 DEF TryLockForReading, vars, control
  <2> QED
    BY Zenon, <2>1, StutterKeeps
<1>2. CASE ~read_flag
  <2> DEFINE call == [Idle("none") EXCEPT !.at = "load_read", !.len = len]
  <2>1. reader' = [reader EXCEPT ![r] = call] /\ read_flag' = TRUE
    BY Zenon, <1>2 DEF TryLockForReading
  <2>2. 0 \in Positions /\ 0 \in 0..usable_len /\ len \in 0..usable_len /\ len > 0
    BY SizeAssumption DEF Positions
  <2>3. call \in Calls(CallPoints)
    <3>1. Idle("none") \in Calls(CallPoints)
      BY <2>2 DEF Idle, Calls, CallPoints, Results
    <3> QED
      BY Zenon, <2>2, <3>1 DEF Calls, CallPoints
  <2>4. call.at = "load_read" /\ call.data = <<>> /\ call.len = len /\ call.result = "none"
    BY Zenon DEF Idle
  <2>5. reader'[r] = call
    BY Zenon, <2>1 DEF IInv, TypeOK
  <2> HIDE DEF call
  <2>6. \A q \in Readers : reader[q].at = "idle"
    BY Zenon, <1>2 DEF IInv, ReadLock
  <2>7. ReadLock'
    BY Zenon, <2>1, <2>6 DEF IInv, TypeOK, ReadLock
  <2>8. ReaderInv(r)'
    BY Zenon, <2>2, <2>4, <2>5 DEF ReaderInv
  <2> QED
    BY Zenon, <2>1, <2>3, <2>7, <2>8, ReaderMoves DEF TryLockForReading
<1> QED
  BY Zenon, <1>1, <1>2

LEMMA ReaderLoadsReadPosKeeps ==
    ASSUME IInv, NEW r \in Readers, ReaderLoadsReadPos(r)
    PROVE  IInv'
<1> DEFINE call == [reader[r] EXCEPT !.at = "load_write", !.cur_read_pos = read_pos]
<1>1. reader' = [reader EXCEPT ![r] = call]
  BY Zenon DEF ReaderLoadsReadPos, IInv, TypeOK
<1>2. reader[r] \in Calls(CallPoints) /\ read_pos \in Positions
  BY Zenon DEF IInv, TypeOK
<1>3. call \in Calls(CallPoints)
  BY Zenon, <1>2 DEF Calls, CallPoints
<1>4. /\ call.at = "load_write" /\ call.cur_read_pos = read_pos
      /\ call.data = reader[r].data /\ call.len = reader[r].len
      /\ call.result = reader[r].result
  BY Zenon, <1>2 DEF Calls
<1>5. reader'[r] = call
  BY Zenon, <1>1 DEF IInv, TypeOK
<1> HIDE DEF call
<1>6. ReadLock'
  BY Zenon, <1>1, <1>3, ReaderKeepsLock DEF ReaderLoadsReadPos, control
<1>7. ReaderInv(r)'
  BY <1>4, <1>5 DEF ReaderLoadsReadPos, control, IInv, ReaderInv
<1>8. read_flag' \in BOOLEAN
  BY Zenon DEF ReaderLoadsReadPos, control, IInv, TypeOK
<1> QED
  BY Zenon, <1>1, <1>3, <1>6, <1>7, <1>8, ReaderMoves DEF ReaderLoadsReadPos, control

LEMMA ReaderLoadsWritePosKeeps ==
    ASSUME IInv, NEW r \in Readers, ReaderLoadsWritePos(r)
    PROVE  IInv'
<1> DEFINE available == Smaller(NumBytesInUse(read_pos, write_pos), reader[r].len)
           empty == [reader[r] EXCEPT !.at = "unlock", !.result = "success"]
           some == [reader[r] EXCEPT !.at = "copy", !.len = available,
                                     !.cur_write_pos = write_pos]
           call == IF available = 0 THEN empty ELSE some
<1>1. /\ reader[r] \in Calls(CallPoints) /\ read_pos \in Positions
      /\ write_pos \in Positions /\ reader[r].len \in 0..usable_len
  BY Zenon DEF IInv, TypeOK, Calls
<1>2. /\ reader[r].cur_read_pos = read_pos /\ reader[r].data = <<>>
      /\ reader[r].at = "load_write"
  BY Zenon DEF IInv, ReaderInv, ReaderLoadsWritePos
<1>3. ValidateReadWritePositions(read_pos, write_pos)
  BY <1>1, SizeAssumption DEF ValidateReadWritePositions, Positions
<1>4. reader' = [reader EXCEPT ![r] = call]
  BY Zenon, <1>2, <1>3 DEF ReaderLoadsWritePos, IInv, TypeOK
<1>5. Used \in Nat /\ Used < usable_len
  BY Zenon, <1>1, UsedRange DEF Used
<1>6. available \in 0..usable_len /\ available <= Used
  BY <1>1, <1>5, SizeAssumption DEF Smaller, Used
<1>7. read_pos < write_pos => read_pos + available <= write_pos
  BY <1>1, <1>5, <1>6, SizeAssumption DEF Used, NumBytesInUse, Positions
<1> HIDE DEF available
<1>8. empty \in Calls(CallPoints) /\ some \in Calls(CallPoints)
  BY Zenon, <1>1, <1>6 DEF Calls, CallPoints, Results
<1>9. /\ empty.at = "unlock" /\ empty.result = "success"
      /\ some.at = "copy" /\ some.cur_write_pos = write_pos
      /\ some.cur_read_pos = reader[r].cur_read_pos /\ some.data = reader[r].data
      /\ some.len = available /\ some.result = reader[r].result
  BY Zenon, <1>1 DEF Calls
<1>10. call \in Calls(CallPoints)
  BY Zenon, <1>8
<1>11. reader'[r] = call
  BY Zenon, <1>4 DEF IInv, TypeOK
<1>12. ReadLock'
  BY Zenon, <1>2, <1>4, <1>10, ReaderKeepsLock DEF ReaderLoadsWritePos, control
<1>13. ReaderInv(r)'
  <2>1. CASE available = 0
    <3>1. reader'[r].at = "unlock" /\ reader'[r].result = "success"
      BY Zenon, <1>9, <1>11, <2>1
    <3> QED
      BY Zenon, <3>1 DEF ReaderInv
  <2>2. CASE available # 0
    <3>1. reader'[r] = some
      BY Zenon, <1>11, <2>2
    <3> HIDE DEF some
    <3>2. 0 < available /\ Len(some.data) = 0 /\ Len(some.data) <= some.len
      BY <1>2, <1>6, <1>9, <2>2
    <3>3. Used' = Used /\ read_pos' = read_pos
      BY Zenon DEF ReaderLoadsWritePos, control, Used, NumBytesInUse
    <3>4. reader[r].result # "corruption"
      BY Zenon DEF IInv, ReaderInv
    <3> QED
      BY SMTT(40), <1>2, <1>6, <1>7, <1>9, <3>1, <3>2, <3>3, <3>4 DEF ReaderInv
  <2> QED
    BY Zenon, <2>1, <2>2
<1>14. read_flag' \in BOOLEAN
  BY Zenon DEF ReaderLoadsWritePos, control, IInv, TypeOK
<1> HIDE DEF call
<1> QED
  BY Zenon, <1>4, <1>10, <1>12, <1>13, <1>14, ReaderMoves DEF ReaderLoadsWritePos, control

LEMMA ReaderCopiesByteKeeps ==
    ASSUME IInv, NEW r \in Readers, ReaderCopiesByte(r)
    PROVE  IInv'
<1> DEFINE done == Len(reader[r].data)
           p == Wrap(read_pos + done)
           call == [reader[r] EXCEPT !.data = Append(reader[r].data, region[p])]
<1>1. /\ reader[r] \in Calls(CallPoints) /\ read_pos \in Positions
      /\ write_pos \in Positions /\ region \in [Positions -> Byte]
  BY Zenon DEF IInv, TypeOK
<1>2. /\ reader[r].data \in Seq(Byte) /\ done \in Nat /\ reader[r].len \in Nat
      /\ reader[r].cur_write_pos \in Positions
  BY <1>1, SizeAssumption DEF Calls
<1>3. /\ reader[r].at = "copy" /\ reader[r].cur_read_pos = read_pos
      /\ reader[r].len <= Used /\ done < reader[r].len /\ 0 < reader[r].len
      /\ read_pos < reader[r].cur_write_pos =>
           read_pos + reader[r].len <= reader[r].cur_write_pos
      /\ \A i \in 1..done : reader[r].data[i] = region[Wrap(read_pos + i - 1)]
      /\ reader[r].result # "corruption"
  BY Zenon DEF IInv, ReaderInv, ReaderCopiesByte
<1>4. Used \in Nat /\ Used < usable_len
  BY Zenon, <1>1, UsedRange DEF Used
<1>5. done < usable_len
  BY <1>2, <1>3, <1>4, SizeAssumption
<1>6. /\ p \in Positions
      /\ p = IF done < usable_len - read_pos THEN read_pos + done
             ELSE done - (usable_len - read_pos)
  BY Zenon, <1>1, <1>2, <1>5, TwoCopies
<1>7. read_pos < reader[r].cur_write_pos => done < usable_len - read_pos
  BY SMTT(40), <1>1, <1>2, <1>3, SizeAssumption DEF Positions
<1>8. reader' = [reader EXCEPT ![r] = call]
  BY Zenon, <1>3, <1>6, <1>7 DEF ReaderCopiesByte, IInv, TypeOK
<1> HIDE DEF p
<1>9. region[p] \in Byte
  BY Zenon, <1>1, <1>6
<1>10. /\ Append(reader[r].data, region[p]) \in Seq(Byte)
       /\ Len(Append(reader[r].data, region[p])) = done + 1
       /\ \A i \in 1..done : Append(reader[r].data, region[p])[i] = reader[r].data[i]
       /\ Append(reader[r].data, region[p])[done + 1] = region[p]
  BY <1>2, <1>9
<1>11. /\ call \in Calls(CallPoints)
       /\ call.at = "copy" /\ call.len = reader[r].len
       /\ call.data = Append(reader[r].data, region[p])
       /\ call.cur_read_pos = read_pos /\ call.result = reader[r].result
       /\ call.cur_write_pos = reader[r].cur_write_pos
  BY Zenon, <1>1, <1>3, <1>10 DEF Calls
<1>12. reader'[r] = call
  BY Zenon, <1>8 DEF IInv, TypeOK
<1> HIDE DEF call
<1>13. ReadLock'
  BY ZenonT(40), <1>3, <1>8, <1>11, ReaderKeepsLock DEF ReaderCopiesByte, control
<1>14. Used' = Used /\ read_pos' = read_pos /\ region' = region
  BY Zenon DEF ReaderCopiesByte, control, Used, NumBytesInUse
<1>15. \A i \in 1..Len(call.data) : call.data[i] = region[Wrap(read_pos + i - 1)]
  <2> TAKE i \in 1..Len(call.data)
  <2>1. CASE i = done + 1
    <3>1. read_pos + i - 1 = read_pos + done
      BY SMTT(40), <1>1, <1>2, <2>1 DEF Positions
    <3> QED
      BY Zenon, <1>10, <1>11, <2>1, <3>1 DEF p
  <2>2. CASE i # done + 1
    <3>1. i \in 1..done
      BY SMTT(40), <1>2, <1>10, <1>11, <2>2
    <3> QED
      BY Zenon, <1>3, <1>10, <1>11, <3>1
  <2> QED
    BY Zenon, <2>1, <2>2
<1>16. Len(call.data) <= call.len
  BY SMTT(40), <1>2, <1>3, <1>10, <1>11
<1>17. ReaderInv(r)'
  BY Zenon, <1>3, <1>11, <1>12, <1>14, <1>15, <1>16 DEF ReaderInv
<1>18. read_flag' \in BOOLEAN
  BY Zenon DEF ReaderCopiesByte, control, IInv, TypeOK
<1> QED
  BY Zenon, <1>8, <1>11, <1>13, <1>17, <1>18, ReaderMoves DEF ReaderCopiesByte, control

LEMMA UnlockForReadingKeeps ==
    ASSUME IInv, NEW r \in Readers, UnlockForReading(r)
    PROVE  IInv'
<1> DEFINE call == Idle(reader[r].result)
<1>1. reader' = [reader EXCEPT ![r] = call]
  BY Zenon DEF UnlockForReading, IInv, TypeOK
<1>2. reader[r].result \in Results /\ 0 \in Positions /\ 0 \in 0..usable_len
  BY SizeAssumption DEF IInv, TypeOK, Calls, Positions
<1>3. call \in Calls(CallPoints) /\ call.at = "idle" /\ call.result = reader[r].result
  BY <1>2 DEF Idle, Calls, CallPoints
<1> HIDE DEF call
<1>4. reader'[r] = call
  BY Zenon, <1>1 DEF IInv, TypeOK
<1>5. \A q \in Readers : reader'[q].at = "idle"
  BY Zenon, <1>1, <1>3 DEF IInv, TypeOK, ReadLock, UnlockForReading
<1>6. ReadLock'
  BY Zenon, <1>5 DEF ReadLock
<1>7. ReaderInv(r)'
  BY Zenon, <1>3, <1>4 DEF IInv, ReaderInv
<1>8. read_flag' \in BOOLEAN
  BY ZenonT(40) DEF UnlockForReading
<1> QED
  BY Zenon, <1>1, <1>3, <1>6, <1>7, <1>8, ReaderMoves DEF UnlockForReading

\* A TryReadLocked consumes exactly what it copied, and read_pos had not moved.
LEMMA ReaderConsumesFacts ==
    ASSUME IInv, NEW r \in Readers, ReaderConsumes(r)
    PROVE  /\ read_pos' = Wrap(read_pos + reader[r].len) /\ read_pos' \in Positions
           /\ Used' = Used - reader[r].len
           /\ reader[r].len \in 1..Used /\ Used \in Nat /\ Used < usable_len
           /\ delivered' = delivered \o reader[r].data
           /\ reader' = [reader EXCEPT ![r] = [reader[r] EXCEPT !.at = "unlock",
                                                                !.result = "success"]]
<1>1. /\ reader[r] \in Calls(CallPoints) /\ read_pos \in Positions
      /\ write_pos \in Positions
  BY Zenon DEF IInv, TypeOK
<1>2. reader[r].cur_read_pos = read_pos /\ reader[r].len <= Used /\ 0 < reader[r].len
  BY Zenon DEF IInv, ReaderInv, ReaderConsumes
<1>3. reader[r].len \in Nat
  BY <1>1, SizeAssumption DEF Calls
<1>4. Used \in Nat /\ Used < usable_len
  BY Zenon, <1>1, UsedRange DEF Used
<1>5. /\ (read_pos + reader[r].len) % usable_len = Wrap(read_pos + reader[r].len)
      /\ Wrap(read_pos + reader[r].len) \in Positions
      /\ NumBytesInUse(Wrap(read_pos + reader[r].len), write_pos) = Used - reader[r].len
  BY Zenon, <1>1, <1>2, <1>3, UsedAfterRead DEF Used
<1>6. read_pos' = Wrap(read_pos + reader[r].len) /\ write_pos' = write_pos
  BY Zenon, <1>2, <1>5 DEF ReaderConsumes
<1>7. Used' = NumBytesInUse(Wrap(read_pos + reader[r].len), write_pos)
  BY Zenon, <1>6 DEF Used, NumBytesInUse
<1>8. /\ delivered' = delivered \o reader[r].data
      /\ reader' = [reader EXCEPT ![r] = [reader[r] EXCEPT !.at = "unlock",
                                                           !.result = "success"]]
  BY Zenon, <1>2 DEF ReaderConsumes, IInv, TypeOK
<1> QED
  BY SMTT(40), <1>2, <1>3, <1>4, <1>5, <1>6, <1>7, <1>8

LEMMA ReaderConsumesKeeps ==
    ASSUME IInv, NEW r \in Readers, ReaderConsumes(r)
    PROVE  IInv'
<1> DEFINE call == [reader[r] EXCEPT !.at = "unlock", !.result = "success"]
<1>1. /\ read_pos' \in Positions /\ Used' = Used - reader[r].len
      /\ reader[r].len \in 1..Used /\ Used \in Nat
      /\ delivered' = delivered \o reader[r].data
      /\ reader' = [reader EXCEPT ![r] = call]
  BY Zenon, ReaderConsumesFacts
<1>2. reader[r] \in Calls(CallPoints)
  BY Zenon DEF IInv, TypeOK
<1>3. call \in Calls(CallPoints) /\ call.at = "unlock" /\ call.result = "success"
  BY ZenonT(40), <1>2 DEF Calls, CallPoints, Results
<1>4. reader'[r] = call
  BY Zenon, <1>1 DEF IInv, TypeOK
<1> HIDE DEF call
<1>5. reader[r].at = "copy"
  BY Zenon DEF ReaderConsumes
<1>6. TypeOK'
  <2>1. reader' \in [Readers -> Calls(CallPoints)]
    BY Zenon, <1>1, <1>3 DEF IInv, TypeOK
  <2>2. delivered' \in Seq(Byte)
    <3>1. delivered \in Seq(Byte) /\ reader[r].data \in Seq(Byte)
      BY Zenon, <1>2 DEF IInv, TypeOK, Calls
    <3> QED
      BY SMTT(40), <1>1, <3>1
  <2> QED
    BY Zenon, <1>1, <2>1, <2>2 DEF ReaderConsumes, IInv, TypeOK
<1>7. ReadLock'
  BY ZenonT(40), <1>1, <1>3, <1>5, ReaderKeepsLock DEF ReaderConsumes
<1>8. WriteLock'
  BY Zenon DEF ReaderConsumes, IInv, WriteLock
<1>9. \A q \in Readers : ReaderInv(q)'
  <2> TAKE q \in Readers
  <2>1. CASE q = r
    BY Zenon, <1>3, <1>4, <2>1 DEF ReaderInv
  <2>2. CASE q # r
    <3>1. reader'[q] = reader[q] /\ reader[q].at = "idle"
      BY Zenon, <1>1, <1>5, <2>2 DEF IInv, TypeOK, ReadLock
    <3> QED
      BY Zenon, <3>1 DEF IInv, ReaderInv
  <2> QED
    BY Zenon, <2>1, <2>2
<1>10. \A w \in Writers : WriterInv(w)'
  <2> TAKE w \in Writers
  <2> DEFINE loaded == NumBytesInUse(writer[w].cur_read_pos, write_pos)
  <2>1. WriterInv(w) /\ writer'[w] = writer[w] /\ write_pos' = write_pos /\ region' = region
    BY Zenon DEF IInv, ReaderConsumes
  <2>2. writer[w].len \in Nat /\ writer[w].cur_read_pos \in Positions /\ write_pos \in Positions
    BY SMTT(40), SizeAssumption DEF IInv, TypeOK, Calls
  <2>3. loaded \in Nat
    BY Zenon, <2>2, UsedRange
  <2>4. NumBytesInUse(writer[w].cur_read_pos, write_pos)' = loaded
    BY Zenon, <2>1 DEF NumBytesInUse
  <2> HIDE DEF loaded
  <2>5. /\ Used <= loaded => Used' <= loaded
        /\ Used + writer[w].len < usable_len => Used' + writer[w].len < usable_len
    BY SMTT(40), <1>1, <2>2, <2>3, SizeAssumption
  <2> QED
    BY Zenon, <2>1, <2>4, <2>5 DEF WriterInv, loaded
<1> QED
  BY Zenon, <1>6, <1>7, <1>8, <1>9, <1>10 DEF IInv

LEMMA StepKeeps == IInv /\ [Next]_vars => IInv'
<1> SUFFICES ASSUME IInv, [Next]_vars PROVE IInv'
  BY Zenon
<1>1. ASSUME NEW w \in Writers, WriterStep(w) PROVE IInv'
  BY Zenon, <1>1, TryLockForWritingKeeps, WriterLoadsReadPosKeeps, WriterLoadsWritePosKeeps,
     WriterCopiesByteKeeps, WriterPublishesKeeps, UnlockForWritingKeeps DEF WriterStep
<1>2. ASSUME NEW r \in Readers, ReaderStep(r) PROVE IInv'
  BY Zenon, <1>2, TryLockForReadingKeeps, ReaderLoadsReadPosKeeps, ReaderLoadsWritePosKeeps,
     ReaderCopiesByteKeeps, ReaderConsumesKeeps, UnlockForReadingKeeps DEF ReaderStep
<1>3. CASE UNCHANGED vars
  BY Zenon, <1>3, StutterKeeps
<1> QED
  BY Zenon, <1>1, <1>2, <1>3 DEF Next

LEMMA InvariantHolds == Spec => []IInv
BY InitHolds, StepKeeps, PTL DEF Spec

\* No TryWrite or TryReadLocked ever returns kControlCorruption, whatever the number
\* of threads on either side, the size of the region and the payloads.
THEOREM CorruptionIsNeverReported == Spec => []NeverCorrupt
<1>1. IInv => NeverCorrupt
  BY Zenon DEF IInv, WriterInv, ReaderInv, NeverCorrupt
<1> QED
  BY <1>1, InvariantHolds, PTL

-----------------------------------------------------------------------------
(* What the region holds between the positions                             *)

\* Only a TryWrite that is copying changes the region, outside the bytes in use.
LEMMA RegionStep ==
    ASSUME IInv, [Next]_vars
    PROVE  \A p \in Positions : region'[p] # region[p] => p \notin InUse
<1> SUFFICES ASSUME NEW w \in Writers, WriterCopiesByte(w),
                    NEW p \in Positions, region'[p] # region[p]
             PROVE  p \notin InUse
  BY ZenonT(40) DEF Next, WriterStep, ReaderStep, TryLockForWriting, WriterLoadsReadPos,
         WriterLoadsWritePos, WriterPublishes, UnlockForWriting, TryLockForReading,
         ReaderLoadsReadPos, ReaderLoadsWritePos, ReaderCopiesByte, ReaderConsumes,
         UnlockForReading, vars
<1> DEFINE q == Wrap(write_pos + writer[w].copied)
<1>1. /\ read_pos \in Positions /\ write_pos \in Positions
      /\ region \in [Positions -> Byte] /\ TypeOK
  BY Zenon DEF IInv, TypeOK
<1>2. /\ region' = [region EXCEPT ![q] = writer[w].data[writer[w].copied + 1]]
      /\ writer[w].copied \in 0..(writer[w].len - 1)
      /\ writer[w].len \in Nat /\ Used + writer[w].len < usable_len
  BY Zenon, WriterSlot
<1>3. p = q
  BY Zenon, <1>1, <1>2
<1>4. \A i \in 1..Used : Wrap(read_pos + i - 1) # q
  BY Zenon, <1>1, <1>2, Apart DEF Used
<1>5. \A i \in 1..Used : Slot(i) = Wrap(read_pos + i - 1)
  BY Zenon, <1>1, SlotIsWrap
<1> HIDE DEF q
<1> QED
  BY Zenon, <1>3, <1>4, <1>5 DEF InUse, Used

\* No step of a TryWrite changes a byte that is between read_pos and write_pos,
\* though the reader moves read_pos while the writer works with the value it loaded.
THEOREM TransitIsNotOverwritten == Spec => NoOverwrite
<1>1. IInv /\ [Next]_vars
        => [\A p \in Positions : region'[p] # region[p] => p \notin InUse]_vars
  BY Zenon, RegionStep
<1> QED
  BY <1>1, InvariantHolds, PTL DEF Spec, NoOverwrite

\* The bytes in transit are as many as NumBytesInUse counts.
TransitFacts ==
    /\ Transit \in Seq(Byte) /\ Len(Transit) = Used /\ Used \in Nat
    /\ \A i \in 1..Used : Transit[i] = region[Wrap(read_pos + i - 1)]

LEMMA TransitIs == IInv => TransitFacts
<1> SUFFICES ASSUME TypeOK PROVE TransitFacts
  BY Zenon DEF IInv
<1>1. read_pos \in Positions /\ write_pos \in Positions /\ region \in [Positions -> Byte]
  BY Zenon DEF TypeOK
<1>2. Used \in Nat
  BY Zenon, <1>1, UsedRange DEF Used
<1>3. \A i \in 1..Used : Slot(i) = Wrap(read_pos + i - 1) /\ region[Slot(i)] \in Byte
  BY Zenon, <1>1, SlotIsWrap
<1>4. Transit = [i \in 1..Used |-> region[Slot(i)]]
  BY Zenon DEF Transit, Used
<1>5. Transit \in [1..Used -> Byte]
  BY Zenon, <1>3, <1>4
<1>6. Transit \in Seq(Byte)
  BY Zenon, <1>2, <1>5, SeqDef
<1>7. Len(Transit) = Used
  BY <1>2, <1>5
<1> QED
  BY Zenon, <1>2, <1>3, <1>4, <1>6, <1>7 DEF TransitFacts

LEMMA TransitIsAfter == IInv' => TransitFacts'
BY TransitIs, PTL

\* A step that moves no position leaves the bytes in transit as they are.
LEMMA TransitStays ==
    ASSUME IInv, [Next]_vars, UNCHANGED <<read_pos, write_pos>>
    PROVE  Transit' = Transit
<1>1. IInv'
  BY Zenon, StepKeeps
<1>2. Used' = Used
  BY Zenon DEF Used, NumBytesInUse
<1>3. /\ Transit \in Seq(Byte) /\ Len(Transit) = Used
      /\ \A i \in 1..Used : Transit[i] = region[Wrap(read_pos + i - 1)]
  BY Zenon, TransitIs DEF TransitFacts
<1>4. /\ Transit' \in Seq(Byte) /\ Len(Transit') = Used
      /\ \A i \in 1..Used : Transit'[i] = region'[Wrap(read_pos + i - 1)]
  BY Zenon, <1>1, <1>2, TransitIsAfter DEF TransitFacts
<1>5. \A i \in 1..Used : region'[Wrap(read_pos + i - 1)] = region[Wrap(read_pos + i - 1)]
  <2> TAKE i \in 1..Used
  <2>1. Slot(i) = Wrap(read_pos + i - 1) /\ Slot(i) \in Positions
    BY Zenon, SlotIsWrap DEF IInv
  <2>2. Slot(i) \in InUse
    BY Zenon DEF InUse, Used
  <2> QED
    BY Zenon, <2>1, <2>2, RegionStep
<1> QED
  BY Zenon, <1>3, <1>4, <1>5, SeqEqual

LEMMA Joined ==
    ASSUME NEW s \in Seq(Byte), NEW t \in Seq(Byte)
    PROVE  /\ s \o t \in Seq(Byte) /\ Len(s \o t) = Len(s) + Len(t)
           /\ \A i \in 1..(Len(s) + Len(t)) :
                (s \o t)[i] = IF i <= Len(s) THEN s[i] ELSE t[i - Len(s)]
BY Zenon, ConcatProperties

LEMMA JoinedTwice ==
    ASSUME NEW s \in Seq(Byte), NEW t \in Seq(Byte), NEW u \in Seq(Byte)
    PROVE  (s \o t) \o u = s \o (t \o u)
BY ConcatAssociative

\* The first n bytes of a sequence and the others.
LEMMA Cut ==
    ASSUME NEW s \in Seq(Byte), NEW n \in 1..Len(s)
    PROVE  /\ SubSeq(s, 1, n) \in Seq(Byte) /\ Len(SubSeq(s, 1, n)) = n
           /\ \A i \in 1..n : SubSeq(s, 1, n)[i] = s[i]
           /\ SubSeq(s, n + 1, Len(s)) \in Seq(Byte)
           /\ Len(SubSeq(s, n + 1, Len(s))) = Len(s) - n
           /\ \A i \in 1..(Len(s) - n) : SubSeq(s, n + 1, Len(s))[i] = s[n + i]
BY SMTT(40)

\* Publishing puts the payload behind the bytes in transit.
LEMMA PublishingSends ==
    ASSUME IInv, NEW w \in Writers, WriterPublishes(w)
    PROVE  /\ Transit' = Transit \o writer[w].data
           /\ writer[w].data \in Payloads
           /\ Len(Transit) + Len(writer[w].data) < usable_len
<1> DEFINE data == writer[w].data
           n == writer[w].len
<1>1. /\ data \in Seq(Byte) /\ read_pos \in Positions /\ write_pos \in Positions
  BY Zenon DEF IInv, TypeOK, Calls
<1>2. /\ data \in Payloads /\ n = Len(data)
      /\ \A i \in 1..n : region[Wrap(write_pos + i - 1)] = data[i]
  BY Zenon DEF IInv, WriterInv, WriterPublishes
<1>3. Used' = Used + n /\ n \in Nat /\ Used \in Nat /\ Used + n < usable_len
  BY Zenon, WriterPublishesFacts
<1>4. /\ Transit \in Seq(Byte) /\ Len(Transit) = Used
      /\ \A i \in 1..Used : Transit[i] = region[Wrap(read_pos + i - 1)]
  BY Zenon, TransitIs DEF TransitFacts
<1>5. /\ Transit' \in Seq(Byte) /\ Len(Transit') = Used + n
      /\ \A i \in 1..(Used + n) : Transit'[i] = region[Wrap(read_pos + i - 1)]
  <2>1. IInv'
    BY Zenon, WriterPublishesKeeps
  <2>2. region' = region /\ read_pos' = read_pos
    BY Zenon DEF WriterPublishes
  <2> QED
    BY Zenon, <1>3, <2>1, <2>2, TransitIsAfter DEF TransitFacts
<1> HIDE DEF data, n
<1>6. /\ Transit \o data \in Seq(Byte) /\ Len(Transit \o data) = Used + n
      /\ \A i \in 1..(Used + n) : (Transit \o data)[i] =
                                    IF i <= Used THEN Transit[i] ELSE data[i - Used]
  BY ZenonT(40), <1>1, <1>2, <1>4, Joined
<1>7. \A i \in 1..(Used + n) : Transit'[i] = (Transit \o data)[i]
  <2> TAKE i \in 1..(Used + n)
  <2>1. CASE i <= Used
    <3>1. i \in 1..Used
      BY <1>3, <2>1
    <3> QED
      BY Zenon, <1>4, <1>5, <1>6, <2>1, <3>1
  <2>2. CASE ~(i <= Used)
    <3>1. i - Used \in 1..n
      BY <1>3, <2>2
    <3>2. Wrap(read_pos + i - 1) = Wrap(write_pos + (i - Used) - 1)
      BY <1>1, <1>3, <2>2, SizeAssumption DEF Used, NumBytesInUse, Wrap, Positions
    <3> QED
      BY ZenonT(40), <1>2, <1>5, <1>6, <2>2, <3>1, <3>2
  <2> QED
    BY Zenon, <2>1, <2>2
<1>8. Transit' = Transit \o data
  BY Zenon, <1>5, <1>6, <1>7, SeqEqual
<1> QED
  BY Zenon, <1>2, <1>3, <1>4, <1>8 DEF data

\* Consuming takes the oldest bytes in transit.
LEMMA ConsumingReceives ==
    ASSUME IInv, NEW r \in Readers, ReaderConsumes(r)
    PROVE  /\ reader[r].len \in 1..Len(Transit)
           /\ reader[r].data = SubSeq(Transit, 1, reader[r].len)
           /\ Transit' = SubSeq(Transit, reader[r].len + 1, Len(Transit))
<1> DEFINE data == reader[r].data
           n == reader[r].len
           rest == SubSeq(Transit, n + 1, Len(Transit))
           taken == SubSeq(Transit, 1, n)
<1>1. /\ data \in Seq(Byte) /\ read_pos \in Positions /\ write_pos \in Positions
  BY Zenon DEF IInv, TypeOK, Calls
<1>2. n = Len(data) /\ \A i \in 1..n : data[i] = region[Wrap(read_pos + i - 1)]
  BY Zenon DEF IInv, ReaderInv, ReaderConsumes
<1>3. /\ Used' = Used - n /\ n \in 1..Used /\ Used \in Nat /\ Used < usable_len
      /\ read_pos' = Wrap(read_pos + n)
  BY ZenonT(40), ReaderConsumesFacts
<1>4. /\ Transit \in Seq(Byte) /\ Len(Transit) = Used
      /\ \A i \in 1..Used : Transit[i] = region[Wrap(read_pos + i - 1)]
  BY Zenon, TransitIs DEF TransitFacts
<1>5. /\ Transit' \in Seq(Byte) /\ Len(Transit') = Used - n
      /\ \A i \in 1..(Used - n) : Transit'[i] = region[Wrap(Wrap(read_pos + n) + i - 1)]
  <2>1. IInv'
    BY Zenon, ReaderConsumesKeeps
  <2>2. region' = region
    BY Zenon DEF ReaderConsumes
  <2> QED
    BY Zenon, <1>3, <2>1, <2>2, TransitIsAfter DEF TransitFacts
<1> HIDE DEF data, n
<1>6. /\ taken \in Seq(Byte) /\ Len(taken) = n
      /\ \A i \in 1..n : taken[i] = Transit[i]
  BY Zenon, <1>3, <1>4, Cut
<1>7. /\ rest \in Seq(Byte) /\ Len(rest) = Used - n
      /\ \A i \in 1..(Used - n) : rest[i] = Transit[n + i]
  BY Zenon, <1>3, <1>4, Cut
<1> HIDE DEF rest, taken
<1>8. data = taken
  <2>1. \A i \in 1..n : i \in 1..Used
    BY <1>3
  <2>2. \A i \in 1..n : data[i] = taken[i]
    BY Zenon, <1>2, <1>4, <1>6, <2>1
  <2> QED
    BY Zenon, <1>1, <1>2, <1>6, <2>2, SeqEqual
<1>9. Transit' = rest
  <2>1. \A i \in 1..(Used - n) : Transit'[i] = rest[i]
    <3> TAKE i \in 1..(Used - n)
    <3>1. n + i \in 1..Used
      BY <1>3
    <3>2. Wrap(Wrap(read_pos + n) + i - 1) = Wrap(read_pos + (n + i) - 1)
      BY <1>1, <1>3, SizeAssumption DEF Wrap, Positions
    <3> QED
      BY Zenon, <1>4, <1>5, <1>7, <3>1, <3>2
  <2> QED
    BY Zenon, <1>5, <1>7, <2>1, SeqEqual
<1> QED
  BY Zenon, <1>3, <1>4, <1>8, <1>9 DEF data, n, rest, taken

\* The empty region is the empty channel.
LEMMA ChannelStarts == Init => Channel!Init
<1> SUFFICES ASSUME Init PROVE Transit = <<>>
  BY Zenon DEF Init, Channel!Init
<1>1. Used = 0
  BY DEF Init, Used, NumBytesInUse
<1>2. Transit \in Seq(Byte) /\ Len(Transit) = 0
  BY Zenon, <1>1, InitHolds, TransitIs DEF TransitFacts
<1> QED
  BY Zenon, <1>2, EmptySeq

\* Every step is a step of the channel or invisible to it.
LEMMA ChannelSteps ==
    ASSUME IInv, [Next]_vars
    PROVE  [Channel!Send \/ Channel!Receive]_<<Transit, accepted, delivered>>
<1>1. ASSUME NEW w \in Writers, WriterPublishes(w) PROVE Channel!Send
  <2>1. accepted' = accepted \o writer[w].data
    BY Zenon, <1>1, WriterPublishesFacts
  <2>2. UNCHANGED delivered
    BY Zenon, <1>1 DEF WriterPublishes
  <2> QED
    BY Zenon, <1>1, <2>1, <2>2, PublishingSends DEF Channel!Send
<1>2. ASSUME NEW r \in Readers, ReaderConsumes(r) PROVE Channel!Receive
  <2>1. delivered' = delivered \o reader[r].data
    BY Zenon, <1>2, ReaderConsumesFacts
  <2>2. UNCHANGED accepted
    BY Zenon, <1>2 DEF ReaderConsumes
  <2> QED
    BY Zenon, <1>2, <2>1, <2>2, ConsumingReceives DEF Channel!Receive
<1>3. \/ \E w \in Writers : WriterPublishes(w)
      \/ \E r \in Readers : ReaderConsumes(r)
      \/ UNCHANGED <<read_pos, write_pos, accepted, delivered>>
  BY ZenonT(40) DEF Next, WriterStep, ReaderStep, TryLockForWriting, WriterLoadsReadPos,
       WriterLoadsWritePos, WriterCopiesByte, UnlockForWriting, TryLockForReading,
       ReaderLoadsReadPos, ReaderLoadsWritePos, ReaderCopiesByte, UnlockForReading,
       vars, control
<1> QED
  BY Zenon, <1>1, <1>2, <1>3, TransitStays

\* A step of the channel neither loses nor invents a byte.
LEMMA ConservedKept ==
    ASSUME IInv, [Next]_vars, Channel!Conserved
    PROVE  Channel!Conserved'
<1>1. Transit \in Seq(Byte) /\ delivered \in Seq(Byte)
  BY Zenon, TransitIs DEF TransitFacts, IInv, TypeOK
<1>2. CASE Channel!Send
  <2>1. PICK data \in Payloads : /\ Transit' = Transit \o data
                               /\ accepted' = accepted \o data
                               /\ UNCHANGED delivered
    BY Zenon, <1>2 DEF Channel!Send
  <2>2. (delivered \o Transit) \o data = delivered \o (Transit \o data)
    <3>1. data \in Seq(Byte)
      BY Zenon, PayloadsAssumption
    <3> QED
      BY Zenon, <1>1, <3>1, JoinedTwice
  <2> QED
    BY Zenon, <2>1, <2>2 DEF Channel!Conserved
<1>3. CASE Channel!Receive
  <2>1. PICK n \in 1..Len(Transit) :
             /\ delivered' = delivered \o SubSeq(Transit, 1, n)
             /\ Transit' = SubSeq(Transit, n + 1, Len(Transit))
             /\ UNCHANGED accepted
    BY Zenon, <1>3 DEF Channel!Receive
  <2> DEFINE taken == SubSeq(Transit, 1, n)
             rest == SubSeq(Transit, n + 1, Len(Transit))
  <2>2. taken \in Seq(Byte) /\ rest \in Seq(Byte)
    BY Zenon, <1>1, Cut
  <2>3. taken \o rest = Transit
    <3>1. Len(Transit) \in Nat
      BY <1>1
    <3>2. /\ 1 \in 1..(Len(Transit) + 1) /\ n \in (1 - 1)..Len(Transit)
          /\ Len(Transit) \in n..Len(Transit)
      BY <3>1
    <3>3. taken \o rest = SubSeq(Transit, 1, Len(Transit))
      BY Zenon, <1>1, <3>2, ConcatAdjacentSubSeq
    <3> QED
      BY Zenon, <1>1, <3>3, SubSeqFull
  <2> HIDE DEF taken, rest
  <2>4. (delivered \o taken) \o rest = delivered \o (taken \o rest)
    BY Zenon, <1>1, <2>2, JoinedTwice
  <2> QED
    BY Zenon, <2>1, <2>3, <2>4 DEF Channel!Conserved, taken, rest
<1>4. CASE UNCHANGED <<Transit, accepted, delivered>>
  BY Zenon, <1>4 DEF Channel!Conserved
<1> QED
  BY Zenon, <1>2, <1>3, <1>4, ChannelSteps

\* SharedBuffer implements ByteChannel: the bytes between the positions are the
\* channel, the exchange of write_pos sends a whole payload, the exchange of read_pos
\* receives a prefix, and every other step is invisible; what was read and what is
\* between the positions are together what was written.
THEOREM BufferIsAChannel == Spec => ChannelSpec
<1>1. Init => Channel!Conserved
  <2> SUFFICES ASSUME Init PROVE Channel!Conserved
    BY Zenon
  <2>1. Transit = <<>> /\ accepted = <<>> /\ delivered = <<>>
    BY Zenon, ChannelStarts DEF Channel!Init
  <2> QED
    BY <2>1 DEF Channel!Conserved
<1>2. IInv /\ [Next]_vars /\ Channel!Conserved => Channel!Conserved'
  BY Zenon, ConservedKept
<1>3. IInv /\ Channel!Conserved /\ [Next]_vars
        => [Channel!Next]_<<Transit, accepted, delivered>>
  BY Zenon, <1>2, ChannelSteps DEF Channel!Next
<1> QED
  BY <1>1, <1>2, <1>3, ChannelStarts, InvariantHolds, PTL DEF Spec, ChannelSpec, Channel!Spec
=============================================================================
