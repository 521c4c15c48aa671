---------------------------- MODULE SharedBuffer ----------------------------
(***************************************************************************)
(* SharedBuffer (src/demo/shared_buffer.cc): a ring of bytes in memory     *)
(* shared by two processes, with one try-lock for writers and one for      *)
(* readers and no lock between the two sides.                              *)
(*                                                                         *)
(* Every access to the control structure is a step, and so is the copy of  *)
(* every single byte, so a read and a write may overlap in any way.  The   *)
(* atomics are sequentially consistent, as the code's default operations   *)
(* are; the memory of the region is ordered by them.  Positions are        *)
(* uint32_t: their sums stay below 2^32 in regions of up to 2 GiB.         *)
(***************************************************************************)
EXTENDS Naturals, Sequences, FiniteSets

CONSTANTS
    usable_len,   \* bytes in the region behind the control structure
    Writers,      \* threads, in either process, that call TryWrite
    Readers,      \* threads that lock for reading and call TryReadLocked
    Byte,         \* values of a byte
    Payloads,     \* what TryWrite may be called with
    MaxWrites     \* bound on the number of TryWrite calls

ASSUME SizeAssumption == usable_len \in Nat \ {0} /\ MaxWrites \in Nat
ASSUME PayloadsAssumption == Payloads \subseteq Seq(Byte) \ {<<>>}

VARIABLES
    write_flag, write_pos, read_flag, read_pos,   \* ControlStructure
    region,       \* usable_region_ptr()
    writer,       \* per writer: control point and locals of TryWrite
    reader,       \* per reader: control point and locals of TryReadLocked
    accepted,     \* history: the bytes of all writes that succeeded, in order
    delivered,    \* history: the bytes of all reads that succeeded, in order
    writes        \* history: TryWrite calls so far

control == <<write_flag, write_pos, read_flag, read_pos>>
vars == <<control, region, writer, reader, accepted, delivered, writes>>

Positions == 0..(usable_len - 1)

\* A call that is not under way; result is what the last one returned.  data is
\* the argument of a TryWrite, of which copied bytes are in the region, and what a
\* TryReadLocked has copied out of it.
Idle(result) ==
    [at |-> "idle", data |-> <<>>, len |-> 0, copied |-> 0,
     cur_read_pos |-> 0, cur_write_pos |-> 0, result |-> result]

\* Initialize, by one side only and before the other side uses the buffer; the
\* memory of a fresh memfd is the same everywhere.
Init ==
    /\ write_flag = FALSE /\ write_pos = 0
    /\ read_flag = FALSE /\ read_pos = 0
    /\ \E b \in Byte : region = [p \in Positions |-> b]
    /\ writer = [w \in Writers |-> Idle("none")]
    /\ reader = [r \in Readers |-> Idle("none")]
    /\ accepted = <<>> /\ delivered = <<>>
    /\ writes = 0

ValidateReadWritePositions(r, w) == w < usable_len /\ r < usable_len

NumBytesInUse(r, w) == IF r <= w THEN w - r ELSE w + (usable_len - r)

Smaller(a, b) == IF a < b THEN a ELSE b
-----------------------------------------------------------------------------
(* TryWrite                                                                *)

\* Mutant: write_flag is set and its old value ignored.
LockForWritingAnyway(w, data) ==
    /\ writer[w].at = "idle" /\ writes < MaxWrites
    /\ Len(data) <= usable_len
    /\ writes' = writes + 1
    /\ writer' = [writer EXCEPT ![w] =
                    [Idle("none") EXCEPT !.at = "load_read", !.data = data,
                                         !.len = Len(data)]]
    /\ write_flag' = TRUE
    /\ UNCHANGED <<write_pos, read_flag, read_pos, region, reader, accepted, delivered>>

\* The test of len and the test_and_set of write_flag.
TryLockForWriting(w, data) ==
    /\ writer[w].at = "idle" /\ writes < MaxWrites
    /\ writes' = writes + 1
    /\ \/ /\ Len(data) > usable_len \/ write_flag
          /\ writer' = [writer EXCEPT ![w] = Idle("general")]
          /\ UNCHANGED write_flag
       \/ /\ Len(data) <= usable_len /\ ~write_flag
          /\ writer' = [writer EXCEPT ![w] =
                          [Idle("none") EXCEPT !.at = "load_read", !.data = data,
                                               !.len = Len(data)]]
          /\ write_flag' = TRUE
    /\ UNCHANGED <<write_pos, read_flag, read_pos, region, reader, accepted, delivered>>

WriterLoadsReadPos(w) ==
    /\ writer[w].at = "load_read"
    /\ writer' = [writer EXCEPT ![w].at = "load_write",
                                ![w].cur_read_pos = read_pos]
    /\ UNCHANGED <<control, region, reader, accepted, delivered, writes>>

\* Mutant: room is not looked for.
WriterSkipsSpaceCheck(w) ==
    /\ writer[w].at = "load_write"
    /\ writer' = [writer EXCEPT ![w].at = "copy", ![w].cur_write_pos = write_pos]
    /\ UNCHANGED <<control, region, reader, accepted, delivered, writes>>

\* Loads write_pos, validates the positions and looks for room.
WriterLoadsWritePos(w) ==
    /\ writer[w].at = "load_write"
    /\ LET rp == writer[w].cur_read_pos
           space_available == usable_len - NumBytesInUse(rp, write_pos)
       IN writer' =
            [writer EXCEPT ![w] =
               IF ~ValidateReadWritePositions(rp, write_pos)
               THEN [@ EXCEPT !.at = "unlock", !.result = "corruption"]
               ELSE IF space_available <= @.len
               THEN [@ EXCEPT !.at = "unlock", !.result = "general"]
               ELSE [@ EXCEPT !.at = "copy", !.cur_write_pos = write_pos]]
    /\ UNCHANGED <<control, region, reader, accepted, delivered, writes>>

\* Mutant: the second memcpy starts again at the beginning of data.
WriterWrapsData(w) ==
    /\ writer[w].at = "copy" /\ writer[w].copied < writer[w].len
    /\ LET done == writer[w].copied
           copy1_len == usable_len - writer[w].cur_write_pos
       IN region' = IF done < copy1_len
                    THEN [region EXCEPT ![writer[w].cur_write_pos + done] =
                                          writer[w].data[done + 1]]
                    ELSE [region EXCEPT ![done - copy1_len] =
                                          writer[w].data[done - copy1_len + 1]]
    /\ writer' = [writer EXCEPT ![w].copied = @ + 1]
    /\ UNCHANGED <<control, reader, accepted, delivered, writes>>

\* One byte of the memcpys: from cur_write_pos to the end, then from 0.
WriterCopiesByte(w) ==
    /\ writer[w].at = "copy" /\ writer[w].copied < writer[w].len
    /\ LET done == writer[w].copied
           copy1_len == usable_len - writer[w].cur_write_pos
           p == IF done < copy1_len THEN writer[w].cur_write_pos + done
                ELSE done - copy1_len
       IN region' = [region EXCEPT ![p] = writer[w].data[done + 1]]
    /\ writer' = [writer EXCEPT ![w].copied = @ + 1]
    /\ UNCHANGED <<control, reader, accepted, delivered, writes>>

\* Mutant: the new position is not taken modulo the size.
WriterPublishesUnwrapped(w) ==
    /\ writer[w].at = "copy" /\ writer[w].copied = writer[w].len
    /\ write_pos' = writer[w].cur_write_pos + writer[w].len
    /\ accepted' = accepted \o writer[w].data
    /\ writer' = [writer EXCEPT ![w].at = "unlock", ![w].result = "success"]
    /\ UNCHANGED <<write_flag, read_flag, read_pos, region, reader, delivered, writes>>

\* write_pos().exchange(...), and the check that it had not moved.
WriterPublishes(w) ==
    /\ writer[w].at = "copy" /\ writer[w].copied = writer[w].len
    /\ write_pos' = (writer[w].cur_write_pos + writer[w].len) % usable_len
    /\ IF write_pos = writer[w].cur_write_pos
       THEN /\ accepted' = accepted \o writer[w].data
            /\ writer' = [writer EXCEPT ![w].at = "unlock",
                                        ![w].result = "success"]
       ELSE /\ writer' = [writer EXCEPT ![w].at = "unlock",
                                        ![w].result = "corruption"]
            /\ UNCHANGED accepted
    /\ UNCHANGED <<write_flag, read_flag, read_pos, region, reader, delivered, writes>>

UnlockForWriting(w) ==
    /\ writer[w].at = "unlock"
    /\ write_flag' = FALSE
    /\ writer' = [writer EXCEPT ![w] = Idle(@.result)]
    /\ UNCHANGED <<write_pos, read_flag, read_pos, region, reader, accepted,
                   delivered, writes>>
-----------------------------------------------------------------------------
(* TryLockForReading, TryReadLocked with a buffer of len bytes,            *)
(* UnlockForReading                                                        *)

TryLockForReading(r, len) ==
    /\ reader[r].at = "idle"
    /\ \/ /\ read_flag
          /\ UNCHANGED <<reader, read_flag>>
       \/ /\ ~read_flag
          /\ read_flag' = TRUE
          /\ reader' = [reader EXCEPT ![r] =
                          [Idle("none") EXCEPT !.at = "load_read", !.len = len]]
    /\ UNCHANGED <<write_flag, write_pos, read_pos, region, writer, accepted,
                   delivered, writes>>

ReaderLoadsReadPos(r) ==
    /\ reader[r].at = "load_read"
    /\ reader' = [reader EXCEPT ![r].at = "load_write",
                                ![r].cur_read_pos = read_pos]
    /\ UNCHANGED <<control, region, writer, accepted, delivered, writes>>

\* Loads write_pos, validates, and settles how many bytes to read.
ReaderLoadsWritePos(r) ==
    /\ reader[r].at = "load_write"
    /\ LET rp == reader[r].cur_read_pos
           available == Smaller(NumBytesInUse(rp, write_pos), reader[r].len)
       IN reader' =
            [reader EXCEPT ![r] =
               IF ~ValidateReadWritePositions(rp, write_pos)
               THEN [@ EXCEPT !.at = "unlock", !.result = "corruption"]
               ELSE IF available = 0
               THEN [@ EXCEPT !.at = "unlock", !.result = "success"]
               ELSE [@ EXCEPT !.at = "copy", !.len = available,
                              !.cur_write_pos = write_pos]]
    /\ UNCHANGED <<control, region, writer, accepted, delivered, writes>>

\* One byte of the memcpys: in one piece when the read position is behind the
\* write position, else up to the end of the region and then from 0.
ReaderCopiesByte(r) ==
    /\ reader[r].at = "copy" /\ Len(reader[r].data) < reader[r].len
    /\ LET done == Len(reader[r].data)
           bytes_from_read_to_end == usable_len - reader[r].cur_read_pos
           p == IF \/ reader[r].cur_read_pos < reader[r].cur_write_pos
                   \/ done < bytes_from_read_to_end
                THEN reader[r].cur_read_pos + done
                ELSE done - bytes_from_read_to_end
       IN reader' = [reader EXCEPT ![r].data = Append(@, region[p])]
    /\ UNCHANGED <<control, region, writer, accepted, delivered, writes>>

\* read_pos().exchange(...), and the check that it had not moved.
ReaderConsumes(r) ==
    /\ reader[r].at = "copy" /\ Len(reader[r].data) = reader[r].len
    /\ read_pos' = (reader[r].cur_read_pos + reader[r].len) % usable_len
    /\ IF read_pos = reader[r].cur_read_pos
       THEN /\ delivered' = delivered \o reader[r].data
            /\ reader' = [reader EXCEPT ![r].at = "unlock",
                                        ![r].result = "success"]
       ELSE /\ reader' = [reader EXCEPT ![r].at = "unlock",
                                        ![r].result = "corruption"]
            /\ UNCHANGED delivered
    /\ UNCHANGED <<write_flag, write_pos, read_flag, region, writer, accepted, writes>>

UnlockForReading(r) ==
    /\ reader[r].at = "unlock"
    /\ read_flag' = FALSE
    /\ reader' = [reader EXCEPT ![r] = Idle(@.result)]
    /\ UNCHANGED <<write_flag, write_pos, read_pos, region, writer, accepted,
                   delivered, writes>>
-----------------------------------------------------------------------------
WriterStep(w) ==
    \/ \E data \in Payloads : TryLockForWriting(w, data)
    \/ WriterLoadsReadPos(w) \/ WriterLoadsWritePos(w) \/ WriterCopiesByte(w)
    \/ WriterPublishes(w) \/ UnlockForWriting(w)

ReaderStep(r) ==
    \/ \E len \in 1..usable_len : TryLockForReading(r, len)
    \/ ReaderLoadsReadPos(r) \/ ReaderLoadsWritePos(r) \/ ReaderCopiesByte(r)
    \/ ReaderConsumes(r) \/ UnlockForReading(r)

Next == (\E w \in Writers : WriterStep(w)) \/ (\E r \in Readers : ReaderStep(r))

Spec == Init /\ [][Next]_vars
-----------------------------------------------------------------------------
(* Properties                                                              *)

Results == {"none", "success", "general", "corruption"}
Calls(points) ==
    [at : points, data : Seq(Byte), len : 0..usable_len, copied : 0..usable_len,
     cur_read_pos : Positions, cur_write_pos : Positions, result : Results]
CallPoints == {"idle", "load_read", "load_write", "copy", "unlock"}

\* The types of the control structure, of the region and of the calls under way;
\* the positions stay inside the region.
TypeOK ==
    /\ write_flag \in BOOLEAN /\ read_flag \in BOOLEAN
    /\ write_pos \in Positions /\ read_pos \in Positions
    /\ region \in [Positions -> Byte]
    /\ writer \in [Writers -> Calls(CallPoints)]
    /\ reader \in [Readers -> Calls(CallPoints)]
    /\ accepted \in Seq(Byte) /\ delivered \in Seq(Byte)
    /\ writes \in Nat

\* The slot of the i-th byte in transit, and the slots in use.
Slot(i) == (read_pos + i - 1) % usable_len
InUse == {Slot(i) : i \in 1..NumBytesInUse(read_pos, write_pos)}

\* No call returns kControlCorruption: the positions are valid whenever they are
\* loaded, and they "SHOULD NEVER advance" while the call holds its lock.
NeverCorrupt ==
    /\ \A w \in Writers : writer[w].result # "corruption"
    /\ \A r \in Readers : reader[r].result # "corruption"

\* TryWrite never touches a byte that is in transit, even while a reader moves
\* read_pos under it.
NoOverwrite ==
    [][\A p \in Positions : region'[p] # region[p] => p \notin InUse]_vars

\* "At this point we know that the space available can only grow because we're
\* the only writer": between TryWrite's loads and its exchange.
SpaceOnlyGrows ==
    [][\A w \in Writers :
         writer[w].at \in {"load_write", "copy"}
           /\ writer'[w].at \in {"load_write", "copy"}
         => NumBytesInUse(read_pos', write_pos')
              <= NumBytesInUse(read_pos, write_pos)]_vars

\* What the region holds between the two positions.
Transit == [i \in 1..NumBytesInUse(read_pos, write_pos) |-> region[Slot(i)]]

\* SharedBuffer implements a bounded FIFO channel of bytes: each successful
\* TryWrite is one Send of the very bytes it was given, on both sides of the wrap,
\* each TryReadLocked that returns bytes one Receive of the oldest ones, and so
\* what was read and what the region holds are together what was written.
Channel == INSTANCE ByteChannel WITH Capacity <- usable_len, transit <- Transit
ChannelSpec == Channel!Spec
=============================================================================
