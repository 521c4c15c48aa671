----------------------------- MODULE ByteChannel -----------------------------
(***************************************************************************)
(* What SharedBuffer (src/demo/shared_buffer.cc) promises the two sides: a *)
(* bounded first-in first-out channel of bytes.  A write appears as a      *)
(* whole or not at all, a read takes a prefix, and fewer than Capacity     *)
(* bytes are in transit.                                                   *)
(***************************************************************************)
EXTENDS Naturals, Sequences

CONSTANTS Capacity, Payloads

VARIABLES
    transit,     \* bytes written and not yet read
    accepted,    \* all bytes written so far
    delivered    \* all bytes read so far

Init == transit = <<>> /\ accepted = <<>> /\ delivered = <<>>

Send == \E data \in Payloads :
    /\ Len(transit) + Len(data) < Capacity
    /\ transit' = transit \o data
    /\ accepted' = accepted \o data
    /\ UNCHANGED delivered

Receive == \E n \in 1..Len(transit) :
    /\ delivered' = delivered \o SubSeq(transit, 1, n)
    /\ transit' = SubSeq(transit, n + 1, Len(transit))
    /\ UNCHANGED accepted

\* What was read and what is in transit are, in order, all that was written.
Conserved == delivered \o transit = accepted

Next == (Send \/ Receive) /\ Conserved'

Spec == Init /\ [][Next]_<<transit, accepted, delivered>>
=============================================================================
