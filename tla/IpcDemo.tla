------------------------------- MODULE IpcDemo -------------------------------
(***************************************************************************)
(* The two processes of src/demo/ipc_demo.cc: a parent that creates two    *)
(* SharedBuffers and two eventfds, sends their descriptors to its child    *)
(* and then initialises the buffers; each process writes words to one      *)
(* buffer, notifies, and reads all of the other when it is notified.       *)
(*                                                                         *)
(* A buffer has one writer and one reader here, so neither lock is ever    *)
(* refused, and for the two of them a write or a read is one step on a     *)
(* sequence of words: that is what SharedBuffer is shown to implement      *)
(* (ByteChannel).  A read gives its room back in a second step, before     *)
(* which a write may be refused.                                           *)
(*                                                                         *)
(* ByteChannel has no Initialize.  The memory of a new memfd is zero,      *)
(* which is an empty buffer, so the child can use its buffer before the    *)
(* parent initialises it, and its TryWrite is therefore two steps: the     *)
(* loads, and the exchange of write_pos.  Initialize is one step: of its   *)
(* stores only the one to write_pos matters, read_pos being 0 until the    *)
(* parent, the only reader, first reads, and write_flag being of no use to *)
(* a single writer.  The other buffer is used by nobody before Initialize. *)
(*                                                                         *)
(* The parent's descriptors and the child's arguments are as they should   *)
(* be, and orphans are adopted by process 1.                               *)
(***************************************************************************)
EXTENDS Naturals, Sequences

CONSTANTS
    Capacity,       \* words that fit in a buffer
    FirstWord,      \* pp at the start, 100
    LastWord,       \* bound on pp, which stays there; not a word it writes
    MaxInterrupts,  \* bound on the child's waits that fail and clear nothing
    MaxFailures     \* bound on the other waits that fail

ASSUME WordsAssumption ==
    /\ Capacity \in Nat /\ MaxInterrupts \in Nat /\ MaxFailures \in Nat
    /\ FirstWord \in Nat /\ LastWord \in Nat
    /\ FirstWord < LastWord /\ LastWord % 3 # 0

VARIABLES
    parent, child,                       \* control points
    pp, kk,
    parent_write_buffer, child_write_buffer,
    parent_notify_fd, child_notify_fd,   \* eventfd counters
    sent,           \* the descriptors are in the socket
    initialized,    \* the buffers on which Initialize was called
    parent_wrote, child_wrote,           \* history: words of successful writes
    parent_read, child_read,             \* history: words read
    torn,           \* words before the place of the write that Initialize tore
    silent,         \* history: the buffers whose last announcement was lost
    interrupts, failures   \* history: waits that failed

parentVars == <<parent, pp, sent, initialized, parent_wrote, parent_read>>
childVars == <<child, kk, child_wrote, child_read, interrupts>>
parentChannel == <<parent_write_buffer, parent_notify_fd>>
childChannel == <<child_write_buffer, child_notify_fd>>
faults == <<torn, silent, failures>>
vars == <<parentVars, childVars, parentChannel, childChannel, faults>>

Init ==
    /\ parent = "send" /\ child = "receive"
    /\ pp = FirstWord /\ kk = 0
    /\ parent_write_buffer = <<>> /\ child_write_buffer = <<>>
    /\ parent_notify_fd = 0 /\ child_notify_fd = 0
    /\ sent = FALSE /\ initialized = {}
    /\ parent_wrote = <<>> /\ child_wrote = <<>>
    /\ parent_read = <<>> /\ child_read = <<>>
    /\ torn = <<>> /\ silent = {} /\ interrupts = 0 /\ failures = 0
-----------------------------------------------------------------------------
(* The parent                                                              *)

SendmsgWithHandles ==
    /\ parent = "send"
    /\ parent' = "init_child"
    /\ sent' = TRUE
    /\ UNCHANGED <<pp, initialized, parent_wrote, parent_read, childVars,
                   parentChannel, childChannel, faults>>

\* write_pos is set to 0, also under a TryWrite of the child that has loaded it.
InitializeChildBuffer ==
    /\ parent = "init_child"
    /\ parent' = "init_parent"
    /\ child_write_buffer' = <<>>
    /\ torn' = IF child = "publish" THEN child_write_buffer ELSE <<>>
    /\ initialized' = initialized \cup {"child"}
    /\ UNCHANGED <<pp, sent, parent_wrote, parent_read, childVars, parentChannel,
                   child_notify_fd, silent, failures>>

InitializeParentBuffer ==
    /\ parent = "init_parent"
    /\ parent' = "write"
    /\ parent_write_buffer' = <<>>
    /\ initialized' = initialized \cup {"parent"}
    /\ UNCHANGED <<pp, sent, parent_wrote, parent_read, childVars,
                   parent_notify_fd, childChannel, faults>>

Due == pp % 3 = 0 \/ pp = FirstWord
Advance == pp' = IF pp < LastWord THEN pp + 1 ELSE pp

\* Nothing due, or TryWrite finds no room, or not yet, and the word is dropped.
ParentWritesNothing ==
    /\ parent = "write"
    /\ ~Due \/ Len(parent_write_buffer) >= Capacity \/ child = "release"
    /\ parent' = "poll"
    /\ Advance
    /\ UNCHANGED <<sent, initialized, parent_wrote, parent_read, childVars,
                   parentChannel, childChannel, faults>>

ParentWrites ==
    /\ parent = "write"
    /\ Due /\ Len(parent_write_buffer) < Capacity
    /\ parent' = "notify"
    /\ parent_write_buffer' = Append(parent_write_buffer, pp)
    /\ parent_wrote' = Append(parent_wrote, pp)
    /\ UNCHANGED <<pp, sent, initialized, parent_read, childVars,
                   parent_notify_fd, childChannel, faults>>

ParentNotifies ==
    /\ parent = "notify"
    /\ parent' = "poll"
    /\ parent_notify_fd' = parent_notify_fd + 1
    /\ silent' = silent \ {"parent"}
    /\ Advance
    /\ UNCHANGED <<sent, initialized, parent_wrote, parent_read, childVars,
                   parent_write_buffer, childChannel, torn, failures>>

\* Mutant: the eventfd is used as a semaphore, and read when it is not ready.
ParentPollsDecrements ==
    /\ parent = "poll"
    /\ parent' = IF child_notify_fd > 0 THEN "read" ELSE "write"
    /\ child_notify_fd' = child_notify_fd - 1
    /\ UNCHANGED <<pp, sent, initialized, parent_wrote, parent_read, childVars,
                   parentChannel, child_write_buffer, faults>>


\* WaitReadable(child_notify_fd, 0): the counter is cleared, or there is none.
ParentPolls ==
    /\ parent = "poll"
    /\ parent' = IF child_notify_fd > 0 THEN "read" ELSE "write"
    /\ child_notify_fd' = 0
    /\ UNCHANGED <<pp, sent, initialized, parent_wrote, parent_read, childVars,
                   parentChannel, child_write_buffer, faults>>

\* epoll_create, epoll_ctl or epoll_wait fails, which ends the loop of reads like a
\* timeout does; when it is the last epoll_ctl, the counter has been cleared.
ParentPollFails ==
    /\ parent = "poll" /\ failures < MaxFailures
    /\ parent' = "write"
    /\ failures' = failures + 1
    /\ \/ UNCHANGED <<child_notify_fd, silent>>
       \/ /\ child_notify_fd > 0
          /\ child_notify_fd' = 0
          /\ silent' = silent \cup {"child"}
    /\ UNCHANGED <<pp, sent, initialized, parent_wrote, parent_read, childVars,
                   parentChannel, child_write_buffer, torn>>

\* The read buffer is as large as the ring, so all words are read.
ParentReads ==
    /\ parent = "read"
    /\ parent' = "release"
    /\ parent_read' = parent_read \o child_write_buffer
    /\ child_write_buffer' = <<>>
    /\ UNCHANGED <<pp, sent, initialized, parent_wrote, childVars, parentChannel,
                   child_notify_fd, faults>>

ParentReleases ==
    /\ parent = "release"
    /\ parent' = "poll"
    /\ UNCHANGED <<pp, sent, initialized, parent_wrote, parent_read, childVars,
                   parentChannel, childChannel, faults>>

\* The parent has no exit of its own: it is killed, at any moment.
ParentDies ==
    /\ parent # "dead"
    /\ parent' = "dead"
    /\ UNCHANGED <<pp, sent, initialized, parent_wrote, parent_read, childVars,
                   parentChannel, childChannel, faults>>
-----------------------------------------------------------------------------
(* The child                                                               *)

\* A blocking recvmsg.
SocketRecvmsg ==
    /\ child = "receive" /\ sent
    /\ child' = "top"
    /\ UNCHANGED <<kk, child_wrote, child_read, interrupts, parentVars,
                   parentChannel, childChannel, faults>>

\* The parent died before it sent anything: recvmsg returns, the descriptors
\* stay 0, and the child waits on its standard input once before it ends.
OrphanExits ==
    /\ child = "receive" /\ ~sent /\ parent = "dead"
    /\ child' = "exited"
    /\ UNCHANGED <<kk, child_wrote, child_read, interrupts, parentVars,
                   parentChannel, childChannel, faults>>

\* Mutant: the child writes in its odd turns, the first included.
ChildTurnsOdd ==
    /\ child = "top"
    /\ kk' = kk + 1
    /\ child' = IF kk' % 2 = 0 THEN "wait"
                ELSE IF parent = "dead" THEN "exited" ELSE "write"
    /\ UNCHANGED <<child_wrote, child_read, interrupts, parentVars,
                   parentChannel, childChannel, faults>>

\* ++kk; in its even turns the child looks at getppid() and writes.
ChildTurns ==
    /\ child = "top"
    /\ kk' = kk + 1
    /\ child' = IF kk' % 2 # 0 THEN "wait"
                ELSE IF parent = "dead" THEN "exited" ELSE "write"
    /\ UNCHANGED <<child_wrote, child_read, interrupts, parentVars,
                   parentChannel, childChannel, faults>>

\* TryWrite loads the positions and finds no room, or room to copy the word to.
ChildWrites ==
    /\ child = "write"
    /\ \/ /\ Len(child_write_buffer) >= Capacity \/ parent = "release"
          /\ child' = "wait"
       \/ /\ Len(child_write_buffer) < Capacity
          /\ child' = "publish"
    /\ UNCHANGED <<kk, child_wrote, child_read, interrupts, parentVars,
                   parentChannel, childChannel, faults>>

\* The exchange of write_pos.  When Initialize has reset it since it was loaded with
\* another value than 0, TryWrite returns kControlCorruption and nothing is
\* announced; the words before the new one, which Initialize left in the memory,
\* are in the buffer again.
ChildPublishes ==
    /\ child = "publish"
    /\ \/ /\ torn = <<>>
          /\ child' = "notify"
          /\ child_write_buffer' = Append(child_write_buffer, kk)
          /\ child_wrote' = Append(child_wrote, kk)
          /\ UNCHANGED silent
       \/ /\ torn # <<>>
          /\ child' = "wait"
          /\ child_write_buffer' = Append(torn, kk)
          /\ silent' = silent \cup {"child"}
          /\ UNCHANGED child_wrote
    /\ torn' = <<>>
    /\ UNCHANGED <<kk, child_read, interrupts, parentVars, parentChannel,
                   child_notify_fd, failures>>

ChildNotifies ==
    /\ child = "notify"
    /\ child' = "wait"
    /\ child_notify_fd' = child_notify_fd + 1
    /\ silent' = silent \ {"child"}
    /\ UNCHANGED <<kk, child_wrote, child_read, interrupts, parentVars,
                   parentChannel, child_write_buffer, torn, failures>>

\* WaitReadable(parent_notify_fd) blocks without a timeout; Clear.
ChildWakes ==
    /\ child = "wait" /\ parent_notify_fd > 0
    /\ child' = "read"
    /\ parent_notify_fd' = 0
    /\ UNCHANGED <<kk, child_wrote, child_read, interrupts, parentVars,
                   parent_write_buffer, childChannel, faults>>

\* epoll_wait fails with EINTR, as it does when a stopped process is continued, or
\* epoll_create or the first epoll_ctl fails; WaitReadable returns an error and the
\* child goes on to its next turn.
ChildInterrupted ==
    /\ child = "wait" /\ interrupts < MaxInterrupts
    /\ child' = "top"
    /\ interrupts' = interrupts + 1
    /\ UNCHANGED <<kk, child_wrote, child_read, parentVars, parentChannel,
                   childChannel, faults>>

\* The epoll_ctl after Clear fails: the notification is gone, and nothing is read.
ChildWaitFails ==
    /\ child = "wait" /\ parent_notify_fd > 0 /\ failures < MaxFailures
    /\ child' = "top"
    /\ parent_notify_fd' = 0
    /\ failures' = failures + 1
    /\ silent' = silent \cup {"parent"}
    /\ UNCHANGED <<kk, child_wrote, child_read, interrupts, parentVars,
                   parent_write_buffer, childChannel, torn>>

\* Mutant: the child's buffer is one word long.
ChildReadsOne ==
    /\ child = "read"
    /\ child' = "release"
    /\ IF parent_write_buffer = <<>> THEN UNCHANGED <<child_read, parent_write_buffer>>
       ELSE /\ child_read' = Append(child_read, Head(parent_write_buffer))
            /\ parent_write_buffer' = Tail(parent_write_buffer)
    /\ UNCHANGED <<kk, child_wrote, interrupts, parentVars, parent_notify_fd,
                   childChannel, faults>>

ChildReads ==
    /\ child = "read"
    /\ child' = "release"
    /\ child_read' = child_read \o parent_write_buffer
    /\ parent_write_buffer' = <<>>
    /\ UNCHANGED <<kk, child_wrote, interrupts, parentVars, parent_notify_fd,
                   childChannel, faults>>

ChildReleases ==
    /\ child = "release"
    /\ child' = "top"
    /\ UNCHANGED <<kk, child_wrote, child_read, interrupts, parentVars,
                   parentChannel, childChannel, faults>>
-----------------------------------------------------------------------------
ParentStep ==
    \/ SendmsgWithHandles \/ InitializeChildBuffer \/ InitializeParentBuffer
    \/ ParentWritesNothing \/ ParentWrites \/ ParentNotifies \/ ParentPolls
    \/ ParentReads \/ ParentReleases

ChildStep ==
    \/ SocketRecvmsg \/ ChildTurns \/ ChildWrites \/ ChildPublishes
    \/ ChildNotifies \/ ChildWakes \/ ChildReads \/ ChildReleases

Faults ==
    \/ ParentDies \/ OrphanExits \/ ChildInterrupted \/ ParentPollFails
    \/ ChildWaitFails

Next == ParentStep \/ ChildStep \/ Faults

Spec == Init /\ [][Next]_vars

\* Both processes run; nobody has to die and no wait has to fail.
FairSpec == Spec /\ WF_vars(ParentStep) /\ WF_vars(ChildStep)
-----------------------------------------------------------------------------
(* Properties                                                              *)

\* The types of the counters, buffers and histories.
TypeOK ==
    /\ parent \in {"send", "init_child", "init_parent", "write", "notify",
                   "poll", "read", "release", "dead"}
    /\ child \in {"receive", "top", "write", "publish", "notify", "wait", "read",
                  "release", "exited"}
    /\ pp \in Nat /\ kk \in Nat /\ interrupts \in Nat /\ failures \in Nat
    /\ parent_write_buffer \in Seq(Nat) /\ child_write_buffer \in Seq(Nat)
    /\ parent_notify_fd \in Nat /\ child_notify_fd \in Nat
    /\ sent \in BOOLEAN /\ initialized \subseteq {"parent", "child"}
    /\ parent_wrote \in Seq(Nat) /\ child_wrote \in Seq(Nat)
    /\ parent_read \in Seq(Nat) /\ child_read \in Seq(Nat)
    /\ torn \in Seq(Nat) /\ silent \subseteq {"parent", "child"}

\* No word that was written is lost, doubled or reordered on its way, although
\* the parent initialises the buffers after it has handed them to the child.
\* Without signals: the child's first turn is to wait for the parent.
NoWordLost ==
    interrupts = 0 => /\ parent_wrote = child_read \o parent_write_buffer
                      /\ child_wrote = parent_read \o child_write_buffer

\* A word in a buffer is announced: its notification is pending or about to be
\* sent, or the reader is about to read.  Clear before the read and Notify after
\* the write see to it, however the notifications are coalesced.  Two things undo
\* it, until the next Notify: an epoll_ctl that fails after Clear, and a write of
\* the child in the middle of which its buffer is initialised.
NoSilentWord ==
    /\ parent_write_buffer # <<>> =>
         \/ parent_notify_fd > 0 \/ parent \in {"notify", "dead"} \/ child = "read"
         \/ "parent" \in silent
    /\ child_write_buffer # <<>> =>
         \/ child_notify_fd > 0 \/ child = "notify" \/ parent \in {"read", "dead"}
         \/ "child" \in silent

Words(s) == {s[i] : i \in 1..Len(s)}

=============================================================================
