---------------------------- MODULE IpcDemoProofs ----------------------------
(***************************************************************************)
(* Theorems about IpcDemo: no word is lost or left unannounced between the *)
(* two processes, for buffers of any capacity and any number of words.     *)
(***************************************************************************)
EXTENDS IpcDemo, SequenceTheorems, TLAPS

Starting == parent \in {"send", "init_child", "init_parent"}

\* While the parent is still setting up, nothing has been announced to the child;
\* uninterrupted, it is in its first turn, in which it only waits.
StartInv ==
    Starting =>
        /\ parent_notify_fd = 0
        /\ parent_write_buffer = <<>> /\ parent_wrote = <<>>
        /\ interrupts = 0 =>
             /\ child \in {"receive", "top", "wait"}
             /\ child # "wait" => kk = 0
             /\ child_write_buffer = <<>>

\* Without interrupts the child writes nothing before its buffer is initialised.
TornInv == interrupts = 0 => torn = <<>>

IInv == TypeOK /\ StartInv /\ TornInv /\ NoWordLost
-----------------------------------------------------------------------------
\* A buffer to which a word is appended, behind what was read from it.
LEMMA AppendBehind ==
    ASSUME NEW r \in Seq(Nat), NEW b \in Seq(Nat), NEW w \in Nat
    PROVE  Append(r \o b, w) = r \o Append(b, w)
  BY SMTT(20)

\* A buffer that has been read entirely.
LEMMA ReadAll ==
    ASSUME NEW r \in Seq(Nat), NEW b \in Seq(Nat)
    PROVE  r \o b \in Seq(Nat) /\ r \o b = (r \o b) \o <<>>
BY ConcatProperties, ConcatEmptySeq

LEMMA InitIInv == Init => IInv
<1> SUFFICES ASSUME Init PROVE IInv
  OBVIOUS
<1>1. <<>> \in Seq(Nat) /\ <<>> \o <<>> = <<>>
  BY EmptySeq, ConcatEmptySeq
<1>2. TypeOK
  BY <1>1, WordsAssumption, Zenon DEF Init, TypeOK
<1>3. StartInv /\ TornInv /\ NoWordLost
  BY <1>1 DEF Init, StartInv, TornInv, NoWordLost, Starting
<1> QED
  BY <1>2, <1>3 DEF IInv
-----------------------------------------------------------------------------
\* The parent's steps.
LEMMA ParentIInv == IInv /\ (ParentStep \/ ParentDies \/ ParentPollFails) => IInv'
<1> SUFFICES ASSUME IInv, ParentStep \/ ParentDies \/ ParentPollFails PROVE IInv'
  OBVIOUS
<1>e. <<>> \in Seq(Nat)
  BY EmptySeq
<1> USE DEF IInv, parentVars, childVars, parentChannel, childChannel, faults
<1>t. ASSUME UNCHANGED <<interrupts, torn>> PROVE TornInv'
  BY <1>t DEF TornInv
<1>1. CASE SendmsgWithHandles
  BY <1>1 DEF SendmsgWithHandles, TypeOK, StartInv, TornInv, NoWordLost, Starting
<1>2. CASE InitializeChildBuffer
  <2>0. torn' \in Seq(Nat) /\ TornInv'
    BY <1>2, <1>e DEF InitializeChildBuffer, TypeOK, TornInv, StartInv, Starting
  <2>1. TypeOK' BY <1>2, <1>e, <2>0 DEF InitializeChildBuffer, TypeOK
  <2>2. StartInv' BY <1>2 DEF InitializeChildBuffer, StartInv, Starting
  <2>3. NoWordLost'
    BY <1>2, Zenon DEF InitializeChildBuffer, StartInv, Starting, NoWordLost
  <2> QED BY <2>0, <2>1, <2>2, <2>3
<1>3. CASE InitializeParentBuffer
  <2>1. TypeOK' BY <1>3, <1>e DEF InitializeParentBuffer, TypeOK
  <2>2. StartInv' BY <1>3 DEF InitializeParentBuffer, StartInv, Starting
  <2>3. NoWordLost'
    BY <1>3, Zenon DEF InitializeParentBuffer, StartInv, Starting, NoWordLost
  <2>9. TornInv' BY <1>3, <1>t DEF InitializeParentBuffer
  <2> QED BY <2>1, <2>2, <2>3, <2>9
<1>4. CASE ParentWritesNothing
  <2>1. pp' \in Nat BY <1>4 DEF ParentWritesNothing, Advance, TypeOK
  <2>2. TypeOK' BY <1>4, <2>1 DEF ParentWritesNothing, TypeOK
  <2>3. StartInv' /\ NoWordLost'
    BY <1>4 DEF ParentWritesNothing, StartInv, Starting, NoWordLost
  <2>9. TornInv' BY <1>4, <1>t DEF ParentWritesNothing
  <2> QED BY <2>2, <2>3, <2>9
<1>5. CASE ParentWrites
  <2>1. /\ Append(parent_write_buffer, pp) \in Seq(Nat)
        /\ Append(parent_wrote, pp) \in Seq(Nat)
    BY DEF TypeOK
  <2>2. TypeOK' BY <1>5, <2>1 DEF ParentWrites, TypeOK
  <2>3. StartInv' BY <1>5 DEF ParentWrites, StartInv, Starting
  <2>4. Append(child_read \o parent_write_buffer, pp)
          = child_read \o Append(parent_write_buffer, pp)
    <3>1. child_read \in Seq(Nat) /\ parent_write_buffer \in Seq(Nat) /\ pp \in Nat
      BY DEF TypeOK
    <3> QED BY <3>1, AppendBehind, Zenon
  <2>5. NoWordLost'
    BY <1>5, <2>4, Zenon DEF ParentWrites, NoWordLost
  <2>9. TornInv' BY <1>5, <1>t DEF ParentWrites
  <2> QED BY <2>2, <2>3, <2>5, <2>9
<1>6. CASE ParentNotifies
  <2>1. /\ pp' \in Nat /\ parent_notify_fd' \in Nat
        /\ silent' \subseteq {"parent", "child"}
    BY <1>6 DEF ParentNotifies, Advance, TypeOK
  <2>2. TypeOK' BY <1>6, <2>1 DEF ParentNotifies, TypeOK
  <2>3. StartInv' /\ NoWordLost'
    BY <1>6, SMTT(40) DEF ParentNotifies, StartInv, Starting, NoWordLost
  <2>9. TornInv' BY <1>6, <1>t DEF ParentNotifies
  <2> QED BY <2>2, <2>3, <2>9
<1>7. CASE ParentPolls
  <2>1. parent' \in {"read", "write"} BY <1>7 DEF ParentPolls
  <2>2. TypeOK' BY <1>7, <2>1 DEF ParentPolls, TypeOK
  <2>3. StartInv' /\ NoWordLost'
    BY <1>7, <2>1 DEF ParentPolls, StartInv, Starting, NoWordLost
  <2>9. TornInv' BY <1>7, <1>t DEF ParentPolls
  <2> QED BY <2>2, <2>3, <2>9
<1>8. CASE ParentReads
  <2>1. /\ parent_read' \in Seq(Nat)
        /\ parent_read \o child_write_buffer = parent_read' \o <<>>
    BY <1>8, ReadAll DEF ParentReads, TypeOK
  <2>2. TypeOK' BY <1>8, <1>e, <2>1 DEF ParentReads, TypeOK
  <2>3. StartInv' BY <1>8 DEF ParentReads, StartInv, Starting
  <2>4. NoWordLost' BY <1>8, <2>1 DEF ParentReads, NoWordLost
  <2>9. TornInv' BY <1>8, <1>t DEF ParentReads
  <2> QED BY <2>2, <2>3, <2>4, <2>9
<1>9. CASE ParentDies
  BY <1>9, Zenon DEF ParentDies, TypeOK, StartInv, TornInv, NoWordLost, Starting
<1>10. CASE ParentReleases
  BY <1>10, Zenon DEF ParentReleases, TypeOK, StartInv, TornInv, NoWordLost, Starting
<1>11. CASE ParentPollFails
  <2>1. /\ child_notify_fd' \in Nat /\ failures' \in Nat
        /\ silent' \subseteq {"parent", "child"}
    <3>1. failures' \in Nat BY <1>11 DEF ParentPollFails, TypeOK
    <3>2. CASE UNCHANGED <<child_notify_fd, silent>> BY <3>1, <3>2 DEF TypeOK
    <3>3. CASE child_notify_fd' = 0 /\ silent' = silent \cup {"child"}
      BY <3>1, <3>3 DEF TypeOK
    <3> QED BY <1>11, <3>2, <3>3 DEF ParentPollFails
  <2>2. TypeOK' BY <1>11, <2>1 DEF ParentPollFails, TypeOK
  <2>3. StartInv' /\ NoWordLost'
    BY <1>11, SMTT(40) DEF ParentPollFails, StartInv, Starting, NoWordLost
  <2>9. TornInv' BY <1>11, <1>t DEF ParentPollFails
  <2> QED BY <2>2, <2>3, <2>9
<1> QED
  BY <1>1, <1>2, <1>3, <1>4, <1>5, <1>6, <1>7, <1>8, <1>9, <1>10, <1>11 DEF ParentStep

\* The child's steps.
LEMMA ChildIInv ==
    IInv /\ (ChildStep \/ OrphanExits \/ ChildInterrupted \/ ChildWaitFails) => IInv'
<1> SUFFICES ASSUME IInv,
                    ChildStep \/ OrphanExits \/ ChildInterrupted \/ ChildWaitFails
             PROVE  IInv'
  OBVIOUS
<1>e. <<>> \in Seq(Nat)
  BY EmptySeq
<1> USE DEF IInv, parentVars, childVars, parentChannel, childChannel, faults
<1>t. ASSUME UNCHANGED <<interrupts, torn>> PROVE TornInv'
  BY <1>t DEF TornInv
<1>1. CASE SocketRecvmsg
  <2>1. TypeOK' BY <1>1 DEF SocketRecvmsg, TypeOK
  <2>2. StartInv' /\ NoWordLost'
    BY <1>1 DEF SocketRecvmsg, StartInv, Starting, NoWordLost
  <2>9. TornInv' BY <1>1, <1>t DEF SocketRecvmsg
  <2> QED BY <2>1, <2>2, <2>9
<1>2. CASE ChildTurns
  <2>1. kk' \in Nat /\ child' \in {"wait", "exited", "write"}
    BY <1>2 DEF ChildTurns, TypeOK
  <2>2. TypeOK' BY <1>2, <2>1 DEF ChildTurns, TypeOK
  <2>3. kk = 0 => child' = "wait" BY <1>2 DEF ChildTurns
  <2>4. StartInv' BY <1>2, <2>3 DEF ChildTurns, StartInv, Starting
  <2>5. NoWordLost' BY <1>2, SMTT(40) DEF ChildTurns, NoWordLost
  <2>9. TornInv' BY <1>2, <1>t DEF ChildTurns
  <2> QED BY <2>2, <2>4, <2>5, <2>9
<1>3. CASE ChildWrites
  <2>1. child' \in {"wait", "publish"} BY <1>3 DEF ChildWrites
  <2>2. TypeOK' BY <1>3, <2>1 DEF ChildWrites, TypeOK
  <2>3. StartInv' /\ NoWordLost'
    BY <1>3 DEF ChildWrites, StartInv, Starting, NoWordLost
  <2>9. TornInv' BY <1>3, <1>t DEF ChildWrites
  <2> QED BY <2>2, <2>3, <2>9
<1>10. CASE ChildPublishes
  <2>1. /\ child_write_buffer' \in Seq(Nat) /\ child_wrote' \in Seq(Nat)
        /\ child' \in {"notify", "wait"} /\ silent' \subseteq {"parent", "child"}
    <3>1. /\ Append(child_write_buffer, kk) \in Seq(Nat)
          /\ Append(child_wrote, kk) \in Seq(Nat) /\ Append(torn, kk) \in Seq(Nat)
          /\ child_wrote \in Seq(Nat)
      BY DEF TypeOK
    <3>2. silent \cup {"child"} \subseteq {"parent", "child"}
      BY DEF TypeOK
    <3>3. silent' \subseteq {"parent", "child"}
      BY <1>10, <3>2, Zenon DEF ChildPublishes, TypeOK
    <3> QED BY <1>10, <3>1, <3>3, Zenon DEF ChildPublishes
  <2>2. TypeOK' BY <1>10, <1>e, <2>1 DEF ChildPublishes, TypeOK
  <2>3. StartInv' BY <1>10 DEF ChildPublishes, StartInv, Starting
  <2>4. Append(parent_read \o child_write_buffer, kk)
          = parent_read \o Append(child_write_buffer, kk)
    <3>1. parent_read \in Seq(Nat) /\ child_write_buffer \in Seq(Nat) /\ kk \in Nat
      BY DEF TypeOK
    <3> QED BY <3>1, AppendBehind, Zenon
  <2>5. NoWordLost'
    BY <1>10, <2>4, ZenonT(40) DEF ChildPublishes, NoWordLost, TornInv
  <2>6. TornInv' BY <1>10 DEF ChildPublishes, TornInv
  <2> QED BY <2>2, <2>3, <2>5, <2>6
<1>4. CASE ChildNotifies
  <2>1. child_notify_fd' \in Nat /\ silent' \subseteq {"parent", "child"}
    BY <1>4 DEF ChildNotifies, TypeOK
  <2>2. TypeOK' BY <1>4, <2>1 DEF ChildNotifies, TypeOK
  <2>3. StartInv' /\ NoWordLost'
    BY <1>4 DEF ChildNotifies, StartInv, Starting, NoWordLost
  <2>9. TornInv' BY <1>4, <1>t DEF ChildNotifies
  <2> QED BY <2>2, <2>3, <2>9
<1>5. CASE ChildWakes
  <2>1. TypeOK' BY <1>5 DEF ChildWakes, TypeOK
  <2>2. ~Starting BY <1>5 DEF ChildWakes, StartInv
  <2>3. StartInv' /\ NoWordLost'
    BY <1>5, <2>2 DEF ChildWakes, StartInv, Starting, NoWordLost
  <2>9. TornInv' BY <1>5, <1>t DEF ChildWakes
  <2> QED BY <2>1, <2>3, <2>9
<1>6. CASE ChildReads
  <2>1. /\ child_read' \in Seq(Nat)
        /\ child_read \o parent_write_buffer = child_read' \o <<>>
    BY <1>6, ReadAll DEF ChildReads, TypeOK
  <2>2. TypeOK' BY <1>6, <1>e, <2>1 DEF ChildReads, TypeOK
  <2>3. StartInv' BY <1>6 DEF ChildReads, StartInv, Starting
  <2>4. NoWordLost' BY <1>6, <2>1 DEF ChildReads, NoWordLost
  <2>9. TornInv' BY <1>6, <1>t DEF ChildReads
  <2> QED BY <2>2, <2>3, <2>4, <2>9
<1>7. CASE ChildInterrupted
  <2>1. interrupts' \in Nat /\ interrupts' # 0
    BY <1>7 DEF ChildInterrupted, TypeOK
  <2>2. TypeOK' BY <1>7, <2>1 DEF ChildInterrupted, TypeOK
  <2>3. StartInv' /\ NoWordLost' /\ TornInv'
    BY <1>7, <2>1 DEF ChildInterrupted, StartInv, Starting, NoWordLost, TornInv
  <2> QED BY <2>2, <2>3
<1>8. CASE OrphanExits
  BY <1>8, Zenon DEF OrphanExits, TypeOK, StartInv, TornInv, NoWordLost, Starting
<1>9. CASE ChildReleases
  BY <1>9, Zenon DEF ChildReleases, TypeOK, StartInv, TornInv, NoWordLost, Starting
<1>11. CASE ChildWaitFails
  <2>1. failures' \in Nat /\ silent' \subseteq {"parent", "child"}
    BY <1>11 DEF ChildWaitFails, TypeOK
  <2>2. TypeOK' BY <1>11, <2>1 DEF ChildWaitFails, TypeOK
  <2>3. ~Starting BY <1>11 DEF ChildWaitFails, StartInv
  <2>4. StartInv' /\ NoWordLost'
    BY <1>11, <2>3 DEF ChildWaitFails, StartInv, Starting, NoWordLost
  <2>9. TornInv' BY <1>11, <1>t DEF ChildWaitFails
  <2> QED BY <2>2, <2>4, <2>9
<1> QED
  BY <1>1, <1>2, <1>3, <1>4, <1>5, <1>6, <1>7, <1>8, <1>9, <1>10, <1>11 DEF ChildStep
-----------------------------------------------------------------------------
\* The inductive invariant of both processes.
THEOREM Invariance == Spec => []IInv
<1>1. IInv /\ UNCHANGED vars => IInv'
  BY ZenonT(40) DEF IInv, TypeOK, StartInv, TornInv, Starting, NoWordLost, vars,
         parentVars, childVars, parentChannel, childChannel, faults
<1>2. IInv /\ [Next]_vars => IInv'
  BY <1>1, ParentIInv, ChildIInv DEF Next, Faults
<1> QED
  BY InitIInv, <1>2, PTL DEF Spec

\* Counters, buffers and histories keep their types.
THEOREM TypeCorrect == Spec => []TypeOK
<1>1. IInv => TypeOK
  BY DEF IInv
<1> QED
  BY Invariance, <1>1, PTL

\* Every word that TryWrite accepted is read once and in order or still in its
\* buffer, although the buffers are initialised after they are handed over, as
\* long as the child's waits are not interrupted.
THEOREM WordsArriveInOrder == Spec => []NoWordLost
<1>1. IInv => NoWordLost
  BY DEF IInv
<1> QED
  BY Invariance, <1>1, PTL

\* No word stays in a buffer without a notification that leads to its read, unless
\* the last announcement of that buffer was lost: an epoll_ctl failed after Clear, or
\* Initialize came in the middle of a write of the child.
THEOREM WordsAreAnnounced == Spec => []NoSilentWord
<1>1. Init => NoSilentWord
  BY DEF Init, NoSilentWord
<1>2. TypeOK /\ NoSilentWord /\ [Next]_vars => NoSilentWord'
  <2> SUFFICES ASSUME TypeOK, NoSilentWord, [Next]_vars PROVE NoSilentWord'
    OBVIOUS
  <2> USE DEF NoSilentWord, parentVars, childVars, parentChannel, childChannel, faults
  <2>1. CASE SendmsgWithHandles BY <2>1 DEF SendmsgWithHandles
  <2>2. CASE InitializeChildBuffer BY <2>2 DEF InitializeChildBuffer
  <2>3. CASE InitializeParentBuffer BY <2>3 DEF InitializeParentBuffer
  <2>4. CASE ParentWritesNothing BY <2>4 DEF ParentWritesNothing
  <2>5. CASE ParentWrites BY <2>5 DEF ParentWrites
  <2>6. CASE ParentNotifies
    <3>1. parent_notify_fd' > 0 BY <2>6 DEF ParentNotifies, TypeOK
    <3> QED BY <2>6, <3>1 DEF ParentNotifies
  <2>7. CASE ParentPolls BY <2>7 DEF ParentPolls
  <2>8. CASE ParentReads BY <2>8 DEF ParentReads
  <2>9. CASE ParentDies BY <2>9 DEF ParentDies
  <2>10. CASE SocketRecvmsg BY <2>10 DEF SocketRecvmsg
  <2>11. CASE ChildTurns BY <2>11 DEF ChildTurns
  <2>12. CASE ChildWrites BY <2>12 DEF ChildWrites
  <2>13. CASE ChildNotifies
    <3>1. child_notify_fd' > 0 BY <2>13 DEF ChildNotifies, TypeOK
    <3> QED BY <2>13, <3>1 DEF ChildNotifies
  <2>14. CASE ChildWakes BY <2>14 DEF ChildWakes
  <2>15. CASE ChildReads BY <2>15 DEF ChildReads
  <2>16. CASE ChildInterrupted BY <2>16 DEF ChildInterrupted
  <2>17. CASE UNCHANGED vars BY <2>17 DEF vars
  <2>18. CASE ParentReleases BY <2>18 DEF ParentReleases
  <2>19. CASE ChildReleases BY <2>19 DEF ChildReleases
  <2>20. CASE OrphanExits BY <2>20 DEF OrphanExits
  <2>21. CASE ChildPublishes BY <2>21 DEF ChildPublishes
  <2>22. CASE ParentPollFails BY <2>22 DEF ParentPollFails
  <2>23. CASE ChildWaitFails BY <2>23 DEF ChildWaitFails
  <2> QED
    BY <2>1, <2>2, <2>3, <2>4, <2>5, <2>6, <2>7, <2>8, <2>9, <2>10, <2>11, <2>12,
       <2>13, <2>14, <2>15, <2>16, <2>17, <2>18, <2>19, <2>20, <2>21, <2>22, <2>23
       DEF Next, ParentStep, ChildStep, Faults
<1> QED
  BY <1>1, <1>2, TypeCorrect, PTL DEF Spec
=============================================================================
