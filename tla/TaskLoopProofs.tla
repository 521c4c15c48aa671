--------------------------- MODULE TaskLoopProofs ---------------------------
(* Proofs about TaskLoop, for any set of clients and any bounds.           *)
EXTENDS TaskLoop, Integers, FiniteSetTheorems, TLAPS

\* The inductive invariant: types, where the tasks are, and how the flag, the
\* control point of the loop and the owner go together.
QuitInv ==
    /\ QuitIsPrompt
    /\ ~should_quit_ => late = 0 /\ owner = "idle"
    /\ should_quit_ /\ loop = "pop" => late = 0
    /\ loop = "pop" => work_queue_ # <<>>

IInv == TypeOK /\ NothingLost /\ QueuesInOrder /\ QuitInv

\* push_back adds one element at the end.
LEMMA AppendFacts ==
    ASSUME NEW s \in Seq(Nat), NEW e \in Nat
    PROVE  /\ Append(s, e) \in Seq(Nat)
           /\ Len(Append(s, e)) = Len(s) + 1
           /\ \A i \in 1..Len(s) : Append(s, e)[i] = s[i]
           /\ Append(s, e)[Len(s) + 1] = e
           /\ Elements(Append(s, e)) = Elements(s) \cup {e}
  <1>1. /\ Append(s, e) \in Seq(Nat)
        /\ Len(s) \in Nat
        /\ Len(Append(s, e)) = Len(s) + 1
        /\ \A i \in 1..Len(s) : Append(s, e)[i] = s[i]
        /\ Append(s, e)[Len(s) + 1] = e
    OBVIOUS
  <1>2. Elements(Append(s, e)) = Elements(s) \cup {e}
    <2>1. ASSUME NEW x \in Elements(Append(s, e)) PROVE x \in Elements(s) \cup {e}
      BY <1>1 DEF Elements
    <2>2. ASSUME NEW x \in Elements(s) PROVE x \in Elements(Append(s, e))
      BY <1>1 DEF Elements
    <2>3. e \in Elements(Append(s, e))
      BY <1>1 DEF Elements
    <2>4. QED
      BY Zenon, <2>1, <2>2, <2>3
  <1>3. QED
    BY Zenon, <1>1, <1>2

\* pop_front of a queue in order takes its least element and no other.
LEMMA PopFacts ==
    ASSUME NEW s \in Seq(Nat), s # <<>>, Increasing(s)
    PROVE  /\ Head(s) \in Nat
           /\ Tail(s) \in Seq(Nat)
           /\ Increasing(Tail(s))
           /\ Elements(s) = Elements(Tail(s)) \cup {Head(s)}
           /\ Head(s) \notin Elements(Tail(s))
  <1>1. /\ Head(s) = s[1]
        /\ Head(s) \in Nat
        /\ Tail(s) \in Seq(Nat)
        /\ Len(s) \in Nat \ {0}
        /\ Len(Tail(s)) = Len(s) - 1
        /\ \A i \in 1..Len(Tail(s)) : Tail(s)[i] = s[i + 1]
        /\ \A i \in 1..Len(s) : s[i] \in Nat
    OBVIOUS
  <1>2. Increasing(Tail(s))
    BY <1>1 DEF Increasing
  <1>3. Head(s) \notin Elements(Tail(s))
    <2>1. ASSUME NEW i \in 1..Len(Tail(s)) PROVE Head(s) # Tail(s)[i]
      <3>1. 1 \in 1..Len(s) /\ i + 1 \in 1..Len(s) /\ 1 < i + 1
        BY <1>1
      <3>2. s[1] < s[i + 1]
        BY Zenon, <3>1 DEF Increasing
      <3>3. QED
        BY <1>1, <3>1, <3>2
    <2>2. QED
      BY Zenon, <2>1 DEF Elements
  <1>4. Elements(s) = Elements(Tail(s)) \cup {Head(s)}
    <2>1. ASSUME NEW i \in 1..Len(s) PROVE s[i] \in Elements(Tail(s)) \cup {Head(s)}
      <3>1. CASE i = 1
        BY Zenon, <1>1, <3>1
      <3>2. CASE i # 1
        <4>1. i - 1 \in 1..Len(Tail(s)) /\ Tail(s)[i - 1] = s[i]
          BY <1>1, <3>2
        <4>2. QED
          BY Zenon, <4>1 DEF Elements
      <3>3. QED
        BY Zenon, <3>1, <3>2
    <2>2. ASSUME NEW i \in 1..Len(Tail(s)) PROVE Tail(s)[i] \in Elements(s)
      BY <1>1 DEF Elements
    <2>3. Head(s) \in Elements(s)
      BY <1>1 DEF Elements
    <2>4. QED
      BY Zenon, <2>1, <2>2, <2>3 DEF Elements
  <1>5. QED
    BY Zenon, <1>1, <1>2, <1>3, <1>4

\* The state after the constructor.
LEMMA InitIInv == Init => IInv
  <1> SUFFICES ASSUME Init PROVE IInv
    BY Zenon
  <1>1. /\ Elements(<<>>) = {}
        /\ Increasing(<<>>)
        /\ <<>> \in Seq(Nat)
    BY DEF Elements, Increasing
  <1>2. TypeOK
    BY <1>1, Zenon DEF Init, TypeOK, LoopPoints
  <1>3. NothingLost /\ QueuesInOrder
    BY <1>1 DEF Init, NothingLost, QueuesInOrder, Pending
  <1>4. QED
    BY <1>2, <1>3 DEF Init, IInv, QuitInv, QuitIsPrompt

\* The new task is the largest number so far: it is nowhere yet and goes last.
LEMMA PushIInv ==
    ASSUME IInv, NEW isNull \in BOOLEAN, Push(isNull),
           loop' \in LoopPoints, client' \in [Clients -> {"idle", "notify"}],
           loop' = loop \/ (loop = "run" /\ loop' = "notify")
    PROVE  IInv'
  <1> DEFINE s == incoming_task_queue_
             n == posted + 1
  <1>1. /\ s \in Seq(Nat) /\ n \in Nat /\ posted \in Nat
        /\ incoming_task_queue_' = Append(s, n)
        /\ posted' = n
        /\ UNCHANGED <<work_queue_, should_quit_, current, more, owner, executed,
                       skipped, late, stops>>
    BY DEF IInv, TypeOK, Push
  <1>2. /\ incoming_task_queue_' \in Seq(Nat)
        /\ Len(incoming_task_queue_') = Len(s) + 1
        /\ Len(s) \in Nat
        /\ \A i \in 1..Len(s) : incoming_task_queue_'[i] = s[i]
        /\ incoming_task_queue_'[Len(s) + 1] = n
        /\ Elements(incoming_task_queue_') = Elements(s) \cup {n}
    BY <1>1, AppendFacts
  <1>3. 1..posted' = (1..posted) \cup {n} /\ n \notin 1..posted
    BY <1>1
  <1>4. nulls' \subseteq nulls \cup {n} /\ nulls \subseteq nulls'
    BY Zenon DEF Push
  <1>5. TypeOK'
    BY Zenon, <1>1, <1>2, <1>3, <1>4 DEF IInv, TypeOK
  <1>6. NothingLost'
    <2>1. /\ Elements(work_queue_') = Elements(work_queue_)
          /\ Elements(executed') = Elements(executed)
      BY Zenon, <1>1
    <2>2. Pending' = Pending \cup {n}
      BY Zenon, <1>2, <2>1 DEF Pending
    <2>3. n \notin Pending \cup Elements(executed) \cup skipped
      BY Zenon, <1>3 DEF IInv, NothingLost
    <2>4. /\ Pending' \cup Elements(executed') \cup skipped' = 1..posted'
          /\ Pending' \cap (Elements(executed') \cup skipped') = {}
      BY <1>1, <1>3, <2>1, <2>2, <2>3 DEF IInv, NothingLost
    <2>5. Elements(incoming_task_queue_') \cap Elements(work_queue_') = {}
      BY Zenon, <1>2, <2>1, <2>3 DEF IInv, NothingLost, Pending
    <2>6. Elements(executed') \cap nulls' = {}
      BY Zenon, <1>4, <2>1, <2>3 DEF IInv, NothingLost
    <2>7. \A i, j \in 1..Len(executed') : i # j => executed'[i] # executed'[j]
      BY Zenon, <1>1 DEF IInv, NothingLost
    <2>8. QED
      BY Zenon, <2>4, <2>5, <2>6, <2>7 DEF NothingLost
  <1>7. QueuesInOrder'
    <2>1. \A i \in 1..Len(s) : s[i] < n
      <3>1. \A i \in 1..Len(s) : s[i] \in 1..posted
        BY Zenon DEF IInv, NothingLost, Pending, Elements
      <3>2. QED
        BY <3>1, <1>1
    <2>2. Increasing(s) /\ Increasing(work_queue_')
      BY Zenon, <1>1 DEF IInv, QueuesInOrder
    <2>3. Increasing(incoming_task_queue_')
      <3> SUFFICES ASSUME NEW i \in 1..Len(s) + 1, NEW j \in 1..Len(s) + 1, i < j
                   PROVE  incoming_task_queue_'[i] < incoming_task_queue_'[j]
        BY Zenon, <1>2 DEF Increasing
      <3>1. i \in 1..Len(s)
        BY <1>2
      <3>2. CASE j \in 1..Len(s)
        BY Zenon, <1>2, <2>2, <3>1, <3>2 DEF Increasing
      <3>3. CASE j = Len(s) + 1
        BY Zenon, <1>2, <2>1, <3>1, <3>3
      <3>4. j \in 1..Len(s) \/ j = Len(s) + 1
        <4>1. Len(s) \in Nat
          BY Zenon, <1>2
        <4> HIDE DEF s
        <4>2. QED
          BY <4>1
      <3>5. QED
        BY Zenon, <3>2, <3>3, <3>4
    <2>4. QED
      BY Zenon, <2>2, <2>3 DEF QueuesInOrder
  <1>8. QuitInv'
    BY Zenon, <1>1 DEF IInv, QuitInv, QuitIsPrompt
  <1>9. QED
    BY Zenon, <1>5, <1>6, <1>7, <1>8 DEF IInv

\* The task popped leaves the queue and is started or skipped, once.
LEMMA PopIInv == ASSUME IInv, PopTask PROVE IInv'
  <1> DEFINE s == work_queue_
             t == Head(work_queue_)
  <1>1. /\ s \in Seq(Nat) /\ s # <<>> /\ Increasing(s)
        /\ loop = "pop"
        /\ work_queue_' = Tail(s)
        /\ UNCHANGED <<incoming_task_queue_, should_quit_, more, posted, nulls,
                       client, owner, stops>>
    BY Zenon DEF IInv, TypeOK, QueuesInOrder, QuitInv, PopTask, Goto
  <1>2. /\ t \in Nat
        /\ work_queue_' \in Seq(Nat)
        /\ Increasing(work_queue_')
        /\ Elements(s) = Elements(work_queue_') \cup {t}
        /\ t \notin Elements(work_queue_')
    BY Zenon, <1>1, PopFacts
  <1>3. QueuesInOrder'
    BY Zenon, <1>1, <1>2 DEF IInv, QueuesInOrder
  <1>4. /\ t \notin Elements(executed) /\ t \notin skipped
        /\ t \notin Pending'
        /\ Pending = Pending' \cup {t}
    BY Zenon, <1>1, <1>2 DEF IInv, NothingLost, Pending
  <1>5. CASE t \in nulls
    <2>1. /\ loop' = "skip"
          /\ skipped' = skipped \cup {t}
          /\ UNCHANGED <<current, executed, late>>
      BY Zenon, <1>5 DEF PopTask, Goto
    <2>2. TypeOK'
      BY <1>1, <1>2, <1>5, <2>1, Zenon DEF IInv, TypeOK, LoopPoints
    <2>3. NothingLost'
      BY <1>1, <1>2, <1>4, <1>5, <2>1 DEF IInv, NothingLost
    <2>4. QuitInv'
      BY Zenon, <1>1, <2>1 DEF IInv, QuitInv, QuitIsPrompt
    <2>5. QED
      BY Zenon, <1>3, <2>2, <2>3, <2>4 DEF IInv
  <1>6. CASE t \notin nulls
    <2>1. /\ loop' = "run"
          /\ current' = t
          /\ executed' = Append(executed, t)
          /\ late' = IF should_quit_ THEN late + 1 ELSE late
          /\ UNCHANGED skipped
      BY Zenon, <1>6 DEF PopTask, Goto
    <2>2. /\ executed \in Seq(Nat) /\ Len(executed) \in Nat
          /\ executed' \in Seq(Nat)
          /\ Len(executed') = Len(executed) + 1
          /\ \A i \in 1..Len(executed) : executed'[i] = executed[i]
          /\ executed'[Len(executed) + 1] = t
          /\ Elements(executed') = Elements(executed) \cup {t}
      BY <1>2, <2>1, AppendFacts, SMTT(40) DEF IInv, TypeOK
    <2>3. TypeOK'
      BY <1>1, <1>2, <2>1, <2>2 DEF IInv, TypeOK, LoopPoints
    <2>4. \A i, j \in 1..Len(executed') : i # j => executed'[i] # executed'[j]
      <3>1. \A i \in 1..Len(executed) : executed[i] # t
        BY Zenon, <1>4 DEF Elements
      <3> SUFFICES ASSUME NEW i \in 1..Len(executed) + 1,
                          NEW j \in 1..Len(executed) + 1, i # j
                   PROVE  executed'[i] # executed'[j]
        BY Zenon, <2>2
      <3>2. CASE i \in 1..Len(executed) /\ j \in 1..Len(executed)
        BY Zenon, <2>2, <3>2 DEF IInv, NothingLost
      <3>3. CASE i \in 1..Len(executed) /\ j = Len(executed) + 1
        BY Zenon, <2>2, <3>1, <3>3
      <3>4. CASE i = Len(executed) + 1 /\ j \in 1..Len(executed)
        BY Zenon, <2>2, <3>1, <3>4
      <3>5. QED
        BY SMTT(40), <2>2, <3>2, <3>3, <3>4
    <2>5. NothingLost'
      <3>1. /\ Pending' \cup Elements(executed') \cup skipped' = 1..posted'
            /\ Pending' \cap (Elements(executed') \cup skipped') = {}
            /\ Elements(executed') \cap nulls' = {}
        BY <1>1, <1>4, <1>6, <2>1, <2>2 DEF IInv, NothingLost
      <3>2. Elements(incoming_task_queue_') \cap Elements(work_queue_') = {}
        BY Zenon, <1>1, <1>2 DEF IInv, NothingLost
      <3>3. QED
        BY Zenon, <2>4, <3>1, <3>2 DEF NothingLost
    <2>6. QuitInv'
      BY <1>1, <2>1 DEF IInv, TypeOK, QuitInv, QuitIsPrompt
    <2>7. QED
      BY Zenon, <1>3, <2>3, <2>5, <2>6 DEF IInv
  <1>7. QED
    BY Zenon, <1>5, <1>6

\* A swap moves no task in or out and keeps the order inside each queue.
LEMMA ReloadIInv == ASSUME IInv, ReloadWorkQueue PROVE IInv'
  <1>1. /\ loop' = "dispatch"
        /\ UNCHANGED <<should_quit_, current, more, tasks, client, owner, stops>>
        /\ \/ UNCHANGED queues
           \/ /\ incoming_task_queue_' = work_queue_
              /\ work_queue_' = incoming_task_queue_
    BY Zenon DEF ReloadWorkQueue, Goto
  <1>2. TypeOK'
    BY Zenon, <1>1 DEF IInv, TypeOK, tasks, queues, LoopPoints
  <1>3. NothingLost'
    BY Zenon, <1>1 DEF IInv, NothingLost, Pending, tasks, queues
  <1>4. QueuesInOrder'
    BY Zenon, <1>1 DEF IInv, QueuesInOrder, queues
  <1>5. QuitInv'
    BY <1>1 DEF IInv, QuitInv, QuitIsPrompt, ReloadWorkQueue, Goto, tasks
  <1>6. QED
    BY Zenon, <1>2, <1>3, <1>4, <1>5 DEF IInv

\* The other steps move no task: they change control points and the flag.
LEMMA ControlIInv ==
    ASSUME IInv,
           \/ \E c \in Clients : PostNotifies(c)
           \/ Dispatch \/ SkipNull \/ TaskReturns \/ CheckQuit
           \/ WaitTest("test") \/ WaitTest("woken") \/ WaitBlock
           \/ TaskPostNotifies \/ WakesSpuriously
           \/ Start \/ Stop \/ StopNotifies \/ StopReturns
    PROVE  IInv'
  <1> DEFINE Preserved == /\ UNCHANGED <<queues, posted, nulls, executed, skipped>>
                          /\ TypeOK'
                          /\ QuitInv'
  <1> USE DEF Goto, Woken
  <1>1. Preserved
    <2> USE DEF IInv, TypeOK, LoopPoints, QuitInv, QuitIsPrompt, queues, tasks
    <2>1. ASSUME NEW c \in Clients, PostNotifies(c) PROVE Preserved
      BY Zenon, <2>1 DEF PostNotifies
    <2>2. CASE Dispatch
      BY <2>2, Zenon DEF Dispatch
    <2>3. CASE SkipNull
      BY <2>3, Zenon DEF SkipNull
    <2>4. CASE TaskReturns
      BY Zenon, <2>4 DEF TaskReturns
    <2>5. CASE CheckQuit
      BY Zenon, <2>5 DEF CheckQuit
    <2>6. ASSUME NEW from \in {"test", "woken"}, WaitTest(from) PROVE Preserved
      <3>1. CASE should_quit_
        BY Zenon, <2>6, <3>1 DEF WaitTest
      <3>2. CASE ~should_quit_
        BY Zenon, <2>6, <3>2 DEF WaitTest
      <3>3. QED
        BY Zenon, <3>1, <3>2
    <2>7. CASE WaitBlock
      BY Zenon, <2>7 DEF WaitBlock
    <2>8. CASE TaskPostNotifies
      BY Zenon, <2>8 DEF TaskPostNotifies
    <2>9. CASE WakesSpuriously
      BY Zenon, <2>9 DEF WakesSpuriously
    <2>10. CASE Start
      <3>1. CASE loop = "none"
        <4>1. /\ should_quit_' = FALSE /\ late' = 0 /\ loop' = "reload"
              /\ owner = "idle"
              /\ UNCHANGED <<queues, current, more, client, owner, posted, nulls,
                             executed, skipped, stops>>
          BY Zenon, <2>10, <3>1 DEF Start
        <4>2. TypeOK'
          BY <4>1, Zenon
        <4>3. QuitInv'
          BY <4>1
        <4>4. QED
          BY Zenon, <4>1, <4>2, <4>3
      <3>2. CASE loop # "none"
        BY <2>10, <3>2, Zenon DEF Start
      <3>3. QED
        BY Zenon, <3>1, <3>2
    <2>11. CASE Stop
      BY <2>11 DEF Stop
    <2>12. CASE StopNotifies
      BY Zenon, <2>12 DEF StopNotifies
    <2>13. CASE StopReturns
      BY Zenon, <2>13 DEF StopReturns
    <2>14. QED
      BY Zenon, <2>1, <2>2, <2>3, <2>4, <2>5, <2>6, <2>7, <2>8, <2>9, <2>10, <2>11,
         <2>12, <2>13, Zenon
  <1>2. NothingLost' /\ QueuesInOrder'
    BY Zenon, <1>1 DEF IInv, NothingLost, QueuesInOrder, Pending, queues
  <1>3. QED
    BY Zenon, <1>1, <1>2 DEF IInv
-----------------------------------------------------------------------------
\* IInv holds in every reachable state.
THEOREM Invariance == Spec => []IInv
  <1>1. IInv /\ [Next]_vars => IInv'
    <2> SUFFICES ASSUME IInv, [Next]_vars PROVE IInv'
      BY Zenon
    <2>1. CASE UNCHANGED vars
      BY Zenon, <2>1 DEF vars, queues, tasks, IInv, TypeOK, NothingLost, QueuesInOrder,
                  QuitInv, QuitIsPrompt, Pending
    <2>2. ASSUME NEW c \in Clients, PostTask(c) PROVE IInv'
      <3>1. PICK isNull \in BOOLEAN : Push(isNull)
        BY Zenon, <2>2 DEF PostTask
      <3>2. /\ loop' = loop /\ loop \in LoopPoints
            /\ client' \in [Clients -> {"idle", "notify"}]
        BY Zenon, <2>2 DEF PostTask, IInv, TypeOK
      <3>3. QED
        BY Zenon, <3>1, <3>2, PushIInv
    <2>3. CASE TaskPostsTask
      <3>1. PICK isNull \in BOOLEAN : Push(isNull)
        BY Zenon, <2>3 DEF TaskPostsTask
      <3>2. /\ loop = "run" /\ loop' = "notify" /\ loop' \in LoopPoints
            /\ client' \in [Clients -> {"idle", "notify"}]
        BY Zenon, <2>3 DEF TaskPostsTask, IInv, TypeOK, LoopPoints
      <3>3. QED
        BY Zenon, <3>1, <3>2, PushIInv
    <2>4. CASE ReloadWorkQueue
      BY Zenon, <2>4, ReloadIInv
    <2>5. CASE PopTask
      BY Zenon, <2>5, PopIInv
    <2>6. QED
      BY Zenon, <2>1, <2>2, <2>3, <2>4, <2>5, ControlIInv DEF Next, LoopStep
  <1>2. QED
    BY InitIInv, <1>1, PTL DEF Spec

\* The fields, control points and histories of the loop keep their types.
THEOREM TypeCorrect == Spec => []TypeOK
  BY Invariance, PTL DEF IInv

\* Swapping the two queues, with tasks left in them or not, and stopping and
\* starting the loop neither lose a task nor run one twice.
THEOREM TasksConserved == Spec => []NothingLost
  BY Invariance, PTL DEF IInv

\* Both queues stay in posting order.
THEOREM OrderWithinQueue == Spec => []QueuesInOrder
  BY Invariance, PTL DEF IInv

\* At most one task starts after should_quit_ is set, and no loop thread is left when Stop has returned.
THEOREM PromptQuit == Spec => []QuitIsPrompt
  <1>1. IInv => QuitIsPrompt
    BY Zenon DEF IInv, QuitInv
  <1>2. QED
    BY <1>1, Invariance, PTL
-----------------------------------------------------------------------------
(* How far tasks overtake                                                  *)

\* The executions that came before t's own and were of later tasks.
Ahead(t) ==
    {i \in 1..Len(executed) :
        (\A j \in 1..i : executed[j] # t) /\ executed[i] > t}
Overtaken(t) == Cardinality(Ahead(t))

\* The loop is between a swap and the pop that follows it.
AtPop == loop \in {"dispatch", "pop", "skip"}

\* The points from which a loop told to quit returns without another swap.
Leaving == {"run", "notify", "check", "returned", "none"}

\* The Stops that have already cost a swap its pop, or no longer can.
Credit == IF should_quit_ /\ loop \notin Leaving THEN stops - 1 ELSE stops

\* One more task may overtake what is in incoming_task_queue_ while a pop of the
\* other queue is due.
DueIncoming == IF AtPop /\ work_queue_ # <<>> THEN 1 ELSE 0
DueWork == IF AtPop THEN 0 ELSE 1

\* Every task in front of t in its queue stands for one task that may yet overtake
\* t: at a pop of t's queue one of them goes, and the other queue is popped once
\* before the next.
OvertakeInv ==
    /\ Len(incoming_task_queue_) + Len(work_queue_) <= posted
    /\ should_quit_ => stops >= 1
    /\ \A p \in 1..Len(incoming_task_queue_) :
          Overtaken(incoming_task_queue_[p]) + p + DueIncoming
            <= incoming_task_queue_[p] + Credit
    /\ \A p \in 1..Len(work_queue_) :
          Overtaken(work_queue_[p]) + p + DueWork <= work_queue_[p] + Credit
    /\ \A i \in 1..Len(executed) : Overtaken(executed[i]) < executed[i] + stops

\* Counts and their ranges.
Counts ==
    /\ incoming_task_queue_ \in Seq(Nat) /\ work_queue_ \in Seq(Nat)
    /\ executed \in Seq(Nat) /\ Len(executed) \in Nat
    /\ Len(incoming_task_queue_) \in Nat /\ Len(work_queue_) \in Nat
    /\ posted \in Nat /\ stops \in Nat
    /\ Credit \in Int /\ Credit <= stops
    /\ DueIncoming \in {0, 1} /\ DueWork \in {0, 1}
    /\ \A t : Overtaken(t) \in Nat

LEMMA PlaceOfNat ==
    ASSUME NEW q \in Seq(Nat), NEW p \in 1..Len(q)
    PROVE  q[p] \in Nat /\ p \in Nat
  OBVIOUS

LEMMA Relaxed ==
    ASSUME NEW a \in Nat, NEW b \in Nat, NEW p \in Nat, NEW c \in Int, a + p + 1 <= b + c
    PROVE  a + p + 0 <= b + c
  OBVIOUS

LEMMA CountsHold == IInv => Counts
  <1> SUFFICES ASSUME IInv PROVE Counts
    BY Zenon
  <1>1. /\ incoming_task_queue_ \in Seq(Nat) /\ work_queue_ \in Seq(Nat)
        /\ executed \in Seq(Nat) /\ posted \in Nat /\ stops \in Nat
    BY Zenon DEF IInv, TypeOK
  <1>2. /\ Len(executed) \in Nat
        /\ Len(incoming_task_queue_) \in Nat /\ Len(work_queue_) \in Nat
    BY <1>1
  <1>3. Credit \in Int /\ Credit <= stops
    BY <1>1 DEF Credit
  <1>4. DueIncoming \in {0, 1} /\ DueWork \in {0, 1}
    BY Zenon DEF DueIncoming, DueWork
  <1>5. ASSUME NEW t PROVE Overtaken(t) \in Nat
    <2>1. Ahead(t) \subseteq 1..Len(executed)
      BY Zenon DEF Ahead
    <2>2. IsFiniteSet(1..Len(executed))
      BY <1>2, FS_Interval
    <2> QED BY <2>1, <2>2, FS_Subset, FS_CardinalityType, Zenon DEF Overtaken
  <1> QED BY <1>1, <1>2, <1>3, <1>4, <1>5, Zenon DEF Counts

LEMMA CountsHoldNext == IInv' => Counts'
  BY CountsHold, PTL

\* Arithmetic of the invariant: what is due may rise by as much as the credit.
LEMMA Shift ==
    ASSUME NEW o \in Nat, NEW p \in Nat, NEW t \in Nat, NEW d \in Int, NEW e \in Int,
           NEW c \in Int, NEW k \in Int, o + p + d <= t + c, e + c <= d + k
    PROVE  o + p + e <= t + k
  OBVIOUS

LEMMA Slack ==
    ASSUME NEW d \in Int, NEW e \in Int, NEW c \in Int, NEW k \in Int, c <= k,
           e <= d \/ (c + 1 <= k /\ e <= 1 /\ d >= 0)
    PROVE  e + c <= d + k
  OBVIOUS

\* A step that moves no task: what it does to the quit flag pays for the pop that it
\* skips.
LEMMA ControlOvertakes ==
    ASSUME IInv, IInv', OvertakeInv, UNCHANGED <<queues, posted, executed>>,
           should_quit_' => stops' >= 1, stops <= stops', Credit <= Credit',
           \/ AtPop' <=> AtPop
           \/ work_queue_ = <<>>
           \/ ~AtPop' /\ Credit + 1 <= Credit'
    PROVE  OvertakeInv'
  <1>1. Counts /\ Counts'
    BY Zenon, CountsHold, CountsHoldNext
  <1>2. /\ incoming_task_queue_' = incoming_task_queue_ /\ work_queue_' = work_queue_
        /\ posted' = posted /\ executed' = executed
    BY Zenon DEF queues
  <1>3. \A t : Overtaken(t)' = Overtaken(t)
    BY Zenon, <1>2 DEF Overtaken, Ahead
  <1>4. /\ Credit \in Int /\ Credit' \in Int /\ stops \in Nat /\ stops' \in Nat
        /\ DueIncoming \in {0, 1} /\ DueIncoming' \in {0, 1}
        /\ DueWork \in {0, 1} /\ DueWork' \in {0, 1}
    BY <1>1, Zenon DEF Counts
  <1>a. PICK c \in Int, k \in Int : c = Credit /\ k = Credit' /\ c <= k
    BY Zenon, <1>4
  <1>b. PICK d \in Int, e \in Int : /\ d = DueIncoming /\ e = DueIncoming'
                                   /\ d >= 0 /\ d <= 1 /\ e >= 0 /\ e <= 1
    BY <1>4
  <1>c. PICK f \in Int, g \in Int : /\ f = DueWork /\ g = DueWork'
                                   /\ f >= 0 /\ f <= 1 /\ g >= 0 /\ g <= 1
    BY <1>4
  <1>5. e + c <= d + k
    <2>1. CASE AtPop' <=> AtPop
      <3>1. d = e
        BY <1>2, <1>b, <2>1, Zenon DEF DueIncoming
      <3>2. e <= d
        BY <3>1
      <3> QED BY <1>a, <3>2, Slack, Zenon
    <2>2. CASE work_queue_ = <<>> \/ ~AtPop'
      <3>1. e = 0
        BY <1>2, <1>b, <2>2, Zenon DEF DueIncoming
      <3>2. e <= d
        BY Zenon, <1>b, <3>1
      <3> QED BY <1>a, <3>2, Slack, Zenon
    <2> QED BY <2>1, <2>2, Zenon
  <1>6. work_queue_ # <<>> => g + c <= f + k
    <2>1. CASE AtPop' <=> AtPop
      <3>1. f = g
        BY <1>c, <2>1, Zenon DEF DueWork
      <3>2. g <= f
        BY <3>1
      <3> QED BY <1>a, <3>2, Slack, Zenon
    <2>2. CASE Credit + 1 <= Credit'
      <3>1. c + 1 <= k
        BY <1>a, <2>2, Zenon
      <3> QED BY <1>a, <1>c, <3>1, Slack, Zenon
    <2> QED BY <2>1, <2>2, Zenon
  <1>7. ASSUME NEW p \in 1..Len(incoming_task_queue_)
        PROVE  Overtaken(incoming_task_queue_[p])' + p + DueIncoming'
                 <= incoming_task_queue_[p] + Credit'
    <2>1. Overtaken(incoming_task_queue_[p]) + p + d <= incoming_task_queue_[p] + c
      BY <1>a, <1>b, Zenon DEF OvertakeInv
    <2>2. /\ Overtaken(incoming_task_queue_[p]) \in Nat
          /\ incoming_task_queue_[p] \in Nat /\ p \in Nat
      BY Zenon, <1>1, PlaceOfNat DEF Counts
    <2>3. Overtaken(incoming_task_queue_[p])' = Overtaken(incoming_task_queue_[p])
      BY Zenon, <1>2, <1>3 DEF Overtaken, Ahead
    <2>4. Overtaken(incoming_task_queue_[p]) + p + e <= incoming_task_queue_[p] + k
      BY Zenon, <1>a, <1>5, <2>1, <2>2, Shift
    <2> QED BY <1>a, <1>b, <2>3, <2>4, Zenon
  <1>8. ASSUME NEW p \in 1..Len(work_queue_)
        PROVE  Overtaken(work_queue_[p])' + p + DueWork' <= work_queue_[p] + Credit'
    <2>1. Overtaken(work_queue_[p]) + p + f <= work_queue_[p] + c
      BY <1>a, <1>c, Zenon DEF OvertakeInv
    <2>2. Overtaken(work_queue_[p]) \in Nat /\ work_queue_[p] \in Nat /\ p \in Nat
      BY Zenon, <1>1, PlaceOfNat DEF Counts
    <2>3. Overtaken(work_queue_[p])' = Overtaken(work_queue_[p])
      BY Zenon, <1>2, <1>3 DEF Overtaken, Ahead
    <2>4. work_queue_ # <<>>
      BY <1>1 DEF Counts
    <2>5. Overtaken(work_queue_[p]) + p + g <= work_queue_[p] + k
      BY Zenon, <1>a, <1>6, <2>1, <2>2, <2>4, Shift
    <2> QED BY <1>a, <1>c, <2>3, <2>5, Zenon
  <1>9. ASSUME NEW i \in 1..Len(executed)
        PROVE  Overtaken(executed[i])' < executed[i] + stops'
    <2>1. Overtaken(executed[i]) < executed[i] + stops
      BY Zenon DEF OvertakeInv
    <2>2. Overtaken(executed[i]) \in Nat /\ executed[i] \in Nat
      BY SMTT(40), <1>1 DEF Counts
    <2>3. Overtaken(executed[i])' = Overtaken(executed[i])
      BY Zenon, <1>2, <1>3 DEF Overtaken, Ahead
    <2> QED BY <1>4, <2>1, <2>2, <2>3
  <1> QED BY Zenon, <1>2, <1>7, <1>8, <1>9 DEF OvertakeInv

\* PostTask: nothing posted later has run, and every task in front of the new one
\* counts.
LEMMA PushOvertakes ==
    ASSUME IInv, IInv', OvertakeInv, NEW isNull \in BOOLEAN, Push(isNull),
           loop' = loop \/ (loop = "run" /\ loop' = "notify")
    PROVE  OvertakeInv'
  <1> DEFINE s == incoming_task_queue_
             n == posted + 1
  <1>1. Counts /\ Counts'
    BY Zenon, CountsHold, CountsHoldNext
  <1>2. /\ s \in Seq(Nat) /\ n \in Nat /\ posted \in Nat
        /\ incoming_task_queue_' = Append(s, n) /\ posted' = n
        /\ UNCHANGED <<work_queue_, should_quit_, executed, stops>>
    BY Zenon DEF IInv, TypeOK, Push
  <1>3. /\ Len(incoming_task_queue_') = Len(s) + 1 /\ Len(s) \in Nat
        /\ \A i \in 1..Len(s) : incoming_task_queue_'[i] = s[i]
        /\ incoming_task_queue_'[Len(s) + 1] = n
    BY <1>2, AppendFacts
  <1>4. \A t : Overtaken(t)' = Overtaken(t)
    BY Zenon, <1>2 DEF Overtaken, Ahead
  <1>5. DueIncoming' = DueIncoming /\ DueWork' = DueWork /\ Credit' = Credit
    <2>1. CASE loop' = loop
      BY <1>2, <2>1, Zenon DEF DueIncoming, DueWork, Credit, AtPop
    <2>2. CASE loop = "run" /\ loop' = "notify"
      <3>1. ~AtPop /\ ~AtPop' /\ loop \in Leaving /\ loop' \in Leaving
        BY Zenon, <2>2 DEF AtPop, Leaving
      <3> QED BY <1>2, <3>1, Zenon DEF DueIncoming, DueWork, Credit
    <2> QED BY Zenon, <2>1, <2>2
  <1>6. Overtaken(n) = 0
    <2>1. \A i \in 1..Len(executed) : executed[i] \in 1..posted
      BY Zenon DEF IInv, NothingLost, Elements
    <2>2. Ahead(n) = {}
      BY <1>2, <2>1 DEF Ahead
    <2> QED BY Zenon, <2>2, FS_EmptySet DEF Overtaken
  <1>7. /\ Len(incoming_task_queue_) + Len(work_queue_) <= posted
        /\ Len(work_queue_) \in Nat
        /\ Credit \in Int /\ Credit >= 0 /\ DueIncoming \in Int
        /\ Len(s) + DueIncoming <= posted
    <2>1. /\ Len(incoming_task_queue_) + Len(work_queue_) <= posted
          /\ Len(work_queue_) \in Nat /\ stops \in Nat
          /\ work_queue_ \in Seq(Nat)
      BY Zenon, <1>1 DEF OvertakeInv, Counts
    <2>2. Credit \in Int /\ Credit >= 0
      BY <2>1 DEF Credit, OvertakeInv
    <2>3. DueIncoming \in Int /\ (DueIncoming = 0 \/ (DueIncoming = 1 /\ work_queue_ # <<>>))
      BY DEF DueIncoming
    <2>4. work_queue_ # <<>> => Len(work_queue_) >= 1
      BY <2>1
    <2> QED BY <1>2, <1>3, <2>1, <2>2, <2>3, <2>4
  <1>8. Len(incoming_task_queue_') + Len(work_queue_') <= posted'
    BY <1>2, <1>3, <1>7
  <1>9. ASSUME NEW p \in 1..Len(incoming_task_queue_')
        PROVE  Overtaken(incoming_task_queue_[p])' + p + DueIncoming'
                 <= incoming_task_queue_'[p] + Credit'
    <2>1. CASE p \in 1..Len(s)
      <3>1. Overtaken(s[p]) + p + DueIncoming <= s[p] + Credit
        BY <2>1, Zenon DEF OvertakeInv
      <3>2. incoming_task_queue_'[p] = s[p]
        BY <1>3, <2>1, Zenon
      <3>3. Overtaken(incoming_task_queue_[p])' = Overtaken(s[p])
        BY <1>2, <3>2, Zenon DEF Overtaken, Ahead
      <3> QED BY <1>5, <3>1, <3>2, <3>3, Zenon
    <2>2. CASE p = Len(s) + 1
      <3>1. incoming_task_queue_'[p] = n
        BY <1>3, <2>2, Zenon
      <3>2. Overtaken(incoming_task_queue_[p])' = 0
        <4>1. Overtaken(incoming_task_queue_[p])' = Overtaken(n)
          BY <1>2, <3>1, Zenon DEF Overtaken, Ahead
        <4> QED BY <1>6, <4>1, Zenon
      <3>3. 0 + p + DueIncoming <= n + Credit
        BY <1>2, <1>3, <1>7, <2>2
      <3> QED BY <1>5, <3>1, <3>2, <3>3, Zenon
    <2>3. p \in 1..Len(s) \/ p = Len(s) + 1
      <3>1. PICK l \in Nat : l = Len(s)
        BY Zenon, <1>3
      <3>2. p \in 1..(l + 1)
        BY Zenon, <1>3, <3>1
      <3> QED BY <3>1, <3>2
    <2> QED BY Zenon, <2>1, <2>2, <2>3
  <1>10. ASSUME NEW p \in 1..Len(work_queue_')
         PROVE  Overtaken(work_queue_[p])' + p + DueWork' <= work_queue_'[p] + Credit'
    <2>1. Overtaken(work_queue_[p])' = Overtaken(work_queue_[p])
      BY <1>2, Zenon DEF Overtaken, Ahead
    <2>2. Overtaken(work_queue_[p]) + p + DueWork <= work_queue_[p] + Credit
      BY <1>2, Zenon DEF OvertakeInv
    <2> QED BY <1>2, <1>5, <2>1, <2>2, Zenon
  <1>11. ASSUME NEW i \in 1..Len(executed')
         PROVE  Overtaken(executed[i])' < executed'[i] + stops'
    <2>1. Overtaken(executed[i])' = Overtaken(executed[i])
      BY <1>2, Zenon DEF Overtaken, Ahead
    <2>2. Overtaken(executed[i]) < executed[i] + stops
      BY <1>2, Zenon DEF OvertakeInv
    <2> QED BY <1>2, <2>1, <2>2, Zenon
  <1>12. should_quit_' => stops' >= 1
    BY Zenon, <1>2 DEF OvertakeInv
  <1> QED BY <1>8, <1>9, <1>10, <1>11, <1>12, Zenon DEF OvertakeInv

\* A swap: the queue to be popped next owes nothing, the other one one pop.
LEMMA ReloadOvertakes ==
    ASSUME IInv, IInv', OvertakeInv, ReloadWorkQueue
    PROVE  OvertakeInv'
  <1>1. Counts /\ Counts'
    BY Zenon, CountsHold, CountsHoldNext
  <1>2. /\ loop = "reload" /\ loop' = "dispatch"
        /\ posted' = posted /\ executed' = executed /\ stops' = stops
        /\ should_quit_' = should_quit_
    BY Zenon DEF ReloadWorkQueue, Goto, tasks
  <1>3. Credit' = Credit
    <2>1. loop \notin Leaving /\ loop' \notin Leaving
      BY Zenon, <1>2 DEF Leaving
    <2> QED BY <1>2, <2>1, Zenon DEF Credit
  <1>4. DueIncoming = 0 /\ DueWork = 1 /\ DueWork' = 0 /\ DueIncoming' \in {0, 1}
    <2>1. ~AtPop /\ AtPop'
      BY Zenon, <1>2 DEF AtPop
    <2> QED BY Zenon, <2>1 DEF DueIncoming, DueWork
  <1>5. /\ Credit \in Int
        /\ incoming_task_queue_ \in Seq(Nat) /\ work_queue_ \in Seq(Nat)
        /\ Len(incoming_task_queue_) \in Nat /\ Len(work_queue_) \in Nat
        /\ posted \in Nat
        /\ Len(incoming_task_queue_) + Len(work_queue_) <= posted
    BY Zenon, <1>1 DEF Counts, OvertakeInv
  <1>6. ASSUME NEW i \in 1..Len(executed')
        PROVE  Overtaken(executed[i])' < executed'[i] + stops'
    <2>1. Overtaken(executed[i])' = Overtaken(executed[i])
      BY <1>2, Zenon DEF Overtaken, Ahead
    <2>2. Overtaken(executed[i]) < executed[i] + stops
      BY <1>2, Zenon DEF OvertakeInv
    <2> QED BY <1>2, <2>1, <2>2, Zenon
  <1>7. should_quit_' => stops' >= 1
    BY Zenon, <1>2 DEF OvertakeInv
  <1>8. ASSUME NEW p \in 1..Len(work_queue_)
        PROVE  /\ Overtaken(work_queue_[p]) + p + DueIncoming' <= work_queue_[p] + Credit'
               /\ Overtaken(work_queue_[p]) + p + DueWork' <= work_queue_[p] + Credit'
    <2>1. Overtaken(work_queue_[p]) + p + 1 <= work_queue_[p] + Credit
      BY <1>4, Zenon DEF OvertakeInv
    <2>2. Overtaken(work_queue_[p]) \in Nat /\ work_queue_[p] \in Nat /\ p \in Nat
      BY Zenon, <1>1, PlaceOfNat DEF Counts
    <2>3. /\ Overtaken(work_queue_[p]) + p + 0 <= work_queue_[p] + Credit
          /\ Overtaken(work_queue_[p]) + p + 1 <= work_queue_[p] + Credit
      BY Zenon, <1>5, <2>1, <2>2, Relaxed
    <2>4. DueIncoming' = 0 \/ DueIncoming' = 1
      BY <1>4, Zenon
    <2> QED BY <1>3, <1>4, <2>3, <2>4, Zenon
  <1>9. ASSUME NEW p \in 1..Len(incoming_task_queue_)
        PROVE  Overtaken(incoming_task_queue_[p]) + p + DueWork'
                 <= incoming_task_queue_[p] + Credit'
    BY <1>3, <1>4, Zenon DEF OvertakeInv
  <1>10. \A t : Overtaken(t)' = Overtaken(t)
    BY <1>2, Zenon DEF Overtaken, Ahead
  <1>11. CASE incoming_task_queue_ # <<>>
    <2>1. incoming_task_queue_' = work_queue_ /\ work_queue_' = incoming_task_queue_
      BY Zenon, <1>11 DEF ReloadWorkQueue
    <2>2. ASSUME NEW p \in 1..Len(incoming_task_queue_')
          PROVE  Overtaken(incoming_task_queue_[p])' + p + DueIncoming'
                   <= incoming_task_queue_'[p] + Credit'
      <3>1. Overtaken(incoming_task_queue_[p])' = Overtaken(work_queue_[p])
        BY <1>2, <2>1, Zenon DEF Overtaken, Ahead
      <3> QED BY <1>8, <2>1, <3>1, Zenon
    <2>3. ASSUME NEW p \in 1..Len(work_queue_')
          PROVE  Overtaken(work_queue_[p])' + p + DueWork' <= work_queue_'[p] + Credit'
      <3>1. Overtaken(work_queue_[p])' = Overtaken(incoming_task_queue_[p])
        BY <1>2, <2>1, Zenon DEF Overtaken, Ahead
      <3> QED BY <1>9, <2>1, <3>1, Zenon
    <2>4. Len(incoming_task_queue_') + Len(work_queue_') <= posted'
      BY SMTT(40), <1>2, <1>5, <2>1
    <2> QED BY <1>6, <1>7, <2>2, <2>3, <2>4, Zenon DEF OvertakeInv
  <1>12. CASE incoming_task_queue_ = <<>>
    <2>1. incoming_task_queue_' = <<>> /\ work_queue_' = work_queue_
      BY Zenon, <1>12 DEF ReloadWorkQueue, queues
    <2>2. ASSUME NEW p \in 1..Len(incoming_task_queue_')
          PROVE  Overtaken(incoming_task_queue_[p])' + p + DueIncoming'
                   <= incoming_task_queue_'[p] + Credit'
      BY <2>1
    <2>3. ASSUME NEW p \in 1..Len(work_queue_')
          PROVE  Overtaken(work_queue_[p])' + p + DueWork' <= work_queue_'[p] + Credit'
      <3>1. Overtaken(work_queue_[p])' = Overtaken(work_queue_[p])
        BY <1>2, <2>1, Zenon DEF Overtaken, Ahead
      <3> QED BY <1>8, <2>1, <3>1, Zenon
    <2>4. Len(incoming_task_queue_') + Len(work_queue_') <= posted'
      BY Zenon, <1>2, <1>5, <1>12, <2>1
    <2> QED BY <1>6, <1>7, <2>2, <2>3, <2>4, Zenon DEF OvertakeInv
  <1> QED BY Zenon, <1>11, <1>12

\* One more execution, of x: it overtakes the earlier tasks that have not run.
LEMMA OneMoreExecution ==
    ASSUME IInv, NEW x \in Nat, executed' = Append(executed, x)
    PROVE  /\ \A t \in Nat : Overtaken(t)' <= Overtaken(t) + 1
           /\ \A t \in Nat : t >= x \/ t \in Elements(executed) =>
                                Overtaken(t)' = Overtaken(t)
  <1>1. Counts
    BY Zenon, CountsHold
  <1>2. PICK l \in Nat : l = Len(executed)
    BY Zenon, <1>1 DEF Counts
  <1>3. /\ Len(executed') = l + 1 /\ executed'[l + 1] = x
        /\ \A i \in 1..l : executed'[i] = executed[i]
    <2>1. executed \in Seq(Nat)
      BY <1>1, Zenon DEF Counts
    <2> QED BY Zenon, <1>2, <2>1, AppendFacts
  <1>4. ASSUME NEW t \in Nat
        PROVE  /\ Ahead(t) \subseteq Ahead(t)'
               /\ Ahead(t)' \subseteq Ahead(t) \cup {l + 1}
               /\ t >= x \/ t \in Elements(executed) => l + 1 \notin Ahead(t)'
    <2>1. Ahead(t) = {i \in 1..l : (\A j \in 1..i : executed[j] # t) /\ executed[i] > t}
      BY Zenon, <1>2 DEF Ahead
    <2>2. Ahead(t)' = {i \in 1..(l + 1) :
                         (\A j \in 1..i : executed'[j] # t) /\ executed'[i] > t}
      BY Zenon, <1>3 DEF Ahead
    <2>3. ASSUME NEW i \in 1..l PROVE i \in Ahead(t) <=> i \in Ahead(t)'
      <3>1. \A j \in 1..i : executed'[j] = executed[j]
        BY <1>3
      <3>2. i \in 1..i /\ i \in 1..(l + 1)
        OBVIOUS
      <3> QED BY <2>1, <2>2, <3>1, <3>2, Zenon
    <2>4. \A i \in 1..(l + 1) : i \in 1..l \/ i = l + 1
      BY <1>2
    <2>5. l + 1 \in 1..(l + 1) /\ \A j \in 1..l : j \in 1..(l + 1)
      BY <1>2
    <2>6. t >= x => l + 1 \notin Ahead(t)'
      BY <1>3, <2>2
    <2>7. t \in Elements(executed) => l + 1 \notin Ahead(t)'
      BY <1>2, <1>3, <2>2, <2>5, Zenon DEF Elements
    <2> QED BY <2>1, <2>2, <2>3, <2>4, <2>6, <2>7, Zenon
  <1>5. ASSUME NEW t \in Nat
        PROVE  /\ Overtaken(t)' <= Overtaken(t) + 1
               /\ t >= x \/ t \in Elements(executed) => Overtaken(t)' = Overtaken(t)
    <2>1. /\ Ahead(t) \subseteq Ahead(t)'
          /\ Ahead(t)' \subseteq Ahead(t) \cup {l + 1}
          /\ t >= x \/ t \in Elements(executed) => l + 1 \notin Ahead(t)'
      BY <1>4, Zenon
    <2>2. Ahead(t)' = Ahead(t) \/ Ahead(t)' = Ahead(t) \cup {l + 1}
      BY <2>1, Zenon
    <2>3. t >= x \/ t \in Elements(executed) => Ahead(t)' = Ahead(t)
      BY <2>1, Zenon
    <2>4. IsFiniteSet(Ahead(t))
      <3>1. Ahead(t) \subseteq 1..Len(executed)
        BY Zenon DEF Ahead
      <3>2. IsFiniteSet(1..Len(executed))
        BY <1>2, FS_Interval
      <3> QED BY <3>1, <3>2, FS_Subset, Zenon
    <2>5. PICK o \in Nat : o = Overtaken(t)
      BY Zenon, <1>1 DEF Counts
    <2>6. l + 1 \notin Ahead(t)
      <3>1. l + 1 \notin 1..l
        BY <1>2
      <3> QED BY <1>2, <3>1, Zenon DEF Ahead
    <2>7. Cardinality(Ahead(t) \cup {l + 1}) = o + 1
      BY <2>4, <2>5, <2>6, FS_AddElement, Zenon DEF Overtaken
    <2>8. Overtaken(t)' = o \/ Overtaken(t)' = o + 1
      BY <2>2, <2>5, <2>7, Zenon DEF Overtaken
    <2>9. Overtaken(t)' <= Overtaken(t) + 1
      BY <2>5, <2>8
    <2> QED BY <2>3, <2>9, Zenon DEF Overtaken
  <1> QED BY <1>5, Zenon

\* A pop: the tasks behind it move up by one, those in the other queue are overtaken
\* by one.
LEMMA PopOvertakes ==
    ASSUME IInv, IInv', OvertakeInv, PopTask
    PROVE  OvertakeInv'
  <1> DEFINE t == Head(work_queue_)
  <1>1. Counts /\ Counts'
    BY Zenon, CountsHold, CountsHoldNext
  <1>2. /\ work_queue_ \in Seq(Nat) /\ work_queue_ # <<>> /\ Increasing(work_queue_)
        /\ loop = "pop" /\ work_queue_' = Tail(work_queue_)
        /\ UNCHANGED <<incoming_task_queue_, should_quit_, posted, stops>>
    BY Zenon DEF IInv, TypeOK, QueuesInOrder, QuitInv, PopTask, Goto
  <1>3. /\ t = work_queue_[1] /\ t \in Nat
        /\ Len(work_queue_) \in Nat \ {0}
        /\ Len(work_queue_') = Len(work_queue_) - 1
        /\ \A p \in 1..Len(work_queue_') : work_queue_'[p] = work_queue_[p + 1]
        /\ \A p \in 1..Len(work_queue_) : work_queue_[p] \in Nat
    BY <1>2
  <1>4. PICK c \in Int : c = Credit
    BY Zenon, <1>1 DEF Counts
  <1>5. DueIncoming = 1 /\ DueWork = 0
    BY Zenon, <1>2 DEF DueIncoming, DueWork, AtPop
  <1>6. /\ \A p \in 1..Len(incoming_task_queue_) :
              Overtaken(incoming_task_queue_[p]) + p + 1 <= incoming_task_queue_[p] + c
        /\ \A p \in 1..Len(work_queue_) :
              Overtaken(work_queue_[p]) + p + 0 <= work_queue_[p] + c
    BY <1>4, <1>5, Zenon DEF OvertakeInv
  <1>7. Len(incoming_task_queue_') + Len(work_queue_') <= posted'
    <2>1. /\ Len(incoming_task_queue_) \in Nat /\ posted \in Nat
          /\ Len(incoming_task_queue_) + Len(work_queue_) <= posted
      BY Zenon, <1>1 DEF Counts, OvertakeInv
    <2> QED BY <1>2, <1>3, <2>1
  <1>8. should_quit_' => stops' >= 1
    BY Zenon, <1>2 DEF OvertakeInv
  <1>9. ASSUME NEW p \in 1..Len(work_queue_')
        PROVE  /\ p \in Nat /\ p + 1 \in 1..Len(work_queue_)
               /\ work_queue_'[p] = work_queue_[p + 1] /\ work_queue_[p + 1] \in Nat
               /\ t < work_queue_[p + 1]
               /\ Overtaken(work_queue_[p + 1]) + (p + 1) <= work_queue_[p + 1] + c
    <2>1. p \in Nat /\ p + 1 \in 1..Len(work_queue_) /\ 1 \in 1..Len(work_queue_) /\ 1 < p + 1
      BY <1>3
    <2>2. work_queue_[1] < work_queue_[p + 1]
      BY <1>2, <2>1, Zenon DEF Increasing
    <2>3. Overtaken(work_queue_[p + 1]) + (p + 1) + 0 <= work_queue_[p + 1] + c
      BY <1>6, <2>1, Zenon
    <2>4. Overtaken(work_queue_[p + 1]) \in Nat
      BY <1>1, Zenon DEF Counts
    <2>5. work_queue_'[p] = work_queue_[p + 1] /\ work_queue_[p + 1] \in Nat
      BY <1>3, <2>1, Zenon
    <2> QED BY <1>3, <2>1, <2>2, <2>3, <2>4, <2>5
  <1>10. CASE t \in nulls
    <2>1. loop' = "skip" /\ executed' = executed
      BY Zenon, <1>10 DEF PopTask, Goto
    <2>2. Credit' = c
      <3>1. loop \notin Leaving /\ loop' \notin Leaving
        BY Zenon, <1>2, <2>1 DEF Leaving
      <3> QED BY <1>2, <1>4, <3>1, Zenon DEF Credit
    <2>3. DueWork' = 0 /\ DueIncoming' \in {0, 1}
      BY Zenon, <2>1 DEF DueWork, DueIncoming, AtPop
    <2>4. ASSUME NEW p \in 1..Len(incoming_task_queue_')
          PROVE  Overtaken(incoming_task_queue_[p])' + p + DueIncoming'
                   <= incoming_task_queue_'[p] + Credit'
      <3>1. Overtaken(incoming_task_queue_[p])' = Overtaken(incoming_task_queue_[p])
        BY <1>2, <2>1, Zenon DEF Overtaken, Ahead
      <3>2. /\ Overtaken(incoming_task_queue_[p]) \in Nat
            /\ incoming_task_queue_[p] \in Nat /\ p \in Nat
        BY Zenon, <1>1, <1>2, PlaceOfNat DEF Counts
      <3>3. Overtaken(incoming_task_queue_[p]) + p + 1 <= incoming_task_queue_[p] + c
        BY <1>2, <1>6, Zenon
      <3>4. Overtaken(incoming_task_queue_[p]) + p + 0 <= incoming_task_queue_[p] + c
        BY <3>2, <3>3
      <3>5. DueIncoming' = 0 \/ DueIncoming' = 1
        BY <2>3, Zenon
      <3> QED BY <1>2, <2>2, <3>1, <3>3, <3>4, <3>5, Zenon
    <2>5. ASSUME NEW p \in 1..Len(work_queue_')
          PROVE  Overtaken(work_queue_[p])' + p + DueWork' <= work_queue_'[p] + Credit'
      <3>1. Overtaken(work_queue_[p])' = Overtaken(work_queue_[p + 1])
        BY <1>9, <2>1, Zenon DEF Overtaken, Ahead
      <3>2. Overtaken(work_queue_[p + 1]) \in Nat
        BY <1>1, Zenon DEF Counts
      <3>3. Overtaken(work_queue_[p + 1]) + p + 0 <= work_queue_[p + 1] + c
        BY SMTT(40), <1>9, <3>2
      <3> QED BY <1>9, <2>2, <2>3, <3>1, <3>3, Zenon
    <2>6. ASSUME NEW i \in 1..Len(executed')
          PROVE  Overtaken(executed[i])' < executed'[i] + stops'
      <3>1. Overtaken(executed[i])' = Overtaken(executed[i])
        BY <2>1, Zenon DEF Overtaken, Ahead
      <3>2. Overtaken(executed[i]) < executed[i] + stops
        BY <2>1, Zenon DEF OvertakeInv
      <3> QED BY <1>2, <2>1, <3>1, <3>2, Zenon
    <2> QED BY <1>7, <1>8, <2>4, <2>5, <2>6, Zenon DEF OvertakeInv
  <1>11. CASE t \notin nulls
    <2>1. loop' = "run" /\ executed' = Append(executed, t)
      BY Zenon, <1>11 DEF PopTask, Goto
    <2>2. /\ \A x \in Nat : Overtaken(x)' <= Overtaken(x) + 1
          /\ \A x \in Nat : x >= t \/ x \in Elements(executed) =>
                               Overtaken(x)' = Overtaken(x)
      BY <1>3, <2>1, OneMoreExecution, Zenon
    <2>3. /\ Credit' = stops /\ c <= stops /\ stops \in Nat /\ stops' = stops
          /\ DueWork' = 1 /\ DueIncoming' = 0
      <3>1. loop' \in Leaving /\ ~AtPop'
        BY Zenon, <2>1 DEF Leaving, AtPop
      <3>2. Credit' = stops
        BY <1>2, <3>1, Zenon DEF Credit
      <3>3. c <= stops /\ stops \in Nat
        BY <1>1, <1>4, Zenon DEF Counts
      <3> QED BY <1>2, <3>1, <3>2, <3>3, Zenon DEF DueWork, DueIncoming
    <2>4. ASSUME NEW p \in 1..Len(incoming_task_queue_')
          PROVE  Overtaken(incoming_task_queue_[p])' + p + DueIncoming'
                   <= incoming_task_queue_'[p] + Credit'
      <3>1. incoming_task_queue_' = incoming_task_queue_
        BY Zenon, <1>2
      <3>2. /\ Overtaken(incoming_task_queue_[p]) \in Nat
            /\ incoming_task_queue_[p] \in Nat /\ p \in Nat
        <4>1. p \in 1..Len(incoming_task_queue_)
          BY <3>1, Zenon
        <4>2. /\ Overtaken(incoming_task_queue_[p]) \in Nat
              /\ incoming_task_queue_ \in Seq(Nat)
          BY <1>1, Zenon DEF Counts
        <4> QED BY <4>1, <4>2
      <3>3. PICK x \in Nat : x = incoming_task_queue_[p] /\ x = incoming_task_queue_'[p]
        BY Zenon, <3>1, <3>2
      <3>4. Overtaken(incoming_task_queue_[p])' = Overtaken(x)'
        BY <3>3, Zenon DEF Overtaken, Ahead
      <3>5. PICK o \in Nat : o = Overtaken(x)'
        BY <1>1, Zenon DEF Counts
      <3>6. o <= Overtaken(x) + 1
        BY <2>2, <3>5, Zenon
      <3>7. Overtaken(x) + p + 1 <= x + c /\ Overtaken(x) \in Nat
        BY <1>6, <3>1, <3>2, <3>3, Zenon
      <3>8. o + p + 0 <= x + stops
        BY <2>3, <3>2, <3>6, <3>7
      <3> QED BY <2>3, <3>3, <3>4, <3>5, <3>8, Zenon
    <2>5. ASSUME NEW p \in 1..Len(work_queue_')
          PROVE  Overtaken(work_queue_[p])' + p + DueWork' <= work_queue_'[p] + Credit'
      <3>1. PICK x \in Nat : x = work_queue_[p + 1] /\ x = work_queue_'[p]
        BY Zenon, <1>9
      <3>2. Overtaken(work_queue_[p])' = Overtaken(x)'
        BY <3>1, Zenon DEF Overtaken, Ahead
      <3>3. x >= t
        BY SMTT(40), <1>3, <1>9, <3>1
      <3>4. Overtaken(x)' = Overtaken(x)
        BY <2>2, <3>3, Zenon
      <3>5. Overtaken(x) + (p + 1) <= x + c /\ Overtaken(x) \in Nat /\ p \in Nat
        BY <1>1, <1>9, <3>1, Zenon DEF Counts
      <3>6. Overtaken(x) + p + 1 <= x + stops
        BY <2>3, <3>5
      <3> QED BY <2>3, <3>1, <3>2, <3>4, <3>6, Zenon
    <2>6. PICK l \in Nat : l = Len(executed)
      BY Zenon, <1>1 DEF Counts
    <2>7. /\ executed \in Seq(Nat) /\ Len(executed') = l + 1 /\ executed'[l + 1] = t
          /\ \A i \in 1..l : executed'[i] = executed[i] /\ executed[i] \in Nat
      <3>1. executed \in Seq(Nat)
        BY <1>1, Zenon DEF Counts
      <3> QED BY <1>3, <2>1, <2>6, <3>1, AppendFacts
    <2>8. ASSUME NEW i \in 1..Len(executed')
          PROVE  Overtaken(executed[i])' < executed'[i] + stops'
      <3>1. CASE i \in 1..l
        <4>1. PICK x \in Nat : x = executed[i] /\ x = executed'[i]
          BY Zenon, <2>7, <3>1
        <4>2. Overtaken(executed[i])' = Overtaken(x)'
          BY <4>1, Zenon DEF Overtaken, Ahead
        <4>3. x \in Elements(executed)
          BY <2>6, <3>1, <4>1, Zenon DEF Elements
        <4>4. Overtaken(x)' = Overtaken(x)
          BY <2>2, <4>3, Zenon
        <4>5. Overtaken(x) < x + stops
          BY <2>6, <3>1, <4>1, Zenon DEF OvertakeInv
        <4> QED BY <2>3, <4>1, <4>2, <4>4, <4>5, Zenon
      <3>2. CASE i = l + 1
        <4>1. PICK x \in Nat : x = t /\ x = executed'[i]
          BY Zenon, <1>3, <2>7, <3>2
        <4>2. Overtaken(executed[i])' = Overtaken(x)'
          BY <4>1, Zenon DEF Overtaken, Ahead
        <4>3. Overtaken(x)' = Overtaken(x)
          <5>1. x >= t
            BY <4>1
          <5> QED BY <2>2, <5>1, Zenon
        <4>4. Overtaken(x) + 1 + 0 <= x + c /\ Overtaken(x) \in Nat
          <5>1. 1 \in 1..Len(work_queue_)
            BY <1>3
          <5> QED BY <1>1, <1>3, <1>6, <4>1, <5>1, Zenon DEF Counts
        <4>5. Overtaken(x) < x + stops
          BY <2>3, <4>4
        <4> QED BY <2>3, <4>1, <4>2, <4>3, <4>5, Zenon
      <3>3. i \in 1..l \/ i = l + 1
        BY <2>7
      <3> QED BY Zenon, <3>1, <3>2, <3>3
    <2> QED BY <1>7, <1>8, <2>4, <2>5, <2>8, Zenon DEF OvertakeInv
  <1> QED BY Zenon, <1>10, <1>11

\* The steps that move no task: only leaving a swap without its pop costs anything,
\* and only a Stop makes the loop do so.
LEMMA OtherStepsOvertake ==
    ASSUME IInv, IInv', OvertakeInv,
           \/ \E c \in Clients : PostNotifies(c)
           \/ Dispatch \/ SkipNull \/ TaskReturns \/ CheckQuit
           \/ WaitTest("test") \/ WaitTest("woken") \/ WaitBlock
           \/ TaskPostNotifies \/ WakesSpuriously
           \/ Start \/ Stop \/ StopNotifies \/ StopReturns \/ UNCHANGED vars
    PROVE  OvertakeInv'
  <1>1. /\ UNCHANGED <<queues, posted, executed>>
        /\ should_quit_ => stops >= 1
        /\ stops \in Nat /\ should_quit_ \in BOOLEAN /\ should_quit_' \in BOOLEAN
    <2>1. stops \in Nat /\ should_quit_ \in BOOLEAN /\ should_quit_' \in BOOLEAN
      BY Zenon DEF IInv, TypeOK
    <2>2. should_quit_ => stops >= 1
      BY Zenon DEF OvertakeInv
    <2>3. UNCHANGED <<queues, posted, executed>>
      BY Zenon DEF PostNotifies, Dispatch, SkipNull, TaskReturns, CheckQuit, WaitTest,
         WaitBlock, TaskPostNotifies, WakesSpuriously, Start, Stop, StopNotifies,
         StopReturns, vars, tasks, Goto
    <2> QED BY Zenon, <2>1, <2>2, <2>3
  <1> DEFINE Pays ==
               /\ should_quit_' => stops' >= 1
               /\ stops <= stops' /\ Credit <= Credit'
               /\ \/ AtPop' <=> AtPop
                  \/ work_queue_ = <<>>
                  \/ ~AtPop' /\ Credit + 1 <= Credit'
  <1>2. ASSUME Pays PROVE OvertakeInv'
    BY <1>1, <1>2, ControlOvertakes, Zenon
  <1>3. ASSUME stops' = stops, should_quit_' = should_quit_,
               AtPop' <=> AtPop, loop' \in Leaving <=> loop \in Leaving
        PROVE  Pays
    <2>1. Credit' = Credit
      BY <1>3, Zenon DEF Credit
    <2>2. Credit \in Int
      BY <1>1 DEF Credit
    <2> QED BY <1>1, <1>3, <2>1, <2>2
  <1>4. CASE \/ \E c \in Clients : PostNotifies(c)
             \/ TaskReturns \/ WaitTest("test") \/ WaitTest("woken") \/ WaitBlock
             \/ TaskPostNotifies \/ WakesSpuriously \/ StopNotifies \/ StopReturns
             \/ UNCHANGED vars
    <2>1. stops' = stops /\ should_quit_' = should_quit_
      BY Zenon, <1>4 DEF PostNotifies, TaskReturns, WaitTest, WaitBlock,
         TaskPostNotifies, WakesSpuriously, StopNotifies, StopReturns, vars, Goto
    <2>2. (AtPop' <=> AtPop) /\ (loop' \in Leaving <=> loop \in Leaving)
      BY Zenon, <1>4 DEF PostNotifies, TaskReturns, WaitTest, WaitBlock,
         TaskPostNotifies, WakesSpuriously, StopNotifies, StopReturns, vars, Goto,
         Woken, AtPop, Leaving
    <2> QED BY <1>2, <1>3, <2>1, <2>2, Zenon
  <1>5. CASE Dispatch \/ SkipNull
    <2>1. /\ loop \in {"dispatch", "skip"} /\ stops' = stops /\ should_quit_' = should_quit_
          /\ \/ work_queue_ = <<>> /\ loop' = "check"
             \/ should_quit_ /\ loop' = "check"
             \/ loop' = "pop"
             \/ work_queue_ = <<>> /\ ~should_quit_ /\ loop' = "reload"
      BY Zenon, <1>5 DEF Dispatch, SkipNull, Goto
    <2>2. CASE loop' = "pop"
      BY Zenon, <1>2, <1>3, <2>1, <2>2 DEF AtPop, Leaving
    <2>3. CASE loop' = "check" /\ should_quit_
      <3>1. /\ ~AtPop' /\ Credit = stops - 1 /\ Credit' = stops
        BY Zenon, <2>1, <2>3 DEF AtPop, Credit, Leaving
      <3> QED BY <1>1, <1>2, <2>1, <3>1
    <2>4. CASE loop' \in {"check", "reload"} /\ ~should_quit_
      <3>1. Credit = stops /\ Credit' = stops /\ work_queue_ = <<>>
        BY Zenon, <2>1, <2>4 DEF Credit
      <3> QED BY <1>1, <1>2, <2>1, <2>4, <3>1
    <2> QED BY Zenon, <2>1, <2>2, <2>3, <2>4
  <1>6. CASE CheckQuit
    <2>1. /\ loop = "check" /\ stops' = stops /\ should_quit_' = should_quit_
          /\ IF should_quit_ THEN loop' = "returned" ELSE loop' \in {"reload", "test"}
      BY Zenon, <1>6 DEF CheckQuit, Goto
    <2>2. Credit = stops /\ Credit' = stops
      BY Zenon, <2>1 DEF Credit, Leaving
    <2>3. AtPop' <=> AtPop
      BY Zenon, <2>1 DEF AtPop
    <2> QED BY <1>1, <1>2, <2>1, <2>2, <2>3
  <1>7. CASE Start
    <2>1. /\ should_quit_' = FALSE /\ stops' = stops
          /\ loop' = loop \/ (loop = "none" /\ loop' = "reload")
      BY Zenon, <1>7 DEF Start
    <2>2. Credit' = stops /\ Credit <= stops
      BY <1>1, <2>1 DEF Credit
    <2>3. AtPop' <=> AtPop
      BY Zenon, <2>1 DEF AtPop
    <2> QED BY <1>1, <1>2, <2>1, <2>2, <2>3
  <1>8. CASE Stop
    <2>1. should_quit_' = TRUE /\ stops' = stops + 1 /\ loop' = loop
      BY Zenon, <1>8 DEF Stop
    <2>2. Credit' >= stops /\ Credit <= stops /\ Credit \in Int /\ Credit' \in Int
      BY <1>1, <2>1 DEF Credit
    <2>3. AtPop' <=> AtPop
      BY Zenon, <2>1 DEF AtPop
    <2> QED BY <1>1, <1>2, <2>1, <2>2, <2>3
  <1> QED BY <1>4, <1>5, <1>6, <1>7, <1>8, Zenon

\* How unfair the swaps of ReloadWorkQueue can be: before a task starts, fewer later
\* tasks start than its number plus the number of Stops, for any load and any
\* interleaving of PostTask with the loop.
THEOREM OvertakingIsBounded == Spec => []OvertakingBounded
  <1>1. Init => OvertakeInv
    BY DEF Init, OvertakeInv
  <1>2. IInv /\ IInv' /\ OvertakeInv /\ [Next]_vars => OvertakeInv'
    <2> SUFFICES ASSUME IInv, IInv', OvertakeInv, [Next]_vars PROVE OvertakeInv'
      BY Zenon
    <2>1. ASSUME NEW c \in Clients, PostTask(c) PROVE OvertakeInv'
      BY Zenon, <2>1, PushOvertakes DEF PostTask
    <2>2. CASE TaskPostsTask
      BY Zenon, <2>2, PushOvertakes DEF TaskPostsTask
    <2> QED BY Zenon, <2>1, <2>2, ReloadOvertakes, PopOvertakes, OtherStepsOvertake
            DEF Next, LoopStep
  <1>3. IInv /\ OvertakeInv => OvertakingBounded
    <2> SUFFICES ASSUME IInv, OvertakeInv, NEW t \in 1..posted, t \notin skipped
                 PROVE  Overtaken(t) < t + stops
      <3>1. \A t \in 1..posted : Ahead(t) =
              {i \in {k \in 1..Len(executed) : \A j \in 1..k : executed[j] # t} :
                 executed[i] > t}
        BY Zenon DEF Ahead
      <3> QED BY <3>1, Zenon DEF OvertakingBounded, Overtaken
    <2>1. Counts
      BY Zenon, CountsHold
    <2>2. /\ t \in Nat /\ Overtaken(t) \in Nat /\ Credit \in Int /\ Credit <= stops
          /\ stops \in Nat
      <3>1. posted \in Nat
        BY <2>1, Zenon DEF Counts
      <3>2. t \in Nat
        BY <3>1
      <3> QED BY <2>1, <3>2, Zenon DEF Counts
    <2>3. \/ t \in Elements(incoming_task_queue_) \/ t \in Elements(work_queue_)
          \/ t \in Elements(executed)
      BY Zenon DEF IInv, NothingLost, Pending
    <2>4. CASE t \in Elements(incoming_task_queue_)
      <3>1. PICK p \in 1..Len(incoming_task_queue_) : t = incoming_task_queue_[p]
        BY <2>4, Zenon DEF Elements
      <3>2. Overtaken(t) + p + DueIncoming <= t + Credit
        BY <3>1, Zenon DEF OvertakeInv
      <3>3. PICK d \in Int : d = DueIncoming /\ d >= 0
        BY DEF DueIncoming
      <3>4. p \in Nat /\ p >= 1
        BY SMTT(40), <2>1 DEF Counts
      <3> QED BY <2>2, <3>2, <3>3, <3>4
    <2>5. CASE t \in Elements(work_queue_)
      <3>1. PICK p \in 1..Len(work_queue_) : t = work_queue_[p]
        BY <2>5, Zenon DEF Elements
      <3>2. Overtaken(t) + p + DueWork <= t + Credit
        BY <3>1, Zenon DEF OvertakeInv
      <3>3. PICK d \in Int : d = DueWork /\ d >= 0
        BY DEF DueWork
      <3>4. p \in Nat /\ p >= 1
        BY <2>1 DEF Counts
      <3> QED BY <2>2, <3>2, <3>3, <3>4
    <2>6. CASE t \in Elements(executed)
      BY <2>6, Zenon DEF Elements, OvertakeInv
    <2> QED BY Zenon, <2>3, <2>4, <2>5, <2>6
  <1> QED BY <1>1, <1>2, <1>3, Invariance, PTL DEF Spec
=============================================================================
