-------------------------- MODULE ThreadPoolProofs --------------------------
(* Proofs about ThreadPool, for any sets of threads and any bounds.        *)
EXTENDS ThreadPool, FiniteSetTheorems, TLAPS

\* The inductive invariant of WorkerMain and EnqueueTask.
IInv == TypeOK /\ Accounting

\* A set of tasks is finite, and as large as 1..submitted only if it is equal.
LEMMA TaskSetFinite ==
    ASSUME NEW n \in Nat, NEW S \in SUBSET (1..n)
    PROVE  /\ IsFiniteSet(S)
           /\ Cardinality(S) \in Nat
           /\ Cardinality(S) <= n
           /\ Cardinality(S) = n => S = 1..n
  <1>1. IsFiniteSet(1..n) /\ Cardinality(1..n) = n
    BY FS_Interval
  <1>2. QED
    BY <1>1, FS_Subset, FS_CardinalityType, ZenonT(40)

\* The pool starts with no task anywhere.
LEMMA InitIInv == Init => IInv
  <1> SUFFICES ASSUME Init PROVE IInv
    BY Zenon
  <1>1. TypeOK
    <2>1. index \in 0..thread_num_
      BY BoundsAssumption DEF Init
    <2>2. /\ finished \in SUBSET Tasks
          /\ retired \in SUBSET Tasks
      BY Zenon DEF Init, Tasks
    <2>3. /\ worker \in [Workers -> WorkerPoints]
          /\ task \in [Workers -> Nat]
          /\ client \in [Clients -> ClientPoints]
      BY Zenon DEF Init, WorkerPoints, ClientPoints
    <2>4. /\ tasks_ \in Seq(Nat)
          /\ fired \in Seq(Nat)
          /\ workers_ \in Seq(Workers)
      BY DEF Init
    <2>5. QED
      BY <2>1, <2>2, <2>3, <2>4, Zenon DEF Init, TypeOK, OwnerPoints
  <1>2. Accounting
    BY FS_EmptySet, SMTT(40) DEF Init, Accounting, Popped, HoldPoints
  <1>3. QED
    BY Zenon, <1>1, <1>2 DEF IInv

\* Start and Stop move no task.
LEMMA OwnerIInv == IInv /\ OwnerStep => IInv'
  <1> SUFFICES ASSUME IInv, OwnerStep PROVE IInv'
    BY Zenon
  <1> USE DEF IInv, TypeOK, Accounting, Tasks, Popped, HoldPoints, Live,
          WorkerPoints, ClientPoints, OwnerPoints, pool, history
  <1>1. CASE Start
    <2>1. index' \in 0..thread_num_
      BY <1>1, BoundsAssumption DEF Start
    <2>2. QED
      BY <1>1, <2>1, Zenon DEF Start
  <1>2. CASE StartReturns
    BY Zenon, <1>2 DEF StartReturns
  <1>3. CASE Stop
    BY <1>3, SMTT(40) DEF Stop
  <1>4. CASE ScheduleQuit
    BY Zenon, <1>4 DEF ScheduleQuit
  <1>5. CASE StopReturns
    BY Zenon, <1>5 DEF StopReturns
  <1>6. ASSUME NEW w \in Workers, SpawnWorker(w) PROVE IInv'
    <2>1. index' \in 0..thread_num_ /\ workers_' \in Seq(Workers)
      BY <1>6, BoundsAssumption DEF SpawnWorker
    <2>2. QED
      BY Zenon, <1>6, <2>1 DEF SpawnWorker
  <1>7. CASE JoinWorker
    <2>1. workers_' \in Seq(Workers)
      BY <1>7 DEF JoinWorker
    <2>2. QED
      BY Zenon, <1>7, <2>1 DEF JoinWorker
  <1>8. QED
    BY <1>1, <1>2, <1>3, <1>4, <1>5, <1>6, <1>7, Zenon DEF OwnerStep

\* A push appends the next task number and leaves the popped tasks alone.
LEMMA PushTaskFacts ==
    ASSUME IInv, PushTask
    PROVE  /\ tasks_' \in Seq(Nat)
           /\ Len(tasks_') = Len(tasks_) + 1
           /\ Len(tasks_') <= submitted'
           /\ Popped' = Popped
           /\ Popped \in Nat
           /\ \A i \in 1..Len(tasks_') : tasks_'[i] = Popped + i
           /\ active_tasks_' \in Nat
           /\ active_tasks_' = submitted' - Cardinality(retired)
           /\ submitted' \in Nat
           /\ Tasks \subseteq Tasks'
  <1>1. /\ tasks_' \in Seq(Nat)
        /\ Len(tasks_') = Len(tasks_) + 1
        /\ \A i \in 1..Len(tasks_) : tasks_'[i] = tasks_[i]
        /\ tasks_'[Len(tasks_) + 1] = submitted + 1
    BY DEF IInv, TypeOK, PushTask
  <1>2. /\ Len(tasks_) \in Nat
        /\ Len(tasks_) <= submitted
        /\ submitted \in Nat
        /\ submitted' = submitted + 1
    BY DEF IInv, TypeOK, Accounting, PushTask
  <1>3. Popped' = Popped /\ Popped \in Nat /\ Popped + Len(tasks_) = submitted
    BY <1>1, <1>2 DEF Popped
  <1>4. \A i \in 1..Len(tasks_') : tasks_'[i] = Popped + i
    <2>1. ASSUME NEW i \in 1..Len(tasks_) PROVE tasks_'[i] = Popped + i
      BY Zenon, <1>1 DEF IInv, Accounting
    <2>2. tasks_'[Len(tasks_) + 1] = Popped + (Len(tasks_) + 1)
      BY <1>1, <1>2, <1>3
    <2>3. QED
      BY <1>1, <1>2, <2>1, <2>2
  <1>5. Cardinality(retired) \in Nat
    BY TaskSetFinite, Zenon DEF IInv, TypeOK, Tasks
  <1>6. /\ active_tasks_' \in Nat
        /\ active_tasks_' = submitted' - Cardinality(retired)
    BY <1>2, <1>5, SMTT(40) DEF IInv, TypeOK, Accounting, PushTask
  <1>7. Tasks \subseteq Tasks'
    BY <1>2 DEF Tasks
  <1>8. QED
    BY <1>1, <1>2, <1>3, <1>4, <1>6, <1>7

\* A push preserves the invariant whoever calls EnqueueTask: the caller's control
\* point stays on the same side of HoldPoints.
LEMMA PushTaskIInv ==
    ASSUME IInv, PushTask,
           worker' \in [Workers -> WorkerPoints],
           client' \in [Clients -> ClientPoints],
           \A w \in Workers :
              /\ worker'[w] \in HoldPoints <=> worker[w] \in HoldPoints
              /\ worker'[w] = "retire" <=> worker[w] = "retire"
    PROVE  IInv'
  <1>1. TypeOK'
    BY Zenon, PushTaskFacts DEF IInv, TypeOK, PushTask
  <1>2. Accounting'
    BY Zenon, PushTaskFacts DEF IInv, Accounting, PushTask
  <1>3. QED
    BY Zenon, <1>1, <1>2 DEF IInv

\* What a client does moves no task, but for EnqueueTask.
LEMMA ClientIInv ==
    ASSUME IInv, NEW c \in Clients, ClientStep(c)
    PROVE  IInv'
  <1> USE DEF WorkerPoints, ClientPoints, HoldPoints
  <1>1. CASE EnqueueTask(c)
    BY Zenon, <1>1, PushTaskIInv DEF EnqueueTask, IInv, TypeOK
  <1> USE DEF IInv, TypeOK, Accounting, Tasks, Popped, pool, threads, history
  <1>2. CASE ScheduleWork(c)
    BY <1>2, ZenonT(40) DEF ScheduleWork, NotifyOne, Sleeping
  <1>3. ASSUME TestAllDone(c) PROVE IInv'
    BY <1>3, Zenon DEF TestAllDone
  <1>4. CASE WaiterBlocks(c)
    BY Zenon, <1>4 DEF WaiterBlocks
  <1>5. CASE WaiterWakesSpuriously(c)
    BY Zenon, <1>5 DEF WaiterWakesSpuriously
  <1>6. ASSUME NEW cb \in Callbacks \cup {NoCallback}, ChangeCallback(c, cb)
        PROVE  IInv'
    BY Zenon, <1>6 DEF ChangeCallback
  <1>7. QED
    BY <1>1, <1>2, <1>3, <1>4, <1>5, <1>6, Zenon
    DEF ClientStep, WaitForAllTasks, WaiterRetests, SetCompletionCallback,
        ClearCompletionCallback

\* Head and Tail of a queue that is not empty.
LEMMA FrontAndRest ==
    ASSUME NEW s \in Seq(Nat), s # <<>>
    PROVE  /\ Head(s) = s[1]
           /\ Tail(s) \in Seq(Nat)
           /\ Len(s) \in Nat \ {0}
           /\ Len(Tail(s)) = Len(s) - 1
           /\ \A i \in 1..Len(Tail(s)) : Tail(s)[i] = s[i + 1]
  OBVIOUS

\* The tasks of s follow task p.
Consecutive(s, p) == \A i \in 1..Len(s) : s[i] = p + i

\* What follows the front of consecutive tasks is consecutive too.
LEMMA ShiftedTasks ==
    ASSUME NEW p \in Nat, NEW s, NEW r, Consecutive(s, p),
           Len(s) \in Nat \ {0}, Len(r) = Len(s) - 1,
           \A i \in 1..Len(r) : r[i] = s[i + 1]
    PROVE  s[1] = p + 1 /\ Consecutive(r, p + 1)
  <1>1. 1 \in 1..Len(s) /\ \A i \in 1..Len(r) : i + 1 \in 1..Len(s) /\ p + (i + 1) = p + 1 + i
    OBVIOUS
  <1> QED BY Zenon, <1>1 DEF Consecutive

\* PeekTask takes the front, which is the first task not yet popped.
LEMMA PeekTaskIInv ==
    ASSUME IInv, NEW w \in Workers, PeekTask(w)
    PROVE  IInv'
  <1>1. CASE tasks_ = <<>>
    <2>1. /\ worker[w] = "peek"
          /\ worker' = [worker EXCEPT ![w] = "loop"]
          /\ UNCHANGED <<tasks_, task, active_tasks_, should_quit_,
                         completion_callback_, mutex_, client, owner, index, workers_,
                         submitted, finished, retired, fired, stops>>
      BY Zenon, <1>1 DEF PeekTask, history
    <2>2. QED
      BY Zenon, <2>1 DEF IInv, TypeOK, Accounting, Tasks, Popped, HoldPoints,
                  WorkerPoints
  <1>2. CASE tasks_ # <<>>
    <2>1. /\ tasks_' \in Seq(Nat)
          /\ Len(tasks_) \in Nat \ {0}
          /\ Len(tasks_') = Len(tasks_) - 1
          /\ \A i \in 1..Len(tasks_') : tasks_'[i] = tasks_[i + 1]
          /\ task' = [task EXCEPT ![w] = tasks_[1]]
      <3>1. task' = [task EXCEPT ![w] = Head(tasks_)] /\ tasks_' = Tail(tasks_)
        BY Zenon, <1>2 DEF PeekTask
      <3>2. QED
        BY Zenon, <1>2, <3>1, FrontAndRest DEF IInv, TypeOK
    <2>2. /\ Popped \in Nat
          /\ Popped' = Popped + 1
          /\ Popped + 1 <= submitted
          /\ tasks_[1] = Popped + 1
          /\ \A i \in 1..Len(tasks_') : tasks_'[i] = Popped + 1 + i
          /\ Len(tasks_') <= submitted
      <3>1. submitted' = submitted /\ submitted \in Nat /\ Len(tasks_) <= submitted
        BY Zenon DEF PeekTask, history, IInv, TypeOK, Accounting
      <3>2. /\ Popped \in Nat /\ Popped' = Popped + 1
            /\ Popped + 1 <= submitted /\ Len(tasks_') <= submitted
        BY <2>1, <3>1 DEF Popped
      <3>3. \A i \in 1..Len(tasks_) : tasks_[i] = Popped + i
        BY Zenon DEF IInv, Accounting
      <3>4. QED
        <4>1. Consecutive(tasks_, Popped)
          BY Zenon, <3>3 DEF Consecutive
        <4>2. tasks_[1] = Popped + 1 /\ Consecutive(tasks_', Popped + 1)
          BY Zenon, <2>1, <3>2, <4>1, ShiftedTasks
        <4> QED BY Zenon, <3>2, <4>2 DEF Consecutive
    <2>3. TypeOK'
      <3>1. task' \in [Workers -> Nat]
        BY <2>1, <2>2 DEF IInv, TypeOK
      <3>2. /\ worker' = [worker EXCEPT ![w] = "recheck"]
            /\ UNCHANGED <<active_tasks_, should_quit_, completion_callback_,
                           mutex_, client, owner, index, workers_, submitted, finished,
                           retired, fired, stops>>
        BY Zenon, <1>2 DEF PeekTask, history
      <3>3. QED
        BY Zenon, <2>1, <3>1, <3>2 DEF IInv, TypeOK, WorkerPoints, Tasks
    <2>4. Accounting'
      <3>1. /\ task'[w] = Popped + 1
            /\ \A v \in Workers : v # w => task'[v] = task[v]
            /\ worker'[w] = "recheck"
            /\ \A v \in Workers : v # w => worker'[v] = worker[v]
            /\ UNCHANGED <<finished, retired, submitted, active_tasks_>>
        BY Zenon, <1>2, <2>1, <2>2 DEF PeekTask, IInv, TypeOK, history
      <3>2. /\ finished \subseteq 1..Popped
            /\ retired \subseteq finished
            /\ \A v \in Workers : task[v] \in 0..Popped
        BY Zenon DEF IInv, Accounting
      <3>3. /\ task'[w] # 0
            /\ task'[w] \notin finished
            /\ \A v \in Workers : v # w => task'[v] # task'[w]
        BY <2>2, <3>1, <3>2, SMTT(40)
      <3>4. \A v \in Workers :
              /\ task'[v] \in 0..Popped'
              /\ task'[v] # 0 <=> worker'[v] \in HoldPoints
              /\ worker'[v] = "retire" => task'[v] \in finished
              /\ task'[v] \in finished => worker'[v] = "retire"
              /\ task'[v] \notin retired
        BY <2>2, <3>1, <3>2, <3>3, SMTT(40) DEF IInv, Accounting, HoldPoints
      <3>5. \A u, v \in Workers : u # v /\ task'[u] = task'[v] => task'[u] = 0
        BY <3>1, <3>3 DEF IInv, Accounting
      <3>6. finished \subseteq 1..Popped'
        BY <2>2, <3>2, SMTT(40)
      <3>7. QED
        BY Zenon, <2>2, <3>1, <3>2, <3>4, <3>5, <3>6 DEF IInv, Accounting
    <2>5. QED
      BY Zenon, <2>3, <2>4 DEF IInv
  <1>3. QED
    BY Zenon, <1>1, <1>2

\* RetireTask takes one off active_tasks_, which counts at least its own task.
LEMMA RetireTaskIInv ==
    ASSUME IInv, NEW w \in Workers, RetireTask(w)
    PROVE  IInv'
  <1>1. /\ task[w] \in Tasks
        /\ task[w] \in finished
        /\ task[w] \notin retired
        /\ retired' = retired \cup {task[w]}
        /\ retired' \subseteq finished
        /\ retired' \in SUBSET Tasks
    BY Zenon DEF RetireTask, IInv, TypeOK, Accounting, Tasks
  <1>2. /\ Cardinality(retired) \in Nat
        /\ Cardinality(retired') = Cardinality(retired) + 1
        /\ Cardinality(retired') <= submitted
    BY <1>1, TaskSetFinite, FS_AddElement, Zenon DEF IInv, TypeOK, Tasks
  <1>3. /\ active_tasks_' \in Nat
        /\ active_tasks_' = submitted' - Cardinality(retired')
    BY <1>2, SMTT(40) DEF RetireTask, IInv, TypeOK, Accounting
  <1>4. TypeOK'
    BY Zenon, <1>1, <1>3 DEF RetireTask, IInv, TypeOK, WorkerPoints, Tasks
  <1>5. Accounting'
    BY <1>1, <1>3, SMTT(40) DEF RetireTask, IInv, TypeOK, Accounting, Popped, HoldPoints
  <1>6. QED
    BY Zenon, <1>4, <1>5 DEF IInv

\* The rest of WorkerMain: only RecheckQuit and TaskReturns touch a held task.
LEMMA WorkerIInv ==
    ASSUME IInv, NEW w \in Workers, WorkerStep(w)
    PROVE  IInv'
  <1>1. CASE TaskEnqueuesTask(w)
    BY Zenon, <1>1, PushTaskIInv
    DEF TaskEnqueuesTask, IInv, TypeOK, WorkerPoints, HoldPoints
  <1>2. CASE PeekTask(w)
    BY Zenon, <1>2, PeekTaskIInv
  <1>3. CASE RetireTask(w)
    BY Zenon, <1>3, RetireTaskIInv
  <1> USE DEF IInv, TypeOK, Accounting, Tasks, Popped, HoldPoints, WorkerPoints,
              ClientPoints, pool, history
  <1>4. CASE LoopTop(w)
    BY Zenon, <1>4 DEF LoopTop
  <1>5. CASE WaitTest(w)
    BY <1>5, ZenonT(40) DEF WaitTest
  <1>6. CASE WaitBlock(w)
    BY Zenon, <1>6 DEF WaitBlock
  <1>7. CASE WaitTimesOut(w)
    BY Zenon, <1>7 DEF WaitTimesOut
  <1>8. CASE WakesSpuriously(w)
    BY Zenon, <1>8 DEF WakesSpuriously
  <1>9. CASE RecheckQuit(w)
    <2>1. CASE should_quit_
      <3>1. /\ worker[w] = "recheck"
            /\ worker' = [worker EXCEPT ![w] = "exited"]
            /\ task' = [task EXCEPT ![w] = 0]
            /\ UNCHANGED <<pool, client, owner, index, workers_, history>>
        BY Zenon, <1>9, <2>1 DEF RecheckQuit
      <3>2. 0 \notin finished /\ 0 \notin retired
        BY SMTT(40)
      <3>3. TypeOK'
        BY Zenon, <3>1
      <3>4. Accounting'
        BY <3>1, <3>2, SMTT(40)
      <3>5. QED
        BY <3>3, <3>4, Zenon
    <2>2. CASE ~should_quit_
      BY <1>9, <2>2, ZenonT(40) DEF RecheckQuit
    <2>3. QED
      BY <2>1, <2>2, Zenon
  <1>10. CASE TaskSchedulesWork(w)
    BY <1>10, ZenonT(40) DEF TaskSchedulesWork, NotifyOne, Sleeping
  <1>11. CASE TaskReturns(w)
    <2>1. /\ task[w] \in 1..Popped
          /\ task[w] \in Tasks
          /\ task[w] \notin retired
          /\ \A v \in Workers : v # w => task[v] # task[w]
      BY <1>11 DEF TaskReturns
    <2>2. /\ finished' = finished \cup {task[w]}
          /\ worker' = [worker EXCEPT ![w] = "retire"]
          /\ UNCHANGED <<pool, task, client, owner, index, workers_, submitted, retired,
                         fired, stops>>
      BY Zenon, <1>11 DEF TaskReturns
    <2>3. TypeOK'
      BY <2>1, <2>2, ZenonT(40)
    <2>4. \A v \in Workers :
            /\ task'[v] = task[v]
            /\ worker'[v] = IF v = w THEN "retire" ELSE worker[v]
            /\ task'[v] \in finished' <=> v = w \/ task[v] \in finished
      BY Zenon, <2>1, <2>2
    <2>5. worker[w] = "run"
      BY Zenon, <1>11 DEF TaskReturns
    <2>6. \A v \in Workers :
            /\ task'[v] \in 0..Popped'
            /\ task'[v] # 0 <=> worker'[v] \in HoldPoints
            /\ worker'[v] = "retire" => task'[v] \in finished'
            /\ task'[v] \in finished' => worker'[v] = "retire"
            /\ task'[v] \notin retired'
      BY Zenon, <2>2, <2>4, <2>5
    <2>7. finished' \subseteq 1..Popped' /\ retired' \subseteq finished'
      BY <2>1, <2>2, Zenon
    <2>8. Accounting'
      BY Zenon, <2>2, <2>6, <2>7
    <2>9. QED
      BY Zenon, <2>3, <2>8
  <1>12. CASE TestIdle(w)
    BY Zenon, <1>12 DEF TestIdle
  <1>13. CASE NotifyFinished(w)
    BY Zenon, <1>13 DEF NotifyFinished
  <1>14. CASE InvokeCallback(w)
    <2>1. Cardinality(retired) \in Nat
      BY Zenon, TaskSetFinite
    <2>2. QED
      BY <1>14, <2>1, SMTT(40) DEF InvokeCallback
  <1>15. QED
    BY Zenon, <1>1, <1>2, <1>3, <1>4, <1>5, <1>6, <1>7, <1>8, <1>9, <1>10, <1>11,
       <1>12, <1>13, <1>14, ZenonT(40) DEF WorkerStep
-----------------------------------------------------------------------------
\* IInv holds in every reachable state: every task is queued in order, held by
\* one worker, finished or abandoned, and active_tasks_ counts them.
THEOREM Invariance == Spec => []IInv
  <1>1. IInv /\ [Next]_vars => IInv'
    <2> SUFFICES ASSUME IInv, [Next]_vars PROVE IInv'
      BY Zenon
    <2>1. CASE UNCHANGED vars
      BY Zenon, <2>1 DEF vars, pool, threads, history, IInv, TypeOK, Accounting, Tasks,
                  Popped
    <2>2. CASE OwnerStep
      BY Zenon, <2>2, OwnerIInv
    <2>3. ASSUME NEW c \in Clients, ClientStep(c) PROVE IInv'
      BY Zenon, <2>3, ClientIInv
    <2>4. ASSUME NEW w \in Workers, WorkerStep(w) PROVE IInv'
      BY Zenon, <2>4, WorkerIInv
    <2>5. QED
      BY Zenon, <2>1, <2>2, <2>3, <2>4 DEF Next
  <1>2. QED
    BY InitIInv, <1>1, PTL DEF Spec

\* The fields, control points and histories of the pool keep their types; in
\* particular active_tasks_ never goes below zero.
THEOREM TypeCorrect == Spec => []TypeOK
  BY Invariance, PTL DEF IInv

\* Every task is queued in the order of EnqueueTask, held by one worker of
\* WorkerMain, or finished, and active_tasks_ is the number not yet retired.
THEOREM TasksAreAccountedFor == Spec => []Accounting
  BY Invariance, PTL DEF IInv

\* WaitForAllTasks is sound: its predicate, active_tasks_ = 0, holds only when
\* every task enqueued so far has returned, for any number of threads and tasks
\* and whatever Stops and Starts happen.
THEOREM WaitIsSound == Spec => []IdleMeansDone
  <1>1. IInv => IdleMeansDone
    <2> SUFFICES ASSUME IInv, active_tasks_ = 0 PROVE finished = Tasks
      BY Zenon DEF IdleMeansDone
    <2>1. Cardinality(retired) = submitted
      <3>1. Cardinality(retired) \in Nat
        BY TaskSetFinite, Zenon DEF IInv, TypeOK, Tasks
      <3>2. QED
        BY <3>1 DEF IInv, TypeOK, Accounting
    <2>2. retired = Tasks
      BY Zenon, <2>1, TaskSetFinite DEF IInv, TypeOK, Tasks
    <2>3. QED
      BY <2>2, Zenon DEF IInv, TypeOK, Accounting
  <1>2. QED
    BY <1>1, Invariance, PTL

\* PeekTask hands every task to one worker only, and never again once it is
\* retired.
THEOREM RunOnce == Spec => []NoTaskTwice
  <1>1. IInv => NoTaskTwice
    <2> SUFFICES ASSUME IInv PROVE NoTaskTwice
      BY Zenon
    <2>1. \A v, w \in Holding : v # w => task[v] # task[w]
      BY Zenon DEF IInv, Accounting, Holding
    <2>2. \A w \in Holding : /\ task[w] \notin retired
                             /\ task[w] \in finished <=> worker[w] = "retire"
      BY Zenon DEF IInv, Accounting, Holding
    <2>3. Popped \in Nat
      BY DEF IInv, TypeOK, Accounting, Popped
    <2>4. ASSUME NEW i \in 1..Len(tasks_)
          PROVE  /\ tasks_[i] \notin finished
                 /\ \A w \in Holding : tasks_[i] # task[w]
      BY <2>3, SMTT(40) DEF IInv, TypeOK, Accounting, Holding
    <2>5. QED
      BY Zenon, <2>1, <2>2, <2>4 DEF NoTaskTwice
  <1>2. QED
    BY <1>1, Invariance, PTL
-----------------------------------------------------------------------------
\* StopJoins with what makes it inductive: every live thread is in workers_, from
\* the step that creates it on, and Start clears should_quit_ before it creates one.
StopInv ==
    /\ StopJoins
    /\ Live \subseteq Joinable
    /\ owner = "start" => ~should_quit_
    /\ worker \in [Workers -> WorkerPoints]
    /\ workers_ \in Seq(Workers)

\* What a step that leaves the owner alone needs.
LEMMA StopInvKept ==
    ASSUME StopInv, UNCHANGED <<owner, should_quit_, workers_>>,
           worker' \in [Workers -> WorkerPoints], Live' \subseteq Live
    PROVE  StopInv'
  <1>1. Joinable' = Joinable
    BY Zenon DEF Joinable
  <1>2. QED
    BY Zenon, <1>1 DEF StopInv, StopJoins

\* A new thread is joinable, and so are those that were.
LEMMA SpawnedIsJoinable ==
    ASSUME NEW w \in Workers, workers_ \in Seq(Workers), workers_' = Append(workers_, w)
    PROVE  workers_' \in Seq(Workers) /\ Joinable' = Joinable \cup {w}
  BY DEF Joinable

\* A thread that was joined is the only one that is joinable no more.
LEMMA JoinedIsGone ==
    ASSUME workers_ \in Seq(Workers), workers_ # <<>>, workers_' = Tail(workers_)
    PROVE  /\ workers_' \in Seq(Workers) /\ Head(workers_) \in Workers
           /\ Joinable \subseteq Joinable' \cup {Head(workers_)}
  <1>1. /\ workers_' \in Seq(Workers) /\ Len(workers_') = Len(workers_) - 1
        /\ Len(workers_) \in Nat
        /\ Head(workers_) = workers_[1] /\ Head(workers_) \in Workers
        /\ \A i \in 1..(Len(workers_) - 1) : workers_'[i] = workers_[i + 1]
    OBVIOUS
  <1>2. ASSUME NEW i \in 1..Len(workers_), workers_[i] # Head(workers_)
        PROVE  workers_[i] \in Joinable'
    <2>1. i - 1 \in 1..Len(workers_') /\ workers_'[i - 1] = workers_[i]
      BY <1>1, <1>2
    <2>2. QED
      BY Zenon, <2>1 DEF Joinable
  <1>3. QED
    BY Zenon, <1>1, <1>2 DEF Joinable

\* Once Stop has returned no worker is left until the next Start: the threads of
\* every Start are in workers_, none is dropped from it before it has exited, and
\* Stop returns when it holds none.
THEOREM StopIsFinal == Spec => []StopJoins
  <1>1. Init => StopInv
    <2> SUFFICES ASSUME Init PROVE StopInv
      BY Zenon
    <2>1. Live = {}
      BY Zenon DEF Init, Live
    <2>2. worker \in [Workers -> WorkerPoints] /\ workers_ \in Seq(Workers)
      BY DEF Init, WorkerPoints
    <2>3. QED
      BY Zenon, <2>1, <2>2 DEF Init, StopInv, StopJoins
  <1>2. StopInv /\ [Next]_vars => StopInv'
    <2> SUFFICES ASSUME StopInv, [Next]_vars PROVE StopInv'
      BY Zenon
    <2>1. CASE UNCHANGED vars
      BY Zenon, <2>1, StopInvKept DEF vars, pool, threads, StopInv, Live
    <2>2. CASE OwnerStep
      <3>1. CASE Start
        BY Zenon, <3>1 DEF Start, StopInv, StopJoins, Live, Joinable
      <3>2. ASSUME NEW w \in Workers, SpawnWorker(w) PROVE StopInv'
        <4>1. /\ worker' = [worker EXCEPT ![w] = "loop"]
              /\ workers_' = Append(workers_, w)
              /\ owner = "start" /\ UNCHANGED <<owner, should_quit_>>
          BY Zenon, <3>2 DEF SpawnWorker, pool
        <4>2. workers_' \in Seq(Workers) /\ Joinable' = Joinable \cup {w}
          BY Zenon, <4>1, SpawnedIsJoinable DEF StopInv
        <4>3. worker' \in [Workers -> WorkerPoints] /\ Live' \subseteq Live \cup {w}
          BY Zenon, <4>1 DEF StopInv, Live, WorkerPoints
        <4>4. QED
          BY Zenon, <4>1, <4>2, <4>3 DEF StopInv, StopJoins
      <3>3. CASE StartReturns
        BY Zenon, <3>3 DEF StartReturns, pool, StopInv, StopJoins, Live, Joinable
      <3>4. CASE Stop
        BY Zenon, <3>4 DEF Stop, StopInv, StopJoins, Live, Joinable
      <3>5. CASE ScheduleQuit
        <4>1. worker' \in [Workers -> WorkerPoints] /\ Live' \subseteq Live
          BY Zenon, <3>5 DEF ScheduleQuit, StopInv, Live, WorkerPoints
        <4>2. QED
          BY Zenon, <3>5, <4>1 DEF ScheduleQuit, StopInv, StopJoins, Joinable
      <3>6. CASE JoinWorker
        <4>1. /\ worker[Head(workers_)] = "exited" /\ owner = "join"
              /\ UNCHANGED <<worker, owner, should_quit_>>
          BY Zenon, <3>6 DEF JoinWorker, pool
        <4>2. /\ workers_' \in Seq(Workers) /\ Head(workers_) \in Workers
              /\ Joinable \subseteq Joinable' \cup {Head(workers_)}
          BY Zenon, <3>6, JoinedIsGone DEF JoinWorker, StopInv
        <4>3. Live' = Live /\ Head(workers_) \notin Live
          BY Zenon, <4>1 DEF Live
        <4>4. QED
          BY Zenon, <4>1, <4>2, <4>3 DEF StopInv, StopJoins
      <3>7. CASE StopReturns
        <4>1. Joinable = {}
          BY <3>7 DEF StopReturns, Joinable
        <4>2. QED
          BY Zenon, <3>7, <4>1 DEF StopReturns, pool, StopInv, StopJoins, Live, Joinable
      <3>8. QED
        BY Zenon, <2>2, <3>1, <3>2, <3>3, <3>4, <3>5, <3>6, <3>7 DEF OwnerStep
    <2>3. ASSUME NEW c \in Clients, ClientStep(c) PROVE StopInv'
      <3>1. UNCHANGED <<owner, should_quit_, workers_>>
        BY Zenon, <2>3 DEF ClientStep, EnqueueTask, PushTask, ScheduleWork,
           WaitForAllTasks, WaiterBlocks, WaiterRetests, WaiterWakesSpuriously,
           TestAllDone, SetCompletionCallback, ClearCompletionCallback,
           ChangeCallback, pool, threads
      <3>2. UNCHANGED worker \/ NotifyOne(worker)
        BY Zenon, <2>3 DEF ClientStep, EnqueueTask, PushTask, ScheduleWork,
           WaitForAllTasks, WaiterBlocks, WaiterRetests, WaiterWakesSpuriously,
           TestAllDone, SetCompletionCallback, ClearCompletionCallback,
           ChangeCallback, pool, threads
      <3>3. worker' \in [Workers -> WorkerPoints] /\ Live' \subseteq Live
        BY Zenon, <3>2 DEF NotifyOne, Sleeping, StopInv, Live, WorkerPoints
      <3>4. QED
        BY Zenon, <3>1, <3>3, StopInvKept
    <2>4. ASSUME NEW w \in Workers, WorkerStep(w) PROVE StopInv'
      <3>1. worker[w] # "exited" /\ UNCHANGED <<owner, should_quit_, workers_>>
        BY Zenon, <2>4 DEF WorkerStep, LoopTop, WaitTest, WaitBlock, WaitTimesOut,
           WakesSpuriously, PeekTask, RecheckQuit, TaskEnqueuesTask, PushTask,
           TaskSchedulesWork, TaskReturns, RetireTask, TestIdle, NotifyFinished,
           InvokeCallback, pool
      <3>2. worker' \in [Workers -> WorkerPoints]
        BY Zenon, <2>4 DEF WorkerStep, LoopTop, WaitTest, WaitBlock, WaitTimesOut,
           WakesSpuriously, PeekTask, RecheckQuit, TaskEnqueuesTask, PushTask,
           TaskSchedulesWork, TaskReturns, RetireTask, TestIdle, NotifyFinished,
           InvokeCallback, NotifyOne, Sleeping, StopInv, WorkerPoints
      <3>3. \A v \in Workers : worker[v] = "exited" => worker'[v] = "exited"
        BY Zenon, <2>4 DEF WorkerStep, LoopTop, WaitTest, WaitBlock, WaitTimesOut,
           WakesSpuriously, PeekTask, RecheckQuit, TaskEnqueuesTask, PushTask,
           TaskSchedulesWork, TaskReturns, RetireTask, TestIdle, NotifyFinished,
           InvokeCallback, NotifyOne, Sleeping, StopInv
      <3>4. Live' \subseteq Live
        BY Zenon, <3>3 DEF Live
      <3>5. QED
        BY Zenon, <3>1, <3>2, <3>4, StopInvKept
    <2>5. QED
      BY Zenon, <2>1, <2>2, <2>3, <2>4 DEF Next
  <1>3. StopInv => StopJoins
    BY Zenon DEF StopInv
  <1>4. QED
    BY <1>1, <1>2, <1>3, PTL DEF Spec
-----------------------------------------------------------------------------
\* A set of workers is finite, and one worker more or less counts for one.
LEMMA WorkerSets ==
    ASSUME NEW S \in SUBSET Workers
    PROVE  /\ IsFiniteSet(S)
           /\ Cardinality(S) \in Nat
           /\ Cardinality(S) <= Cardinality(Workers)
           /\ Cardinality(Workers) \in Nat
           /\ \A w \in Workers :
                /\ w \notin S => Cardinality(S \cup {w}) = Cardinality(S) + 1
                /\ w \in S => Cardinality(S \ {w}) = Cardinality(S) - 1
  <1>1. IsFiniteSet(S) /\ Cardinality(S) <= Cardinality(Workers)
    BY WorkersFinite, FS_Subset, Zenon
  <1>2. Cardinality(S) \in Nat /\ Cardinality(Workers) \in Nat
    BY <1>1, WorkersFinite, FS_CardinalityType, Zenon
  <1>3. ASSUME NEW w \in Workers
        PROVE  /\ w \notin S => Cardinality(S \cup {w}) = Cardinality(S) + 1
               /\ w \in S => Cardinality(S \ {w}) = Cardinality(S) - 1
    BY <1>1, FS_AddElement, FS_RemoveElement, Zenon
  <1> QED BY <1>1, <1>2, <1>3, Zenon

\* The workers between a retirement and the end of what it may notify.
Telling == {w \in Workers : worker[w] \in {"test", "notify", "callback"}}

\* No step but three of WorkerMain touches Telling, retired or fired.
LEMMA TellingStays ==
    ASSUME IInv, [Next]_vars,
           \A w \in Workers : ~RetireTask(w) /\ ~TestIdle(w) /\ ~InvokeCallback(w)
    PROVE  Telling' = Telling /\ retired' = retired /\ fired' = fired
  <1>0. worker \in [Workers -> WorkerPoints]
    BY Zenon DEF IInv, TypeOK
  <1> USE DEF Telling, pool, threads, history, WorkerPoints
  <1>1. CASE UNCHANGED vars
    BY Zenon, <1>1 DEF vars
  <1>2. CASE OwnerStep
    BY Zenon, <1>0, <1>2 DEF OwnerStep, Start, SpawnWorker, StartReturns, Stop,
                  ScheduleQuit, JoinWorker, StopReturns
  <1>3. ASSUME NEW c \in Clients, ClientStep(c)
        PROVE  Telling' = Telling /\ retired' = retired /\ fired' = fired
    <2>1. retired' = retired /\ fired' = fired
      BY Zenon, <1>3 DEF ClientStep, EnqueueTask, PushTask, ScheduleWork,
         WaitForAllTasks, WaiterBlocks, WaiterRetests, WaiterWakesSpuriously,
         TestAllDone, SetCompletionCallback, ClearCompletionCallback, ChangeCallback
    <2>2. UNCHANGED worker \/ NotifyOne(worker)
      BY Zenon, <1>3 DEF ClientStep, EnqueueTask, PushTask, ScheduleWork,
         WaitForAllTasks, WaiterBlocks, WaiterRetests, WaiterWakesSpuriously,
         TestAllDone, SetCompletionCallback, ClearCompletionCallback, ChangeCallback
    <2> QED BY Zenon, <1>0, <2>1, <2>2 DEF NotifyOne, Sleeping
  <1>4. ASSUME NEW w \in Workers, WorkerStep(w)
        PROVE  Telling' = Telling /\ retired' = retired /\ fired' = fired
    <2>1. retired' = retired /\ fired' = fired
      BY Zenon, <1>4 DEF WorkerStep, LoopTop, WaitTest, WaitBlock, WaitTimesOut,
         WakesSpuriously, PeekTask, RecheckQuit, TaskEnqueuesTask, PushTask,
         TaskSchedulesWork, TaskReturns, NotifyFinished
    <2>2. CASE TaskSchedulesWork(w)
      BY Zenon, <1>0, <2>1, <2>2 DEF TaskSchedulesWork, NotifyOne, Sleeping
    <2>3. CASE ~TaskSchedulesWork(w)
      <3>1. \E p \in WorkerPoints :
              /\ worker' = [worker EXCEPT ![w] = p]
              /\ p \in {"test", "notify", "callback"}
                   <=> worker[w] \in {"test", "notify", "callback"}
        BY Zenon, <1>4, <2>3 DEF WorkerStep, LoopTop, WaitTest, WaitBlock,
           WaitTimesOut, WakesSpuriously, PeekTask, RecheckQuit, TaskEnqueuesTask,
           TaskReturns, NotifyFinished
      <3> QED BY <1>0, <2>1, <3>1, SMTT(40)
    <2> QED BY Zenon, <2>2, <2>3
  <1> QED BY Zenon, <1>1, <1>2, <1>3, <1>4 DEF Next

\* Only what retired a task goes on to call the completion callback, and once: the
\* callback is never called more often than tasks were retired.
THEOREM CallsAreBounded == Spec => []OneCallPerTask
  <1>1. Init => OneCallPerTask
    <2> SUFFICES ASSUME Init PROVE OneCallPerTask
      BY Zenon
    <2>1. {w \in Workers : worker[w] \in {"test", "notify", "callback"}} = {}
      BY Zenon DEF Init
    <2>2. Len(fired) = 0 /\ retired = {}
      BY Zenon DEF Init
    <2> QED BY <2>1, <2>2, FS_EmptySet DEF OneCallPerTask
  <1>2. IInv /\ OneCallPerTask /\ [Next]_vars => OneCallPerTask'
    <2> SUFFICES ASSUME IInv, OneCallPerTask, [Next]_vars
                 PROVE  Len(fired') + Cardinality(Telling') <= Cardinality(retired')
      BY Zenon DEF OneCallPerTask, Telling
    <2>0. /\ Telling \in SUBSET Workers /\ Cardinality(Telling) \in Nat
          /\ Cardinality(retired) \in Nat /\ Len(fired) \in Nat
          /\ Len(fired) + Cardinality(Telling) <= Cardinality(retired)
          /\ worker \in [Workers -> WorkerPoints] /\ fired \in Seq(Nat)
      <3>1. Telling \in SUBSET Workers
        BY Zenon DEF Telling
      <3>2. Cardinality(Telling) \in Nat
        BY <3>1, WorkerSets, Zenon
      <3>3. Cardinality(retired) \in Nat
        BY TaskSetFinite, Zenon DEF IInv, TypeOK, Tasks
      <3>4. worker \in [Workers -> WorkerPoints] /\ fired \in Seq(Nat)
        BY Zenon DEF IInv, TypeOK
      <3>5. Len(fired) + Cardinality(Telling) <= Cardinality(retired)
        BY Zenon DEF OneCallPerTask, Telling
      <3> QED BY <3>1, <3>2, <3>3, <3>4, <3>5
    <2>1. ASSUME NEW w \in Workers, RetireTask(w)
          PROVE  Len(fired') + Cardinality(Telling') <= Cardinality(retired')
      <3>1. w \notin Telling /\ Telling' = Telling \cup {w} /\ fired' = fired
        BY Zenon, <2>0, <2>1 DEF RetireTask, Telling, WorkerPoints
      <3>2. Cardinality(retired') = Cardinality(retired) + 1
        <4>1. task[w] \notin retired /\ retired' = retired \cup {task[w]}
          BY <2>1, Zenon DEF RetireTask, IInv, Accounting
        <4>2. IsFiniteSet(retired)
          BY TaskSetFinite, Zenon DEF IInv, TypeOK, Tasks
        <4> QED BY <4>1, <4>2, FS_AddElement, Zenon
      <3>3. Cardinality(Telling') = Cardinality(Telling) + 1
        BY <2>0, <3>1, WorkerSets, Zenon
      <3> QED BY <2>0, <3>1, <3>2, <3>3
    <2>2. ASSUME NEW w \in Workers, TestIdle(w)
          PROVE  Len(fired') + Cardinality(Telling') <= Cardinality(retired')
      <3>1. fired' = fired /\ retired' = retired
        BY Zenon, <2>2 DEF TestIdle, history
      <3>2. w \in Telling /\ (Telling' = Telling \/ Telling' = Telling \ {w})
        BY Zenon, <2>0, <2>2 DEF TestIdle, Telling, WorkerPoints
      <3>3. Cardinality(Telling \ {w}) = Cardinality(Telling) - 1
        BY <2>0, <3>2, WorkerSets, Zenon
      <3>4. \/ Cardinality(Telling') = Cardinality(Telling)
            \/ Cardinality(Telling') = Cardinality(Telling) - 1
        BY <3>2, <3>3, Zenon
      <3> QED BY <2>0, <3>1, <3>4
    <2>3. ASSUME NEW w \in Workers, InvokeCallback(w)
          PROVE  Len(fired') + Cardinality(Telling') <= Cardinality(retired')
      <3>1. retired' = retired /\ w \in Telling /\ Telling' = Telling \ {w}
        BY Zenon, <2>0, <2>3 DEF InvokeCallback, Telling, WorkerPoints
      <3>2. Len(fired') = Len(fired) \/ Len(fired') = Len(fired) + 1
        BY <2>0, <2>3, SMTT(40) DEF InvokeCallback
      <3>3. Cardinality(Telling') = Cardinality(Telling) - 1
        BY <2>0, <3>1, WorkerSets, Zenon
      <3> QED BY <2>0, <3>1, <3>2, <3>3, SMTT(40)
    <2> QED BY Zenon, <2>0, <2>1, <2>2, <2>3, TellingStays
  <1> QED BY <1>1, <1>2, Invariance, PTL DEF Spec
-----------------------------------------------------------------------------
\* What a step does to the tasks in the pool and to the workers alive: n more are
\* queued, m more are held, d more are counted, and l more workers are alive.
Shifts(n, m, d, l) ==
    /\ Len(tasks_') = Len(tasks_) + n
    /\ Cardinality(Holding') = Cardinality(Holding) + m
    /\ active_tasks_' = active_tasks_ + d
    /\ Cardinality(Live') = Cardinality(Live) + l

LEMMA Differences ==
    ASSUME NEW a \in Nat, NEW b \in Nat, NEW c \in Nat
    PROVE  a - (b + c) \in Int /\ a * b \in Int
  OBVIOUS

\* The workers that hold a task and those alive, from the control points, and the
\* sizes of what StrandedBound counts.
Sizes ==
    /\ Holding \in SUBSET Workers /\ Cardinality(Holding) \in Nat
    /\ Live \in SUBSET Workers /\ Cardinality(Live) \in Nat
    /\ Cardinality(Live) <= Cardinality(Workers)
    /\ Cardinality(Workers) \in Nat
    /\ tasks_ \in Seq(Nat) /\ Len(tasks_) \in Nat
    /\ active_tasks_ \in Nat /\ stops \in Nat
    /\ worker \in [Workers -> WorkerPoints]
    /\ Holding = {w \in Workers : worker[w] \in HoldPoints}

LEMMA PoolSizes == IInv => Sizes
  <1> SUFFICES ASSUME IInv PROVE Sizes
    BY Zenon
  <1>1. Holding \in SUBSET Workers /\ Live \in SUBSET Workers
    BY Zenon DEF Holding, Live
  <1>2. /\ Cardinality(Holding) \in Nat /\ Cardinality(Live) \in Nat
        /\ Cardinality(Live) <= Cardinality(Workers)
        /\ Cardinality(Workers) \in Nat
    BY <1>1, WorkerSets, Zenon
  <1>3. /\ tasks_ \in Seq(Nat) /\ active_tasks_ \in Nat /\ stops \in Nat
        /\ worker \in [Workers -> WorkerPoints]
    BY Zenon DEF IInv, TypeOK
  <1>4. \A w \in Workers : task[w] # 0 <=> worker[w] \in HoldPoints
    BY Zenon DEF IInv, Accounting
  <1>5. Holding = {w \in Workers : worker[w] \in HoldPoints}
    BY <1>4, Zenon DEF Holding
  <1>6. Len(tasks_) \in Nat
    BY <1>3
  <1> QED BY <1>1, <1>2, <1>3, <1>5, <1>6, Zenon DEF Sizes

LEMMA PoolSizesNext == IInv' => Sizes'
  BY PoolSizes, PTL

\* What the sizes of Holding and Live become when worker w moves to p.
Moved(w, p) ==
    /\ Cardinality(Holding') = (Cardinality(Holding)
          + (IF p \in HoldPoints THEN 1 ELSE 0))
          - (IF worker[w] \in HoldPoints THEN 1 ELSE 0)
    /\ Cardinality(Live') = (Cardinality(Live)
          + (IF p # "exited" THEN 1 ELSE 0))
          - (IF worker[w] # "exited" THEN 1 ELSE 0)

LEMMA OneWorkerMoves ==
    ASSUME IInv, IInv', NEW w \in Workers, NEW p \in WorkerPoints,
           worker' = [worker EXCEPT ![w] = p]
    PROVE  Moved(w, p)
  <1>0. Sizes /\ Sizes'
    BY Zenon, PoolSizes, PoolSizesNext
  <1>1. /\ Holding = {v \in Workers : worker[v] \in HoldPoints}
        /\ Holding' = {v \in Workers : worker'[v] \in HoldPoints}
        /\ Live' = {v \in Workers : worker'[v] # "exited"}
        /\ worker \in [Workers -> WorkerPoints]
    BY <1>0, Zenon DEF Sizes, Live
  <1>2. Holding' = IF p \in HoldPoints THEN Holding \cup {w} ELSE Holding \ {w}
    BY Zenon, <1>1
  <1>3. Live' = IF p # "exited" THEN Live \cup {w} ELSE Live \ {w}
    BY Zenon, <1>1 DEF Live
  <1>4. ASSUME NEW S \in SUBSET Workers
        PROVE  /\ Cardinality(S) \in Nat
               /\ w \in S => /\ Cardinality(S \cup {w}) = Cardinality(S)
                             /\ Cardinality(S \ {w}) = Cardinality(S) - 1
               /\ w \notin S => /\ Cardinality(S \cup {w}) = Cardinality(S) + 1
                                /\ Cardinality(S \ {w}) = Cardinality(S)
    <2>1. w \in S => S \cup {w} = S
      BY Zenon
    <2>2. w \notin S => S \ {w} = S
      BY Zenon
    <2> QED BY <2>1, <2>2, WorkerSets, Zenon
  <1>5. Holding \in SUBSET Workers /\ Live \in SUBSET Workers
    BY <1>0, Zenon DEF Sizes
  <1>6. w \in Holding <=> worker[w] \in HoldPoints
    BY Zenon, <1>1
  <1>7. w \in Live <=> worker[w] # "exited"
    BY Zenon DEF Live
  <1>8. Cardinality(Holding') = (Cardinality(Holding)
          + (IF p \in HoldPoints THEN 1 ELSE 0))
          - (IF worker[w] \in HoldPoints THEN 1 ELSE 0)
    <2> HIDE DEF HoldPoints
    <2>1. /\ Cardinality(Holding) \in Nat
          /\ w \in Holding => /\ Cardinality(Holding \cup {w}) = Cardinality(Holding)
                         /\ Cardinality(Holding \ {w}) = Cardinality(Holding) - 1
          /\ w \notin Holding => /\ Cardinality(Holding \cup {w}) = Cardinality(Holding) + 1
                            /\ Cardinality(Holding \ {w}) = Cardinality(Holding)
      BY <1>4, <1>5, Zenon
    <2>2. CASE p \in HoldPoints /\ worker[w] \in HoldPoints
      BY <1>2, <1>6, <2>1, <2>2
    <2>3. CASE p \in HoldPoints /\ worker[w] \notin HoldPoints
      BY <1>2, <1>6, <2>1, <2>3
    <2>4. CASE p \notin HoldPoints /\ worker[w] \in HoldPoints
      BY <1>2, <1>6, <2>1, <2>4
    <2>5. CASE p \notin HoldPoints /\ worker[w] \notin HoldPoints
      BY <1>2, <1>6, <2>1, <2>5
    <2> QED BY <2>2, <2>3, <2>4, <2>5, Zenon
  <1>9. Cardinality(Live') = (Cardinality(Live)
          + (IF p # "exited" THEN 1 ELSE 0))
          - (IF worker[w] # "exited" THEN 1 ELSE 0)
    <2>1. /\ Cardinality(Live) \in Nat
          /\ w \in Live => /\ Cardinality(Live \cup {w}) = Cardinality(Live)
                         /\ Cardinality(Live \ {w}) = Cardinality(Live) - 1
          /\ w \notin Live => /\ Cardinality(Live \cup {w}) = Cardinality(Live) + 1
                            /\ Cardinality(Live \ {w}) = Cardinality(Live)
      BY <1>4, <1>5, Zenon
    <2>2. CASE p # "exited" /\ worker[w] # "exited"
      BY <1>3, <1>7, <2>1, <2>2
    <2>3. CASE p # "exited" /\ worker[w] = "exited"
      BY <1>3, <1>7, <2>1, <2>3
    <2>4. CASE p = "exited" /\ worker[w] # "exited"
      BY <1>3, <1>7, <2>1, <2>4
    <2>5. CASE p = "exited" /\ worker[w] = "exited"
      BY <1>3, <1>7, <2>1, <2>5
    <2> QED BY <2>2, <2>3, <2>4, <2>5, Zenon
  <1> QED BY <1>8, <1>9, Zenon DEF Moved

\* StrandedBound with what makes it inductive: while should_quit_ is set every
\* worker still alive has its one abandoned task left in the bound, and only a Stop
\* sets it.
StrandInv ==
    /\ StrandedBound
    /\ should_quit_ => Stranded + Cardinality(Live) <= Cardinality(Workers) * stops
    /\ owner = "start" => ~should_quit_
    /\ owner \in {"quit", "join"} => should_quit_

\* A step that leaves Start and Stop alone keeps StrandInv when it abandons nothing,
\* or when it abandons a task of a worker that leaves for it.
LEMMA ShiftKeeps ==
    ASSUME IInv, IInv', StrandInv,
           NEW n \in Int, NEW m \in Int, NEW d \in Int, NEW l \in Int,
           Shifts(n, m, d, l),
           n + m <= d, d = n + m \/ should_quit_, (d - n) - m + l <= 0,
           UNCHANGED <<should_quit_, owner, stops>>
    PROVE  StrandInv'
  <1>1. Sizes /\ Sizes'
    BY Zenon, PoolSizes, PoolSizesNext
  <1>2. PICK q \in Nat : q = Len(tasks_) /\ Len(tasks_') = q + n
    BY Zenon, <1>1 DEF Sizes, Shifts
  <1>3. PICK h \in Nat : h = Cardinality(Holding) /\ Cardinality(Holding') = h + m
    BY Zenon, <1>1 DEF Sizes, Shifts
  <1>4. PICK a \in Nat : a = active_tasks_ /\ active_tasks_' = a + d
    BY Zenon, <1>1 DEF Sizes, Shifts
  <1>5. PICK v \in Nat : v = Cardinality(Live) /\ Cardinality(Live') = v + l
    BY Zenon, <1>1 DEF Sizes, Shifts
  <1>6. v + l \in Nat
    <2>1. Cardinality(Live') \in Nat
      BY <1>1, Zenon DEF Sizes
    <2> QED BY <1>5, <2>1, Zenon
  <1>7. PICK b \in Int : b = Cardinality(Workers) * stops
    BY Zenon, <1>1, Differences DEF Sizes
  <1>8. stops' = stops /\ should_quit_' = should_quit_ /\ owner' = owner
    BY Zenon
  <1>9. Stranded = a - (q + h) /\ Stranded' = (a + d) - ((q + n) + (h + m))
    BY <1>2, <1>3, <1>4, Zenon DEF Stranded
  <1>10. /\ q + h <= a /\ a - (q + h) <= b
         /\ should_quit_ => (a - (q + h)) + v <= b
    BY <1>2, <1>3, <1>4, <1>5, <1>7, <1>9, Zenon DEF StrandInv, StrandedBound
  <1>11. /\ (q + n) + (h + m) <= a + d
         /\ (a + d) - ((q + n) + (h + m)) <= b
         /\ should_quit_ => ((a + d) - ((q + n) + (h + m))) + (v + l) <= b
    BY <1>6, <1>10
  <1>12. StrandedBound'
    BY <1>2, <1>3, <1>4, <1>7, <1>8, <1>9, <1>11, Zenon DEF StrandedBound
  <1>13. should_quit_' => Stranded' + Cardinality(Live') <= Cardinality(Workers) * stops'
    <2> SUFFICES ASSUME should_quit_
                 PROVE  Stranded' + Cardinality(Live') <= Cardinality(Workers) * stops'
      BY <1>8
    <2>1. ((a + d) - ((q + n) + (h + m))) + (v + l) <= b
      BY <1>11, Zenon
    <2>2. Cardinality(Workers) * stops' = b
      BY Zenon, <1>7, <1>8
    <2> QED BY Zenon, <1>5, <1>9, <2>1, <2>2
  <1>14. /\ owner' = "start" => ~should_quit_'
         /\ owner' \in {"quit", "join"} => should_quit_'
    BY <1>8 DEF StrandInv
  <1> QED BY <1>12, <1>13, <1>14, Zenon DEF StrandInv

\* A step that moves no task and no worker in or out.
LEMMA StandStill ==
    ASSUME IInv, IInv', StrandInv, UNCHANGED <<tasks_, active_tasks_>>,
           Holding' = Holding, Live' = Live, UNCHANGED <<should_quit_, owner, stops>>
    PROVE  StrandInv'
  <1>1. Sizes
    BY Zenon, PoolSizes
  <1>2. Shifts(0, 0, 0, 0)
    BY <1>1 DEF Shifts, Sizes
  <1> QED BY <1>2, ShiftKeeps

\* What wakes sleeping workers, or moves a worker that holds a task on, moves nobody
\* in or out.
LEMMA SamePlaces ==
    ASSUME IInv, IInv',
           \A w \in Workers :
              /\ worker'[w] \in HoldPoints <=> worker[w] \in HoldPoints
              /\ worker'[w] = "exited" <=> worker[w] = "exited"
    PROVE  Holding' = Holding /\ Live' = Live
  <1>1. Sizes /\ Sizes'
    BY Zenon, PoolSizes, PoolSizesNext
  <1>2. /\ Holding = {w \in Workers : worker[w] \in HoldPoints}
        /\ Holding' = {w \in Workers : worker'[w] \in HoldPoints}
    BY <1>1, Zenon DEF Sizes
  <1>3. Holding' = Holding
    BY <1>2, Zenon
  <1>4. Live' = Live
    BY Zenon DEF Live
  <1> QED BY Zenon, <1>3, <1>4

\* Start and Stop: a Stop pays for one abandoned task of every worker.
LEMMA OwnerStrands ==
    ASSUME IInv, IInv', StrandInv, OwnerStep
    PROVE  StrandInv'
  <1>0. Sizes /\ Sizes' /\ should_quit_ \in BOOLEAN
    BY Zenon, PoolSizes, PoolSizesNext DEF IInv, TypeOK
  <1>1. CASE Start
    <2>1. /\ owner' = "start" /\ should_quit_' = FALSE /\ stops' = stops
          /\ UNCHANGED <<tasks_, active_tasks_, worker, task>>
      BY Zenon, <1>1 DEF Start, history
    <2>2. StrandedBound'
      BY <2>1, Zenon DEF StrandInv, StrandedBound, Stranded, Holding
    <2> QED BY Zenon, <2>1, <2>2 DEF StrandInv
  <1>2. ASSUME NEW w \in Workers, SpawnWorker(w) PROVE StrandInv'
    <2>1. /\ owner = "start" /\ worker[w] = "exited" /\ task' = task
          /\ UNCHANGED <<tasks_, active_tasks_, should_quit_, owner, stops>>
      BY Zenon, <1>2 DEF SpawnWorker, pool, history
    <2>2. StrandedBound'
      BY <2>1, Zenon DEF StrandInv, StrandedBound, Stranded, Holding
    <2>3. ~should_quit_'
      BY Zenon, <2>1 DEF StrandInv
    <2> QED BY Zenon, <2>1, <2>2, <2>3 DEF StrandInv
  <1>3. CASE StartReturns \/ StopReturns
    <2>1. /\ owner' = "idle"
          /\ UNCHANGED <<tasks_, active_tasks_, worker, task, should_quit_, stops>>
      BY Zenon, <1>3 DEF StartReturns, StopReturns, pool, history
    <2>2. StrandedBound'
      BY <2>1, Zenon DEF StrandInv, StrandedBound, Stranded, Holding
    <2>3. should_quit_' =>
            Stranded' + Cardinality(Live') <= Cardinality(Workers) * stops'
      <3>1. Stranded' = Stranded /\ Live' = Live
        BY Zenon, <2>1 DEF Stranded, Holding, Live
      <3> QED BY Zenon, <2>1, <3>1 DEF StrandInv
    <2> QED BY Zenon, <2>1, <2>2, <2>3 DEF StrandInv
  <1>4. CASE Stop
    <2>1. /\ owner' = "quit" /\ should_quit_' = TRUE /\ stops' = stops + 1
          /\ UNCHANGED <<tasks_, active_tasks_, worker, task>>
      BY Zenon, <1>4 DEF Stop
    <2>2. Stranded' = Stranded /\ Live' = Live /\ Holding' = Holding
      BY Zenon, <2>1 DEF Stranded, Holding, Live
    <2>3. PICK c \in Nat : c = Cardinality(Workers)
      BY Zenon, <1>0 DEF Sizes
    <2>4. PICK b \in Int : b = Cardinality(Workers) * stops
      BY Zenon, <1>0, Differences DEF Sizes
    <2>5. Cardinality(Workers) * stops' = b + c
      <3>1. stops \in Nat
        BY Zenon, <1>0 DEF Sizes
      <3>2. c * (stops + 1) = c * stops + c
        BY <3>1
      <3> QED BY Zenon, <2>1, <2>3, <2>4, <3>2
    <2>6. /\ Stranded \in Int /\ Stranded <= b /\ Cardinality(Live) <= c
          /\ Cardinality(Live) \in Nat
      <3>1. Stranded \in Int
        BY Zenon, <1>0, Differences DEF Sizes, Stranded
      <3>2. Stranded <= b
        BY Zenon, <2>4 DEF StrandInv, StrandedBound
      <3>3. Cardinality(Live) <= c /\ Cardinality(Live) \in Nat
        BY Zenon, <1>0, <2>3 DEF Sizes
      <3> QED BY Zenon, <3>1, <3>2, <3>3
    <2>7. /\ Stranded' + Cardinality(Live') <= Cardinality(Workers) * stops'
          /\ Stranded' <= Cardinality(Workers) * stops'
      BY <2>2, <2>5, <2>6
    <2>8. Len(tasks_') + Cardinality(Holding') <= active_tasks_'
      BY Zenon, <2>1, <2>2 DEF StrandInv, StrandedBound
    <2> QED BY Zenon, <2>1, <2>7, <2>8 DEF StrandInv, StrandedBound
  <1>5. CASE ScheduleQuit
    <2>1. /\ owner = "quit" /\ owner' = "join" /\ should_quit_' = TRUE
          /\ UNCHANGED <<tasks_, active_tasks_, stops>>
          /\ \A w \in Workers :
                \/ worker'[w] = worker[w]
                \/ worker[w] = "wait_sleep" /\ worker'[w] = "wait_woken"
      BY Zenon, <1>5 DEF ScheduleQuit, history
    <2>2. Holding' = Holding /\ Live' = Live
      <3>1. \A w \in Workers :
              /\ worker'[w] \in HoldPoints <=> worker[w] \in HoldPoints
              /\ worker'[w] = "exited" <=> worker[w] = "exited"
        BY Zenon, <2>1 DEF HoldPoints
      <3> QED BY <3>1, SamePlaces, Zenon
    <2>3. should_quit_ = TRUE
      BY Zenon, <1>0, <2>1 DEF StrandInv
    <2>4. Stranded' = Stranded
      BY Zenon, <2>1, <2>2 DEF Stranded
    <2>5. /\ StrandedBound'
          /\ Stranded' + Cardinality(Live') <= Cardinality(Workers) * stops'
      BY Zenon, <2>1, <2>2, <2>3, <2>4 DEF StrandInv, StrandedBound
    <2> QED BY Zenon, <2>1, <2>5 DEF StrandInv
  <1>6. CASE JoinWorker
    <2>1. UNCHANGED <<tasks_, active_tasks_, worker, task, should_quit_, owner, stops>>
      BY Zenon, <1>6 DEF JoinWorker, pool, history
    <2> QED BY Zenon, <2>1 DEF StrandInv, StrandedBound, Stranded, Holding, Live
  <1> QED BY Zenon, <1>1, <1>2, <1>3, <1>4, <1>5, <1>6 DEF OwnerStep

\* What clients do: EnqueueTask queues a task and counts it.
LEMMA ClientStrands ==
    ASSUME IInv, IInv', StrandInv, NEW c \in Clients, ClientStep(c)
    PROVE  StrandInv'
  <1>0. Sizes /\ Sizes'
    BY Zenon, PoolSizes, PoolSizesNext
  <1>1. CASE EnqueueTask(c)
    <2>1. /\ UNCHANGED <<worker, task, should_quit_, owner, stops>>
          /\ tasks_' = Append(tasks_, submitted + 1)
          /\ active_tasks_' = active_tasks_ + 1
      BY Zenon, <1>1 DEF EnqueueTask, PushTask
    <2>2. Holding' = Holding /\ Live' = Live
      BY Zenon, <2>1 DEF Holding, Live
    <2>3. Shifts(1, 0, 1, 0)
      BY <1>0, <2>1, <2>2 DEF Shifts, Sizes
    <2> QED BY <2>1, <2>3, ShiftKeeps
  <1>2. CASE ScheduleWork(c)
    <2>1. /\ UNCHANGED <<tasks_, active_tasks_, should_quit_, owner, stops>>
          /\ NotifyOne(worker)
      BY Zenon, <1>2 DEF ScheduleWork, pool, history
    <2>2. worker \in [Workers -> WorkerPoints]
      BY <1>0, Zenon DEF Sizes
    <2>3. \A w \in Workers :
            \/ worker'[w] = worker[w]
            \/ worker[w] = "wait_sleep" /\ worker'[w] = "wait_woken"
      BY Zenon, <2>1, <2>2 DEF NotifyOne, Sleeping
    <2>4. \A w \in Workers :
            /\ worker'[w] \in HoldPoints <=> worker[w] \in HoldPoints
            /\ worker'[w] = "exited" <=> worker[w] = "exited"
      BY Zenon, <2>3 DEF HoldPoints
    <2>5. Holding' = Holding /\ Live' = Live
      BY <2>4, SamePlaces, Zenon
    <2> QED BY Zenon, <2>1, <2>5, StandStill
  <1>3. ASSUME UNCHANGED <<tasks_, active_tasks_, worker, task, should_quit_, owner, stops>>
        PROVE  StrandInv'
    <2>1. Holding' = Holding /\ Live' = Live
      BY Zenon, <1>3 DEF Holding, Live
    <2> QED BY Zenon, <1>3, <2>1, StandStill
  <1>4. CASE ~EnqueueTask(c) /\ ~ScheduleWork(c)
    BY Zenon, <1>3, <1>4 DEF ClientStep, WaitForAllTasks, WaiterBlocks,
       WaiterRetests, WaiterWakesSpuriously, TestAllDone, SetCompletionCallback,
       ClearCompletionCallback, ChangeCallback, pool, threads, history
  <1> QED BY Zenon, <1>1, <1>2, <1>4

\* WorkerMain: a task is abandoned only by a worker that leaves.
LEMMA WorkerStrands ==
    ASSUME IInv, IInv', StrandInv, NEW w \in Workers, WorkerStep(w)
    PROVE  StrandInv'
  <1>0. Sizes /\ Sizes'
    BY Zenon, PoolSizes, PoolSizesNext
  <1>a. worker \in [Workers -> WorkerPoints]
    BY <1>0, Zenon DEF Sizes
  <1>b. UNCHANGED <<should_quit_, owner, stops>>
    <2>1. CASE LoopTop(w) \/ WaitTest(w) \/ WaitBlock(w) \/ WaitTimesOut(w)
      BY Zenon, <2>1 DEF LoopTop, WaitTest, WaitBlock, WaitTimesOut, pool, history
    <2>2. CASE WakesSpuriously(w) \/ PeekTask(w) \/ RecheckQuit(w)
      BY Zenon, <2>2 DEF WakesSpuriously, PeekTask, RecheckQuit, pool, history
    <2>3. CASE TaskEnqueuesTask(w) \/ TaskSchedulesWork(w) \/ TaskReturns(w)
      BY Zenon, <2>3 DEF TaskEnqueuesTask, PushTask, TaskSchedulesWork, TaskReturns,
         pool, history
    <2>4. CASE RetireTask(w) \/ TestIdle(w)
      BY Zenon, <2>4 DEF RetireTask, TestIdle, pool, history
    <2>5. CASE NotifyFinished(w) \/ InvokeCallback(w)
      BY Zenon, <2>5 DEF NotifyFinished, InvokeCallback, pool, history
    <2> QED BY Zenon, <2>1, <2>2, <2>3, <2>4, <2>5 DEF WorkerStep
  <1>c. ASSUME NEW p \in WorkerPoints, worker' = [worker EXCEPT ![w] = p],
               p \in HoldPoints <=> worker[w] \in HoldPoints,
               p = "exited" => should_quit_, worker[w] # "exited",
               UNCHANGED <<tasks_, active_tasks_>>
        PROVE  StrandInv'
    <2>1. PICK l \in {0, -1} : Shifts(0, 0, 0, l)
      <3>0. Moved(w, p) /\ Cardinality(Holding) \in Nat /\ Cardinality(Live) \in Nat
        BY <1>0, <1>c, OneWorkerMoves, Zenon DEF Sizes
      <3>1. Cardinality(Holding') = Cardinality(Holding)
        BY <1>c, <3>0 DEF Moved
      <3>2. \/ Cardinality(Live') = Cardinality(Live)
            \/ Cardinality(Live') = Cardinality(Live) - 1
        BY <1>c, <3>0 DEF Moved
      <3>3. CASE Cardinality(Live') = Cardinality(Live)
        BY <1>0, <1>c, <3>1, <3>3 DEF Shifts, Sizes
      <3>4. CASE Cardinality(Live') = Cardinality(Live) - 1
        <4>1. Shifts(0, 0, 0, -1)
          BY <1>0, <1>c, <3>1, <3>4 DEF Shifts, Sizes
        <4> QED BY Zenon, <4>1
      <3> QED BY Zenon, <3>2, <3>3, <3>4
    <2> QED BY <1>b, <2>1, ShiftKeeps
  <1>1. CASE TaskEnqueuesTask(w)
    <2>1. /\ worker' = [worker EXCEPT ![w] = "schedule"] /\ worker[w] = "run"
          /\ tasks_' = Append(tasks_, submitted + 1)
          /\ active_tasks_' = active_tasks_ + 1
      BY Zenon, <1>1 DEF TaskEnqueuesTask, PushTask
    <2>2. "schedule" \in WorkerPoints /\ "schedule" \in HoldPoints /\ "run" \in HoldPoints
      BY Zenon DEF WorkerPoints, HoldPoints
    <2>3. /\ Cardinality(Holding') = Cardinality(Holding)
          /\ Cardinality(Live') = Cardinality(Live)
      <3>1. Moved(w, "schedule") /\ Cardinality(Holding) \in Nat /\ Cardinality(Live) \in Nat
        BY <1>0, <2>1, <2>2, OneWorkerMoves, Zenon DEF Sizes
      <3> QED BY <2>1, <2>2, <3>1 DEF Moved
    <2>4. Shifts(1, 0, 1, 0)
      BY <1>0, <2>1, <2>3 DEF Shifts, Sizes
    <2> QED BY <1>b, <2>4, ShiftKeeps
  <1>2. CASE PeekTask(w) /\ tasks_ # <<>>
    <2>1. /\ worker' = [worker EXCEPT ![w] = "recheck"] /\ worker[w] = "peek"
          /\ tasks_' = Tail(tasks_) /\ active_tasks_' = active_tasks_
      BY Zenon, <1>2 DEF PeekTask
    <2>2. "recheck" \in WorkerPoints /\ "recheck" \in HoldPoints /\ "peek" \notin HoldPoints
      BY Zenon DEF WorkerPoints, HoldPoints
    <2>3. /\ Cardinality(Holding') = Cardinality(Holding) + 1
          /\ Cardinality(Live') = Cardinality(Live)
      <3>1. Moved(w, "recheck") /\ Cardinality(Holding) \in Nat /\ Cardinality(Live) \in Nat
        BY <1>0, <2>1, <2>2, OneWorkerMoves, Zenon DEF Sizes
      <3> QED BY <2>1, <2>2, <3>1 DEF Moved
    <2>4. Len(tasks_') = Len(tasks_) - 1
      BY Zenon, <1>0, <1>2, <2>1, FrontAndRest DEF Sizes
    <2>5. Shifts(-1, 1, 0, 0)
      BY <1>0, <2>1, <2>3, <2>4 DEF Shifts, Sizes
    <2> QED BY <1>b, <2>5, ShiftKeeps
  <1>3. CASE RetireTask(w)
    <2>1. /\ worker' = [worker EXCEPT ![w] = "test"] /\ worker[w] = "retire"
          /\ tasks_' = tasks_ /\ active_tasks_' = active_tasks_ - 1
      BY Zenon, <1>3 DEF RetireTask
    <2>2. "test" \in WorkerPoints /\ "test" \notin HoldPoints /\ "retire" \in HoldPoints
      BY Zenon DEF WorkerPoints, HoldPoints
    <2>3. /\ Cardinality(Holding') = Cardinality(Holding) - 1
          /\ Cardinality(Live') = Cardinality(Live)
      <3>1. Moved(w, "test") /\ Cardinality(Holding) \in Nat /\ Cardinality(Live) \in Nat
        BY <1>0, <2>1, <2>2, OneWorkerMoves, Zenon DEF Sizes
      <3> QED BY <2>1, <2>2, <3>1 DEF Moved
    <2>4. Shifts(0, -1, -1, 0)
      BY <1>0, <2>1, <2>3 DEF Shifts, Sizes
    <2> QED BY <1>b, <2>4, ShiftKeeps
  <1>4. CASE RecheckQuit(w) /\ should_quit_
    <2>1. /\ worker' = [worker EXCEPT ![w] = "exited"] /\ worker[w] = "recheck"
          /\ tasks_' = tasks_ /\ active_tasks_' = active_tasks_
      BY Zenon, <1>4 DEF RecheckQuit, pool
    <2>2. "exited" \in WorkerPoints /\ "exited" \notin HoldPoints /\ "recheck" \in HoldPoints
      BY Zenon DEF WorkerPoints, HoldPoints
    <2>3. /\ Cardinality(Holding') = Cardinality(Holding) - 1
          /\ Cardinality(Live') = Cardinality(Live) - 1
      <3>1. Moved(w, "exited") /\ Cardinality(Holding) \in Nat /\ Cardinality(Live) \in Nat
        BY <1>0, <2>1, <2>2, OneWorkerMoves, Zenon DEF Sizes
      <3> QED BY <2>1, <2>2, <3>1 DEF Moved
    <2>4. Shifts(0, -1, 0, -1)
      BY <1>0, <2>1, <2>3 DEF Shifts, Sizes
    <2> QED BY <1>4, <1>b, <2>4, ShiftKeeps
  <1>5. CASE TaskSchedulesWork(w)
    <2>1. /\ worker[w] = "schedule" /\ NotifyOne([worker EXCEPT ![w] = "run"])
          /\ UNCHANGED <<tasks_, active_tasks_>>
      BY Zenon, <1>5 DEF TaskSchedulesWork, pool
    <2>2. \A v \in Workers :
            \/ worker'[v] = worker[v]
            \/ worker[v] = "wait_sleep" /\ worker'[v] = "wait_woken"
            \/ worker[v] = "schedule" /\ worker'[v] = "run"
      BY Zenon, <1>a, <2>1 DEF NotifyOne, Sleeping
    <2>3. \A v \in Workers :
            /\ worker'[v] \in HoldPoints <=> worker[v] \in HoldPoints
            /\ worker'[v] = "exited" <=> worker[v] = "exited"
      BY Zenon, <2>2 DEF HoldPoints
    <2>4. Holding' = Holding /\ Live' = Live
      BY <2>3, SamePlaces, Zenon
    <2> QED BY Zenon, <1>b, <2>1, <2>4, StandStill
  <1> DEFINE Goes(p) == worker' = [worker EXCEPT ![w] = p]
  <1>6. CASE LoopTop(w)
    <2>1. worker[w] = "loop" /\ UNCHANGED <<tasks_, active_tasks_>>
      BY Zenon, <1>6 DEF LoopTop, pool
    <2>2. Goes("wait") \/ (Goes("exited") /\ should_quit_)
      BY Zenon, <1>6 DEF LoopTop
    <2> QED BY Zenon, <1>c, <2>1, <2>2 DEF WorkerPoints, HoldPoints
  <1>7. CASE WaitTest(w) \/ WaitBlock(w) \/ WaitTimesOut(w) \/ WakesSpuriously(w)
    <2>1. /\ worker[w] \in {"wait", "wait_block", "wait_sleep", "wait_woken"}
          /\ UNCHANGED <<tasks_, active_tasks_>>
      BY Zenon, <1>7 DEF WaitTest, WaitBlock, WaitTimesOut, WakesSpuriously, pool
    <2>2. Goes("peek") \/ Goes("wait_block") \/ Goes("wait_sleep") \/ Goes("wait_woken")
      BY Zenon, <1>7 DEF WaitTest, WaitBlock, WaitTimesOut, WakesSpuriously
    <2> QED BY Zenon, <1>c, <2>1, <2>2 DEF WorkerPoints, HoldPoints
  <1>8. CASE PeekTask(w) /\ tasks_ = <<>>
    <2>1. worker[w] = "peek" /\ Goes("loop") /\ UNCHANGED <<tasks_, active_tasks_>>
      BY Zenon, <1>8 DEF PeekTask
    <2> QED BY Zenon, <1>c, <2>1 DEF WorkerPoints, HoldPoints
  <1>9. CASE RecheckQuit(w) /\ ~should_quit_
    <2>1. worker[w] = "recheck" /\ Goes("run") /\ UNCHANGED <<tasks_, active_tasks_>>
      BY Zenon, <1>9 DEF RecheckQuit, pool
    <2> QED BY Zenon, <1>c, <2>1 DEF WorkerPoints, HoldPoints
  <1>10. CASE TaskReturns(w)
    <2>1. worker[w] = "run" /\ Goes("retire") /\ UNCHANGED <<tasks_, active_tasks_>>
      BY Zenon, <1>10 DEF TaskReturns, pool
    <2> QED BY Zenon, <1>c, <2>1 DEF WorkerPoints, HoldPoints
  <1>11. CASE TestIdle(w) \/ NotifyFinished(w) \/ InvokeCallback(w)
    <2>1. /\ worker[w] \in {"test", "notify", "callback"}
          /\ UNCHANGED <<tasks_, active_tasks_>>
      BY Zenon, <1>11 DEF TestIdle, NotifyFinished, InvokeCallback, pool
    <2>2. Goes("notify") \/ Goes("loop") \/ Goes("callback")
      BY Zenon, <1>11 DEF TestIdle, NotifyFinished, InvokeCallback
    <2> QED BY Zenon, <1>c, <2>1, <2>2 DEF WorkerPoints, HoldPoints
  <1> QED BY <1>1, <1>2, <1>3, <1>4, <1>5, <1>6, <1>7, <1>8, <1>9, <1>10, <1>11, Zenon
          DEF WorkerStep

\* active_tasks_ never falls short of the tasks queued and held, and exceeds them by
\* at most one abandoned task for each worker and Stop.
THEOREM StrandedTasksAreBounded == Spec => []StrandedBound
  <1>1. Init => StrandInv
    <2> SUFFICES ASSUME Init PROVE StrandInv
      BY Zenon
    <2>1. /\ Len(tasks_) = 0 /\ Holding = {} /\ active_tasks_ = 0 /\ stops = 0
          /\ should_quit_ = FALSE /\ owner = "idle"
      BY Zenon DEF Init, Holding
    <2>2. Cardinality(Workers) \in Nat
      BY Zenon, WorkersFinite, FS_CardinalityType
    <2>3. StrandedBound
      BY <2>1, <2>2, FS_EmptySet DEF StrandedBound, Stranded
    <2> QED BY Zenon, <2>1, <2>3 DEF StrandInv
  <1>2. IInv /\ IInv' /\ StrandInv /\ [Next]_vars => StrandInv'
    <2> SUFFICES ASSUME IInv, IInv', StrandInv, [Next]_vars PROVE StrandInv'
      BY Zenon
    <2>1. CASE UNCHANGED vars
      <3>1. /\ UNCHANGED <<tasks_, active_tasks_, worker, task>>
            /\ UNCHANGED <<should_quit_, owner, stops>>
        BY Zenon, <2>1 DEF vars, pool, threads, history
      <3>2. Holding' = Holding /\ Live' = Live
        BY Zenon, <3>1 DEF Holding, Live
      <3> QED BY Zenon, <3>1, <3>2, StandStill
    <2>2. CASE OwnerStep
      BY Zenon, <2>2, OwnerStrands
    <2>3. ASSUME NEW c \in Clients, ClientStep(c) PROVE StrandInv'
      BY Zenon, <2>3, ClientStrands
    <2>4. ASSUME NEW w \in Workers, WorkerStep(w) PROVE StrandInv'
      BY Zenon, <2>4, WorkerStrands
    <2> QED BY Zenon, <2>1, <2>2, <2>3, <2>4 DEF Next
  <1>3. StrandInv => StrandedBound
    BY Zenon DEF StrandInv
  <1> QED BY <1>1, <1>2, <1>3, Invariance, PTL DEF Spec
=============================================================================
