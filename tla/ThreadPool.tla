----------------------------- MODULE ThreadPool -----------------------------
(***************************************************************************)
(* sparo::ThreadPool (src/base/thread_pool.h).                             *)
(*                                                                         *)
(* Worker threads run WorkerMain; client threads call EnqueueTask,         *)
(* WaitForAllTasks, SetCompletionCallback and ClearCompletionCallback; one *)
(* owner thread calls Start and Stop (the destructor is a last Stop).      *)
(*                                                                         *)
(* A critical section of mutex_ that nobody can observe half-done is one   *)
(* step, enabled when the mutex is free.  The mutex is held across steps   *)
(* where the code lets other threads act meanwhile: between the test of a  *)
(* wait predicate and the blocking of the thread (Stop writes should_quit_ *)
(* and notifies without the mutex), and around the completion callback.    *)
(* should_quit_ is a plain bool read without a lock; every read is a step  *)
(* of its own that sees the value at that moment, so a stale value is the  *)
(* same step taken earlier.                                                *)
(***************************************************************************)
EXTENDS Naturals, Sequences, FiniteSets

CONSTANTS
    Workers,      \* identities of worker threads (bounds how many can be live)
    Clients,      \* threads that use the pool
    Callbacks,    \* completion callbacks (function and argument together)
    NoCallback,   \* nullptr
    Nobody,       \* mutex_ is free
    thread_num_,  \* threads that one Start creates
    MaxTasks,     \* bound on the number of EnqueueTask calls
    MaxStops      \* bound on the number of Stop calls

ASSUME ThreadsAssumption ==
    /\ Workers \cap Clients = {}
    /\ Nobody \notin Workers \cup Clients
ASSUME WorkersFinite == IsFiniteSet(Workers)
ASSUME CallbackAssumption == NoCallback \notin Callbacks
ASSUME BoundsAssumption ==
    thread_num_ \in Nat /\ MaxTasks \in Nat /\ MaxStops \in Nat

VARIABLES
    tasks_,                \* std::queue of task numbers, front first
    active_tasks_,         \* std::atomic<size_t>
    should_quit_,
    completion_callback_,
    mutex_,                \* the thread that holds it, or Nobody
    worker,                \* control point of each worker thread
    task,                  \* WorkerMain's local: the task popped, 0 for none
    client,                \* control point of each client thread
    owner,                 \* control point of the thread calling Start and Stop
    index,                 \* Start's loop counter
    workers_,              \* the std::threads created and not yet joined
    submitted,             \* history: EnqueueTask calls so far; a task's number
    finished,              \* history: tasks whose function has returned
    retired,               \* history: tasks taken off active_tasks_
    fired,                 \* history: per callback call, |retired| at that time
    stops                  \* history: Stop calls so far

pool == <<tasks_, active_tasks_, should_quit_, completion_callback_, mutex_>>
threads == <<worker, task, client, owner, index, workers_>>
history == <<submitted, finished, retired, fired, stops>>
vars == <<pool, threads, history>>

WorkerPoints == {"exited", "loop", "wait", "wait_block", "wait_sleep",
    "wait_woken", "peek", "recheck", "run", "schedule", "retire", "test",
    "notify", "callback"}
ClientPoints ==
    {"idle", "schedule", "wait_block", "wait_sleep", "wait_woken"}
OwnerPoints == {"idle", "start", "quit", "join"}

Init ==
    /\ tasks_ = <<>>
    /\ active_tasks_ = 0
    /\ should_quit_ = FALSE
    /\ completion_callback_ = NoCallback
    /\ mutex_ = Nobody
    /\ worker = [w \in Workers |-> "exited"]
    /\ task = [w \in Workers |-> 0]
    /\ client = [c \in Clients |-> "idle"]
    /\ owner = "idle"
    /\ index = 0
    /\ workers_ = <<>>
    /\ submitted = 0
    /\ finished = {}
    /\ retired = {}
    /\ fired = <<>>
    /\ stops = 0

Live == {w \in Workers : worker[w] # "exited"}
Joinable == {workers_[i] : i \in 1..Len(workers_)}
Holding == {w \in Workers : task[w] # 0}
-----------------------------------------------------------------------------
(* Start and Stop                                                          *)

\* A second Start without a Stop adds another thread_num_ workers.
Start ==
    /\ owner = "idle"
    /\ thread_num_ <= Cardinality(Workers \ (Live \cup Joinable))
    /\ should_quit_' = FALSE
    /\ owner' = "start"
    /\ index' = 0
    /\ UNCHANGED <<tasks_, active_tasks_, completion_callback_, mutex_, worker,
                   task, client, workers_, history>>

\* Mutants: the loop of Start runs once too often; the new thread replaces those
\* that workers_ held.
SpawnWorkerOnceMore(w) ==
    /\ owner = "start" /\ index <= thread_num_
    /\ worker[w] = "exited" /\ w \notin Joinable
    /\ worker' = [worker EXCEPT ![w] = "loop"]
    /\ workers_' = Append(workers_, w)
    /\ index' = index + 1
    /\ UNCHANGED <<pool, task, client, owner, history>>
SpawnWorkerAlone(w) ==
    /\ owner = "start" /\ index < thread_num_
    /\ worker[w] = "exited" /\ w \notin Joinable
    /\ worker' = [worker EXCEPT ![w] = "loop"]
    /\ workers_' = <<w>>
    /\ index' = index + 1
    /\ UNCHANGED <<pool, task, client, owner, history>>

\* workers_.emplace_back(std::thread(...)).  An identity is taken again only when
\* its last thread was joined.
SpawnWorker(w) ==
    /\ owner = "start" /\ index < thread_num_
    /\ worker[w] = "exited" /\ w \notin Joinable
    /\ worker' = [worker EXCEPT ![w] = "loop"]
    /\ workers_' = Append(workers_, w)
    /\ index' = index + 1
    /\ UNCHANGED <<pool, task, client, owner, history>>

StartReturns ==
    /\ owner = "start" /\ index = thread_num_
    /\ owner' = "idle"
    /\ UNCHANGED <<pool, worker, task, client, index, workers_, history>>

Stop ==
    /\ owner = "idle" /\ stops < MaxStops
    /\ should_quit_' = TRUE
    /\ owner' = "quit"
    /\ stops' = stops + 1
    /\ UNCHANGED <<tasks_, active_tasks_, completion_callback_, mutex_, worker, task,
                   client, index, workers_, submitted, finished, retired, fired>>

\* condition_.notify_all(), without mutex_.
ScheduleQuit ==
    /\ owner = "quit"
    /\ should_quit_' = TRUE
    /\ worker' = [w \in Workers |->
                    IF worker[w] = "wait_sleep" THEN "wait_woken" ELSE worker[w]]
    /\ owner' = "join"
    /\ UNCHANGED <<tasks_, active_tasks_, completion_callback_, mutex_, task,
                   client, index, workers_, history>>

\* One turn of Stop's loop.  The std::threads stay in the vector when they have been
\* joined, and joinable() skips them from then on.
JoinWorker ==
    /\ owner = "join" /\ workers_ # <<>>
    /\ worker[Head(workers_)] = "exited"
    /\ workers_' = Tail(workers_)
    /\ UNCHANGED <<pool, worker, task, client, owner, index, history>>

StopReturns ==
    /\ owner = "join" /\ workers_ = <<>>
    /\ owner' = "idle"
    /\ UNCHANGED <<pool, worker, task, client, index, workers_, history>>
-----------------------------------------------------------------------------
(* EnqueueTask, by a client or by a task that is running                   *)

PushTask ==
    /\ mutex_ = Nobody /\ submitted < MaxTasks
    /\ tasks_' = Append(tasks_, submitted + 1)
    /\ active_tasks_' = active_tasks_ + 1
    /\ submitted' = submitted + 1
    /\ UNCHANGED <<should_quit_, completion_callback_, mutex_, task, owner,
                   index, workers_, finished, retired, fired, stops>>

EnqueueTask(c) ==
    /\ client[c] = "idle"
    /\ PushTask
    /\ client' = [client EXCEPT ![c] = "schedule"]
    /\ UNCHANGED worker

TaskEnqueuesTask(w) ==
    /\ worker[w] = "run"
    /\ PushTask
    /\ worker' = [worker EXCEPT ![w] = "schedule"]
    /\ UNCHANGED client

Sleeping == {w \in Workers : worker[w] = "wait_sleep"}

\* condition_.notify_one(): wakes one worker that is blocked, if there is one.
NotifyOne(points) ==
    IF Sleeping = {} THEN worker' = points
    ELSE \E v \in Sleeping : worker' = [points EXCEPT ![v] = "wait_woken"]

ScheduleWork(c) ==
    /\ client[c] = "schedule"
    /\ NotifyOne(worker)
    /\ client' = [client EXCEPT ![c] = "idle"]
    /\ UNCHANGED <<pool, task, owner, index, workers_, history>>

TaskSchedulesWork(w) ==
    /\ worker[w] = "schedule"
    /\ NotifyOne([worker EXCEPT ![w] = "run"])
    /\ UNCHANGED <<pool, task, client, owner, index, workers_, history>>
-----------------------------------------------------------------------------
(* WaitForAllTasks and the callback setters                                *)

\* One evaluation of the predicate of finished_.wait, with mutex_ taken.
TestAllDone(c) ==
    /\ mutex_ = Nobody
    /\ \/ /\ active_tasks_ = 0
          /\ client' = [client EXCEPT ![c] = "idle"]
          /\ UNCHANGED mutex_
       \/ /\ active_tasks_ # 0
          /\ client' = [client EXCEPT ![c] = "wait_block"]
          /\ mutex_' = c
    /\ UNCHANGED <<tasks_, active_tasks_, should_quit_, completion_callback_,
                   worker, task, owner, index, workers_, history>>

WaitForAllTasks(c) == client[c] = "idle" /\ TestAllDone(c)

\* The thread joins the wait set of finished_ and releases mutex_.
WaiterBlocks(c) ==
    /\ client[c] = "wait_block"
    /\ client' = [client EXCEPT ![c] = "wait_sleep"]
    /\ mutex_' = Nobody
    /\ UNCHANGED <<tasks_, active_tasks_, should_quit_, completion_callback_,
                   worker, task, owner, index, workers_, history>>

WaiterRetests(c) == client[c] = "wait_woken" /\ TestAllDone(c)

WaiterWakesSpuriously(c) ==
    /\ client[c] = "wait_sleep"
    /\ client' = [client EXCEPT ![c] = "wait_woken"]
    /\ UNCHANGED <<pool, worker, task, owner, index, workers_, history>>

ChangeCallback(c, cb) ==
    /\ client[c] = "idle" /\ mutex_ = Nobody
    /\ completion_callback_' = cb
    /\ UNCHANGED <<tasks_, active_tasks_, should_quit_, mutex_, threads, history>>

SetCompletionCallback(c, cb) == ChangeCallback(c, cb)
ClearCompletionCallback(c) == ChangeCallback(c, NoCallback)
-----------------------------------------------------------------------------
(* WorkerMain                                                              *)

LoopTop(w) ==
    /\ worker[w] = "loop"
    /\ worker' = [worker EXCEPT ![w] = IF should_quit_ THEN "exited" ELSE "wait"]
    /\ UNCHANGED <<pool, task, client, owner, index, workers_, history>>

\* condition_.wait_for takes mutex_ and tests its predicate.
WaitTest(w) ==
    /\ worker[w] \in {"wait", "wait_woken"} /\ mutex_ = Nobody
    /\ \/ /\ should_quit_ \/ tasks_ # <<>>
          /\ worker' = [worker EXCEPT ![w] = "peek"]
          /\ UNCHANGED mutex_
       \/ /\ ~should_quit_ /\ tasks_ = <<>>
          /\ worker' = [worker EXCEPT ![w] = "wait_block"]
          /\ mutex_' = w
    /\ UNCHANGED <<tasks_, active_tasks_, should_quit_, completion_callback_,
                   task, client, owner, index, workers_, history>>

WaitBlock(w) ==
    /\ worker[w] = "wait_block"
    /\ worker' = [worker EXCEPT ![w] = "wait_sleep"]
    /\ mutex_' = Nobody
    /\ UNCHANGED <<tasks_, active_tasks_, should_quit_, completion_callback_,
                   task, client, owner, index, workers_, history>>

\* Mutant: condition_.wait in place of wait_for.
WaitNeverTimesOut(w) == FALSE /\ UNCHANGED vars

\* After 200 ms wait_for returns whatever the predicate says.  It first takes
\* and releases mutex_; the next step, PeekTask, waits for mutex_ anyway.
WaitTimesOut(w) ==
    /\ worker[w] = "wait_sleep"
    /\ worker' = [worker EXCEPT ![w] = "peek"]
    /\ UNCHANGED <<pool, task, client, owner, index, workers_, history>>

WakesSpuriously(w) ==
    /\ worker[w] = "wait_sleep"
    /\ worker' = [worker EXCEPT ![w] = "wait_woken"]
    /\ UNCHANGED <<pool, task, client, owner, index, workers_, history>>

\* Mutant: the task is read and not popped.
PeekTaskKeepsFront(w) ==
    /\ worker[w] = "peek" /\ mutex_ = Nobody /\ tasks_ # <<>>
    /\ task' = [task EXCEPT ![w] = Head(tasks_)]
    /\ worker' = [worker EXCEPT ![w] = "recheck"]
    /\ UNCHANGED <<pool, client, owner, index, workers_, history>>

\* Mutant: active_tasks_ goes down when the task is popped, not when it is done.
PeekTaskCountsDown(w) ==
    /\ worker[w] = "peek" /\ mutex_ = Nobody /\ tasks_ # <<>>
    /\ task' = [task EXCEPT ![w] = Head(tasks_)]
    /\ tasks_' = Tail(tasks_)
    /\ active_tasks_' = active_tasks_ - 1
    /\ worker' = [worker EXCEPT ![w] = "recheck"]
    /\ UNCHANGED <<should_quit_, completion_callback_, mutex_, client, owner,
                   index, workers_, history>>

\* Mutant: a worker that finds no task goes on to the test for completion.
PeekTaskFallsThrough(w) ==
    /\ worker[w] = "peek" /\ mutex_ = Nobody /\ tasks_ = <<>>
    /\ worker' = [worker EXCEPT ![w] = "test"]
    /\ UNCHANGED <<pool, task, client, owner, index, workers_, history>>

PeekTask(w) ==
    /\ worker[w] = "peek" /\ mutex_ = Nobody
    /\ \/ /\ tasks_ = <<>>
          /\ worker' = [worker EXCEPT ![w] = "loop"]
          /\ UNCHANGED <<tasks_, task>>
       \/ /\ tasks_ # <<>>
          /\ task' = [task EXCEPT ![w] = Head(tasks_)]
          /\ tasks_' = Tail(tasks_)
          /\ worker' = [worker EXCEPT ![w] = "recheck"]
    /\ UNCHANGED <<active_tasks_, should_quit_, completion_callback_, mutex_,
                   client, owner, index, workers_, history>>

\* Mutant: the abandoned task is taken off the count as if it had run.
RecheckQuitCountsDown(w) ==
    /\ worker[w] = "recheck" /\ should_quit_
    /\ worker' = [worker EXCEPT ![w] = "exited"]
    /\ task' = [task EXCEPT ![w] = 0]
    /\ active_tasks_' = active_tasks_ - 1
    /\ UNCHANGED <<tasks_, should_quit_, completion_callback_, mutex_, client,
                   owner, index, workers_, history>>

\* The second test of should_quit_ abandons the task that was just popped, and
\* leaves it counted in active_tasks_.
RecheckQuit(w) ==
    /\ worker[w] = "recheck"
    /\ \/ /\ should_quit_
          /\ worker' = [worker EXCEPT ![w] = "exited"]
          /\ task' = [task EXCEPT ![w] = 0]
       \/ /\ ~should_quit_
          /\ worker' = [worker EXCEPT ![w] = "run"]
          /\ UNCHANGED task
    /\ UNCHANGED <<pool, client, owner, index, workers_, history>>

TaskReturns(w) ==
    /\ worker[w] = "run"
    /\ worker' = [worker EXCEPT ![w] = "retire"]
    /\ finished' = finished \cup {task[w]}
    /\ UNCHANGED <<pool, task, client, owner, index, workers_, submitted, retired,
                   fired, stops>>

\* Mutant: the count is not taken down.
RetireTaskUncounted(w) ==
    /\ worker[w] = "retire"
    /\ worker' = [worker EXCEPT ![w] = "test"]
    /\ retired' = retired \cup {task[w]}
    /\ task' = [task EXCEPT ![w] = 0]
    /\ UNCHANGED <<pool, client, owner, index, workers_, submitted, finished,
                   fired, stops>>

\* active_tasks_--, without mutex_.
RetireTask(w) ==
    /\ worker[w] = "retire"
    /\ worker' = [worker EXCEPT ![w] = "test"]
    /\ active_tasks_' = active_tasks_ - 1
    /\ retired' = retired \cup {task[w]}
    /\ task' = [task EXCEPT ![w] = 0]
    /\ UNCHANGED <<tasks_, should_quit_, completion_callback_, mutex_, client,
                   owner, index, workers_, submitted, finished, fired, stops>>

\* Mutant: the count is compared with 1, as if it had not gone down yet.
TestIdleTooEarly(w) ==
    /\ worker[w] = "test"
    /\ worker' = [worker EXCEPT
                    ![w] = IF active_tasks_ = 1 THEN "notify" ELSE "loop"]
    /\ UNCHANGED <<pool, task, client, owner, index, workers_, history>>

\* if (active_tasks_ == 0), a second access to the atomic.
TestIdle(w) ==
    /\ worker[w] = "test"
    /\ worker' = [worker EXCEPT
                    ![w] = IF active_tasks_ = 0 THEN "notify" ELSE "loop"]
    /\ UNCHANGED <<pool, task, client, owner, index, workers_, history>>

\* Mutant: finished_.notify_all() without mutex_.
NotifyFinishedUnlocked(w) ==
    /\ worker[w] = "notify"
    /\ worker' = [worker EXCEPT ![w] = "loop"]
    /\ client' = [c \in Clients |->
                    IF client[c] = "wait_sleep" THEN "wait_woken" ELSE client[c]]
    /\ UNCHANGED <<pool, task, owner, index, workers_, history>>

\* Takes mutex_ and keeps it over the callback; finished_.notify_all().
NotifyFinished(w) ==
    /\ worker[w] = "notify" /\ mutex_ = Nobody
    /\ mutex_' = w
    /\ worker' = [worker EXCEPT ![w] = "callback"]
    /\ client' = [c \in Clients |->
                    IF client[c] = "wait_sleep" THEN "wait_woken" ELSE client[c]]
    /\ UNCHANGED <<tasks_, active_tasks_, should_quit_, completion_callback_,
                   task, owner, index, workers_, history>>

InvokeCallback(w) ==
    /\ worker[w] = "callback"
    /\ worker' = [worker EXCEPT ![w] = "loop"]
    /\ mutex_' = Nobody
    /\ fired' = IF completion_callback_ = NoCallback THEN fired
                ELSE Append(fired, Cardinality(retired))
    /\ UNCHANGED <<tasks_, active_tasks_, should_quit_, completion_callback_,
                   task, client, owner, index, workers_, submitted, finished, retired,
                   stops>>
-----------------------------------------------------------------------------
OwnerStep == Start \/ StartReturns \/ Stop \/ ScheduleQuit \/ JoinWorker \/ StopReturns
             \/ \E w \in Workers : SpawnWorker(w)

ClientStep(c) ==
    \/ EnqueueTask(c) \/ ScheduleWork(c)
    \/ WaitForAllTasks(c) \/ WaiterBlocks(c) \/ WaiterRetests(c)
    \/ WaiterWakesSpuriously(c)
    \/ \E cb \in Callbacks : SetCompletionCallback(c, cb)
    \/ ClearCompletionCallback(c)

WorkerStep(w) ==
    \/ LoopTop(w) \/ WaitTest(w) \/ WaitBlock(w) \/ WaitTimesOut(w)
    \/ WakesSpuriously(w) \/ PeekTask(w) \/ RecheckQuit(w)
    \/ TaskEnqueuesTask(w) \/ TaskSchedulesWork(w) \/ TaskReturns(w)
    \/ RetireTask(w) \/ TestIdle(w) \/ NotifyFinished(w) \/ InvokeCallback(w)

Next == \/ OwnerStep
        \/ \E c \in Clients : ClientStep(c)
        \/ \E w \in Workers : WorkerStep(w)

Spec == Init /\ [][Next]_vars

(* Fairness.  A thread that can run does run, task and callback functions  *)
(* return, and the 200 ms of wait_for elapse: weak fairness.  mutex_ is    *)
(* only held briefly and each holder then blocks or works outside it, so a *)
(* thread that keeps asking for it gets it: strong fairness.               *)
WorkerRuns(w) ==
    \/ LoopTop(w) \/ WaitBlock(w) \/ WaitTimesOut(w) \/ RecheckQuit(w)
    \/ TaskSchedulesWork(w) \/ TaskReturns(w) \/ RetireTask(w) \/ TestIdle(w)
    \/ InvokeCallback(w)
WorkerLocks(w) == WaitTest(w) \/ PeekTask(w) \/ NotifyFinished(w)
OwnerRuns == StartReturns \/ ScheduleQuit \/ JoinWorker \/ StopReturns
             \/ \E w \in Workers : SpawnWorker(w)

Fairness ==
    /\ WF_vars(OwnerRuns)
    /\ \A w \in Workers : WF_vars(WorkerRuns(w)) /\ SF_vars(WorkerLocks(w))
    /\ \A c \in Clients : /\ WF_vars(ScheduleWork(c) \/ WaiterBlocks(c))
                          /\ SF_vars(WaiterRetests(c))

FairSpec == Spec /\ Fairness
-----------------------------------------------------------------------------
(* Safety                                                                  *)

Tasks == 1..submitted

\* The types of the pool's fields, the control points and the histories.
TypeOK ==
    /\ tasks_ \in Seq(Nat)
    /\ active_tasks_ \in Nat
    /\ should_quit_ \in BOOLEAN
    /\ completion_callback_ \in Callbacks \cup {NoCallback}
    /\ mutex_ \in Workers \cup Clients \cup {Nobody}
    /\ worker \in [Workers -> WorkerPoints]
    /\ task \in [Workers -> Nat]
    /\ client \in [Clients -> ClientPoints]
    /\ owner \in OwnerPoints
    /\ index \in 0..thread_num_
    /\ workers_ \in Seq(Workers)
    /\ submitted \in Nat
    /\ finished \in SUBSET Tasks
    /\ retired \in SUBSET Tasks
    /\ fired \in Seq(Nat)
    /\ stops \in Nat

\* What WaitForAllTasks returns on: active_tasks_ is zero only when the function
\* of every task that was ever enqueued has returned, tasks enqueued by tasks
\* included.
IdleMeansDone == active_tasks_ = 0 => finished = Tasks

\* No task is run twice: two workers never hold the same task, and a task that
\* is queued or held has not been retired.
NoTaskTwice ==
    /\ \A v, w \in Holding : v # w => task[v] # task[w]
    /\ \A w \in Holding :
        /\ task[w] \notin retired
        /\ task[w] \in finished <=> worker[w] = "retire"
    /\ \A i \in 1..Len(tasks_) : /\ tasks_[i] \notin finished
                                 /\ \A w \in Holding : tasks_[i] # task[w]

\* The tasks popped so far are 1..Popped: ids are given in the order of the
\* pushes, and PeekTask takes the front.
Popped == submitted - Len(tasks_)
HoldPoints == {"recheck", "run", "schedule", "retire"}

\* Where every task is, at every point of WorkerMain: queued in submission
\* order, held by exactly one worker between its pop and its retirement, or
\* finished; and active_tasks_ counts those submitted and not retired.
Accounting ==
    /\ Len(tasks_) <= submitted
    /\ \A i \in 1..Len(tasks_) : tasks_[i] = Popped + i
    /\ finished \subseteq 1..Popped
    /\ retired \subseteq finished
    /\ \A w \in Workers :
        /\ task[w] \in 0..Popped
        /\ task[w] # 0 <=> worker[w] \in HoldPoints
        /\ worker[w] = "retire" => task[w] \in finished
        /\ task[w] \in finished => worker[w] = "retire"
        /\ task[w] \notin retired
    /\ \A v, w \in Workers : v # w /\ task[v] = task[w] => task[v] = 0
    /\ active_tasks_ = submitted - Cardinality(retired)

\* Tasks popped by PeekTask and abandoned by the second test of should_quit_.
Stranded == active_tasks_ - (Len(tasks_) + Cardinality(Holding))

\* active_tasks_ is the number of queued and held tasks plus the tasks that a
\* Stop made a worker abandon, at most one for each worker and Stop.
StrandedBound ==
    /\ Len(tasks_) + Cardinality(Holding) <= active_tasks_
    /\ Stranded <= Cardinality(Workers) * stops

\* When Stop has returned, and until the next Start, no worker is left, so no task
\* and no callback runs: workers_, which is all that Stop joins, has every thread
\* that any Start since the last Stop created.
StopJoins == owner = "idle" /\ should_quit_ => Live = {}

\* Every retired task leads to at most one call of the completion callback.
OneCallPerTask ==
    Len(fired)
      + Cardinality({w \in Workers : worker[w] \in {"test", "notify", "callback"}})
    <= Cardinality(retired)
-----------------------------------------------------------------------------
(* Liveness, under FairSpec                                                *)

Waiting(c) == client[c] \in {"wait_block", "wait_sleep", "wait_woken"}

\* Unless the pool is stopped, WaitForAllTasks of a client returns once the pool
\* has workers: neither the notification of a task nor that of the last
\* completion is lost.
WaitersReturn ==
    \A c \in Clients :
        (Waiting(c) /\ Live # {}) ~> (client[c] = "idle" \/ stops > 0)

\* The last completion is reported: when no more tasks come, some task is still
\* counted and the callback stays set, it is called with every task retired,
\* unless the pool is stopped.
LastBatchReported ==
    [](submitted = MaxTasks /\ active_tasks_ > 0 /\ Live # {}
         /\ [](completion_callback_ # NoCallback)
       => <>(stops > 0 \/ (fired # <<>> /\ fired[Len(fired)] = MaxTasks)))

\* Stop returns although it notifies without mutex_, so that a worker about to
\* block misses the notification.
StopTerminates == owner = "quit" ~> owner = "idle"
-----------------------------------------------------------------------------
(* What comments and tests say and the code does not ensure                *)

\* thread_pool.h:36 describes GetActiveTaskCount as the number of currently
\* active tasks: those queued or being run.
ActiveCountIsCurrent == active_tasks_ = Len(tasks_) + Cardinality(Holding)

\* One call for one batch: thread_pool_test.cc:175 expects one call after five
\* tasks.
CallbackOncePerBatch ==
    \A i, j \in 1..Len(fired) : i # j => fired[i] # fired[j]
=============================================================================
