------------------------------ MODULE TaskLoop ------------------------------
(***************************************************************************)
(* base::TaskLoop (src/base/task/task_loop.cc).                            *)
(*                                                                         *)
(* One loop thread runs Run and DoWork; clients, and tasks while they run, *)
(* call PostTask; the owner calls Start, Stop and WaitTaskFinished (the    *)
(* constructor is a first Start, the destructor a last Stop).  A deque is  *)
(* a sequence here; LazilyDeallocatedDeque has its own module.             *)
(*                                                                         *)
(* Sections of incoming_task_mutex_ are single steps.  work_mutex_ guards  *)
(* no data: only the loop thread holds it over more than an instant, so it *)
(* needs no variable.  What matters is that Stop does not take it: the     *)
(* test of the wait predicate and the blocking of the thread are two       *)
(* steps, and Stop's notification may come between them.  Every read of    *)
(* should_quit_, a plain bool, is a step of its own.                       *)
(***************************************************************************)
EXTENDS Naturals, Sequences, FiniteSets

CONSTANTS
    Clients,    \* threads that call PostTask
    MaxTasks,   \* bound on the number of PostTask calls
    MaxStops    \* bound on the number of Stop calls

ASSUME LoopBounds == MaxTasks \in Nat /\ MaxStops \in Nat

VARIABLES
    incoming_task_queue_,
    work_queue_,
    should_quit_,
    loop,       \* control point of the loop thread, "none" when thread_ is null
    current,    \* DoWork's local: the task popped, 0 for none
    more,       \* Run's more_work_is_plausible
    client,     \* control point of each client
    owner,      \* control point of the owner
    posted,     \* history: PostTask calls so far; a task's number
    nulls,      \* history: the posted tasks whose func is null
    executed,   \* history: the tasks started, in order
    skipped,    \* history: the tasks popped and found null
    late,       \* history: tasks started since should_quit_ was last set
    stops       \* history: Stop calls so far

queues == <<incoming_task_queue_, work_queue_>>
tasks == <<posted, nulls, executed, skipped, late>>
vars == <<queues, should_quit_, loop, current, more, client, owner, tasks, stops>>

LoopPoints == {"none", "reload", "dispatch", "pop", "skip", "run", "notify",
    "check", "test", "block", "sleep", "woken", "returned"}

\* The state the constructor leaves: the thread is created.
Init ==
    /\ incoming_task_queue_ = <<>>
    /\ work_queue_ = <<>>
    /\ should_quit_ = FALSE
    /\ loop = "reload"
    /\ current = 0
    /\ more = FALSE
    /\ client = [c \in Clients |-> "idle"]
    /\ owner = "idle"
    /\ posted = 0
    /\ nulls = {}
    /\ executed = <<>>
    /\ skipped = {}
    /\ late = 0
    /\ stops = 0
-----------------------------------------------------------------------------
(* PostTask, by a client or by the task that is running                    *)

\* Mutant: push_front in place of push_back.
PushFront(isNull) ==
    /\ posted < MaxTasks
    /\ posted' = posted + 1
    /\ incoming_task_queue_' = <<posted + 1>> \o incoming_task_queue_
    /\ nulls' = IF isNull THEN nulls \cup {posted + 1} ELSE nulls
    /\ UNCHANGED <<work_queue_, should_quit_, current, more, owner, executed,
                   skipped, late, stops>>

\* isNull: the task's std::function is empty.
Push(isNull) ==
    /\ posted < MaxTasks
    /\ posted' = posted + 1
    /\ incoming_task_queue_' = Append(incoming_task_queue_, posted + 1)
    /\ nulls' = IF isNull THEN nulls \cup {posted + 1} ELSE nulls
    /\ UNCHANGED <<work_queue_, should_quit_, current, more, owner, executed,
                   skipped, late, stops>>

PostTask(c) ==
    /\ client[c] = "idle"
    /\ \E isNull \in BOOLEAN : Push(isNull)
    /\ client' = [client EXCEPT ![c] = "notify"]
    /\ UNCHANGED loop

TaskPostsTask ==
    /\ loop = "run"
    /\ \E isNull \in BOOLEAN : Push(isNull)
    /\ loop' = "notify"
    /\ UNCHANGED client

\* work_cv_.notify_one() and notify_all(): the loop is the only waiter.
Woken == IF loop = "sleep" THEN "woken" ELSE loop

PostNotifies(c) ==
    /\ client[c] = "notify"
    /\ loop' = Woken
    /\ client' = [client EXCEPT ![c] = "idle"]
    /\ UNCHANGED <<queues, should_quit_, current, more, owner, tasks, stops>>

TaskPostNotifies ==
    /\ loop = "notify"
    /\ loop' = "run"
    /\ UNCHANGED <<queues, should_quit_, current, more, client, owner, tasks, stops>>
-----------------------------------------------------------------------------
(* Run and DoWork                                                          *)

Goto(from, to) ==
    /\ loop = from
    /\ loop' = to
    /\ UNCHANGED <<client, owner, stops>>

\* Mutant: the incoming queue is moved over the work queue, not swapped with it.
ReloadOverwrites ==
    /\ Goto("reload", "dispatch")
    /\ IF incoming_task_queue_ # <<>>
       THEN /\ incoming_task_queue_' = <<>>
            /\ work_queue_' = incoming_task_queue_
       ELSE UNCHANGED queues
    /\ UNCHANGED <<should_quit_, current, more, tasks>>

\* Mutant: the incoming tasks are put in front of the work that is left.
ReloadInFront ==
    /\ Goto("reload", "dispatch")
    /\ incoming_task_queue_' = <<>>
    /\ work_queue_' = incoming_task_queue_ \o work_queue_
    /\ UNCHANGED <<should_quit_, current, more, tasks>>

\* MaybeShrinkQueue keeps the elements.  The swap happens also when tasks are
\* left in work_queue_.
ReloadWorkQueue ==
    /\ Goto("reload", "dispatch")
    /\ IF incoming_task_queue_ # <<>>
       THEN /\ incoming_task_queue_' = work_queue_
            /\ work_queue_' = incoming_task_queue_
       ELSE UNCHANGED queues
    /\ UNCHANGED <<should_quit_, current, more, tasks>>

\* DoWork returns false when there is no work, and true when it is to quit.
Dispatch ==
    /\ \/ /\ work_queue_ = <<>>
          /\ Goto("dispatch", "check") /\ more' = FALSE
       \/ /\ work_queue_ # <<>> /\ should_quit_
          /\ Goto("dispatch", "check") /\ more' = TRUE
       \/ /\ work_queue_ # <<>> /\ ~should_quit_
          /\ Goto("dispatch", "pop") /\ UNCHANGED more
    /\ UNCHANGED <<queues, should_quit_, current, tasks>>

\* Mutant: the test for a null function is inverted.
PopTaskInverted ==
    /\ loop = "pop" /\ Head(work_queue_) \notin nulls
    /\ Goto("pop", "skip")
    /\ work_queue_' = Tail(work_queue_)
    /\ skipped' = skipped \cup {Head(work_queue_)}
    /\ UNCHANGED <<incoming_task_queue_, should_quit_, current, more, posted,
                   nulls, executed, late>>

PopTask ==
    /\ loop = "pop"
    /\ work_queue_' = Tail(work_queue_)
    /\ LET t == Head(work_queue_) IN
       \/ /\ t \in nulls
          /\ Goto("pop", "skip")
          /\ skipped' = skipped \cup {t}
          /\ UNCHANGED <<current, executed, late>>
       \/ /\ t \notin nulls
          /\ Goto("pop", "run")
          /\ current' = t
          /\ executed' = Append(executed, t)
          /\ late' = IF should_quit_ THEN late + 1 ELSE late
          /\ UNCHANGED skipped
    /\ UNCHANGED <<incoming_task_queue_, should_quit_, more, posted, nulls>>

\* Past a null task DoWork looks at should_quit_ and at the rest of work_queue_.
SkipNull ==
    /\ \/ /\ should_quit_
          /\ Goto("skip", "check") /\ more' = TRUE
       \/ /\ ~should_quit_ /\ work_queue_ # <<>>
          /\ Goto("skip", "pop") /\ UNCHANGED more
       \/ /\ ~should_quit_ /\ work_queue_ = <<>>
          /\ Goto("skip", "reload") /\ UNCHANGED more
    /\ UNCHANGED <<queues, should_quit_, current, tasks>>

\* Mutant: DoWork goes on with the work queue and does not look at should_quit_.
TaskReturnsToPop ==
    /\ Goto("run", IF work_queue_ = <<>> THEN "check" ELSE "pop")
    /\ current' = 0
    /\ more' = TRUE
    /\ UNCHANGED <<queues, should_quit_, tasks>>

TaskReturns ==
    /\ Goto("run", "check")
    /\ current' = 0
    /\ more' = TRUE
    /\ UNCHANGED <<queues, should_quit_, tasks>>

\* Mutant: Run waits although DoWork found work.
CheckQuitAlwaysWaits ==
    /\ Goto("check", IF should_quit_ THEN "returned" ELSE "test")
    /\ UNCHANGED <<queues, should_quit_, current, more, tasks>>

CheckQuit ==
    /\ Goto("check", IF should_quit_ THEN "returned"
                     ELSE IF more THEN "reload" ELSE "test")
    /\ UNCHANGED <<queues, should_quit_, current, more, tasks>>

\* Mutant: the predicate looks at the incoming queue only.
WaitTestForTask(from) ==
    /\ Goto(from, IF incoming_task_queue_ # <<>> THEN "reload" ELSE "block")
    /\ UNCHANGED <<queues, should_quit_, current, more, tasks>>

\* The predicate of work_cv_.wait: should_quit_, and not the queues.
WaitTest(from) ==
    /\ Goto(from, IF should_quit_ THEN "reload" ELSE "block")
    /\ UNCHANGED <<queues, should_quit_, current, more, tasks>>

WaitBlock ==
    /\ Goto("block", "sleep")
    /\ UNCHANGED <<queues, should_quit_, current, more, tasks>>

WakesSpuriously ==
    /\ Goto("sleep", "woken")
    /\ UNCHANGED <<queues, should_quit_, current, more, tasks>>
-----------------------------------------------------------------------------
(* Start, Stop and WaitTaskFinished                                        *)

\* Start leaves a thread that is there alone.
Start ==
    /\ owner = "idle"
    /\ should_quit_' = FALSE
    /\ late' = 0
    /\ loop' = IF loop = "none" THEN "reload" ELSE loop
    /\ UNCHANGED <<queues, current, more, client, owner, posted, nulls, executed,
                   skipped, stops>>

\* WaitTaskFinished tries work_mutex_, changes nothing, and is then Stop.
Stop ==
    /\ owner = "idle" /\ stops < MaxStops
    /\ should_quit_' = TRUE
    /\ owner' = "notify"
    /\ stops' = stops + 1
    /\ UNCHANGED <<queues, loop, current, more, client, tasks>>

\* work_cv_.notify_all(), without work_mutex_.
StopNotifies ==
    /\ owner = "notify"
    /\ loop' = Woken
    /\ owner' = "join"
    /\ UNCHANGED <<queues, should_quit_, current, more, client, tasks, stops>>

StopReturns ==
    /\ owner = "join" /\ loop \in {"returned", "none"}
    /\ loop' = "none"
    /\ owner' = "idle"
    /\ UNCHANGED <<queues, should_quit_, current, more, client, tasks, stops>>
-----------------------------------------------------------------------------
LoopStep ==
    \/ ReloadWorkQueue \/ Dispatch \/ PopTask \/ SkipNull \/ TaskReturns
    \/ CheckQuit \/ WaitTest("test") \/ WaitBlock \/ WaitTest("woken")
    \/ TaskPostNotifies

Next ==
    \/ \E c \in Clients : PostTask(c) \/ PostNotifies(c)
    \/ LoopStep \/ TaskPostsTask \/ WakesSpuriously
    \/ Start \/ Stop \/ StopNotifies \/ StopReturns

Spec == Init /\ [][Next]_vars

\* Every thread that can run runs and every task returns.  work_cv_ may wake its
\* waiter spuriously and need not.
Fairness ==
    /\ WF_vars(LoopStep)
    /\ WF_vars(StopNotifies \/ StopReturns)
    /\ \A c \in Clients : WF_vars(PostNotifies(c))

FairSpec == Spec /\ Fairness
-----------------------------------------------------------------------------
(* Safety                                                                  *)

Elements(s) == {s[i] : i \in 1..Len(s)}
Increasing(s) == \A i, j \in 1..Len(s) : i < j => s[i] < s[j]
Pending == Elements(incoming_task_queue_) \cup Elements(work_queue_)

\* The types of the loop's fields, the control points and the histories.
TypeOK ==
    /\ incoming_task_queue_ \in Seq(Nat)
    /\ work_queue_ \in Seq(Nat)
    /\ should_quit_ \in BOOLEAN
    /\ loop \in LoopPoints
    /\ current \in Nat
    /\ more \in BOOLEAN
    /\ client \in [Clients -> {"idle", "notify"}]
    /\ owner \in {"idle", "notify", "join"}
    /\ posted \in Nat
    /\ nulls \subseteq 1..posted
    /\ executed \in Seq(Nat)
    /\ skipped \subseteq nulls
    /\ late \in Nat
    /\ stops \in Nat

\* No task is lost and none is run twice, whatever ReloadWorkQueue swaps: every
\* posted task is in one of the queues, was started once, or was skipped as null.
NothingLost ==
    /\ Pending \cup Elements(executed) \cup skipped = 1..posted
    /\ Elements(incoming_task_queue_) \cap Elements(work_queue_) = {}
    /\ Pending \cap (Elements(executed) \cup skipped) = {}
    /\ Elements(executed) \cap nulls = {}
    /\ \A i, j \in 1..Len(executed) : i # j => executed[i] # executed[j]

\* The tasks in one queue are in the order they were posted, so that only a task
\* of the other queue can overtake; also after a swap with tasks left.
QueuesInOrder == Increasing(incoming_task_queue_) /\ Increasing(work_queue_)

\* How far the order of execution may differ from the order of PostTask: before a
\* task starts, no more later ones start than there are tasks posted before it
\* plus one for every Stop, which can end DoWork between a swap and its pop.
OvertakingBounded ==
    \A t \in 1..posted :
        LET before == {i \in 1..Len(executed) :
                         \A j \in 1..i : executed[j] # t}
        IN  t \notin skipped =>
              Cardinality({i \in before : executed[i] > t}) < t + stops

\* At most one task starts after Stop has set should_quit_, however many tasks
\* are queued; when Stop has returned, and until the next Start, there is no
\* loop thread.
QuitIsPrompt ==
    /\ late <= 1
    /\ owner = "idle" /\ should_quit_ => loop = "none"
-----------------------------------------------------------------------------
(* Liveness, under FairSpec                                                *)

\* A task that ReloadWorkQueue moved to work_queue_ is started or skipped, unless
\* the loop is told to quit: no swap keeps it waiting for ever.
ReloadedTasksRun ==
    \A t \in 1..MaxTasks :
        t \in Elements(work_queue_) ~> (t \notin Pending \/ should_quit_)

\* Stop returns when its notification does not fall between the test of the wait
\* predicate and the blocking of the loop thread.
StopTerminates ==
    (owner = "join" /\ loop \notin {"block", "sleep"}) ~> owner = "idle"
-----------------------------------------------------------------------------
(* What comments say and the code does not ensure                          *)

\* task_loop.cc:39 says that the loop waits for a task to arrive: a task that is
\* posted is started, unless the loop is told to quit.
PostedTasksRun ==
    \A t \in 1..MaxTasks :
        t \in Pending ~> (t \notin Pending \/ should_quit_)

\* task_loop.cc:91 says that Stop wakes up the thread if it is waiting: Stop
\* returns.
StopAlwaysTerminates == owner = "notify" ~> owner = "idle"
=============================================================================
