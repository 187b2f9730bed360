----------------------------- MODULE ThreadPool -----------------------------
(***************************************************************************)
(* The thread pool of clagent (src/src/ca_threadpool.c): threads that wait *)
(* for tasks on a condition variable and leave after two idle minutes, and *)
(* the calls of the threads that use the pool.                             *)
(*                                                                         *)
(* Each critical section of pool->mutex is one action.  A wait on a        *)
(* condition variable ends in two steps: the thread is woken, or its time  *)
(* is up, and later it gets the mutex back.  In between others may run.    *)
(* Broadcasts come after the mutex is released, as in the code.            *)
(***************************************************************************)
EXTENDS Integers, FiniteSets

CONSTANTS
  Threads,      \* the threads that may exist at once: a bound of the model
  Callers,      \* the threads that call the pool's functions
  Tasks,        \* the tasks that may be added, each once
  Priority,     \* their priorities; the heap's root is the smallest
  NoTask,       \* t == NULL
  InitThreads,  \* threads created with the pool
  MaxThreads,   \* threads_max
  Spurious,     \* waits may end without a broadcast, as POSIX allows
  SlowCreate    \* a thread's two idle minutes may end while create still runs

ASSUME ThreadsAssumption == IsFiniteSet(Threads)
ASSUME TasksAssumption   == NoTask \notin Tasks /\ Priority \in [Tasks -> Int]
ASSUME SizesAssumption   == /\ MaxThreads \in Nat
                            /\ InitThreads \subseteq Threads
                            /\ Cardinality(InitThreads) \in 1..MaxThreads
ASSUME SwitchesAssumption == Spurious \in BOOLEAN /\ SlowCreate \in BOOLEAN

VARIABLES
  pc,           \* where each pool thread stands; "gone" before and after
  task,         \* the task each of them holds
  cpc,          \* where each caller stands
  timed,        \* whether its wait has a timeout
  queue,        \* task_queue
  exit,         \* pool->exit
  idle, num,    \* threads_idle, threads_num
  starting,     \* the first threads create has still to start
  unset,        \* the counters create has still to write
  spoilt,       \* history: the counters a thread changed while still unset
  freed,        \* the pool has been destroyed
  done, dropped \* history: tasks that ran, tasks cleared or never run

counters == <<idle, num>>
creation == <<starting, unset, spoilt>>
callers  == <<cpc, timed>>
tasks    == <<queue, done, dropped>>
vars     == <<pc, task, callers, tasks, exit, counters, creation, freed>>

At(t, place) == ~freed /\ pc[t] = place
Goto(t, to)  == pc' = [pc EXCEPT ![t] = to]

CallerAt(c, place) == ~freed /\ cpc[c] = place
CallerGoto(c, to)  == cpc' = [cpc EXCEPT ![c] = to]

\* Everybody who waits on a condition variable is woken.
Wake(places, waiting, woken) ==
  [x \in DOMAIN places |-> IF places[x] = waiting THEN woken ELSE places[x]]

\* Mutant: the order of the heap is ignored.
RootAny(k) == k \in queue

\* ca_heap_remove(&pool->task_queue, 0)
Root(k) == k \in queue /\ \A j \in queue : Priority[k] <= Priority[j]
-----------------------------------------------------------------------------
(***************************************************************************)
(* ca_threadpool_create.  It starts the first threads and only then, and   *)
(* without the mutex, writes the counters, in the order the compiler       *)
(* likes.  A thread may change them before, by a spurious wake-up or when  *)
(* its two minutes are over: the change is overwritten, or the write falls *)
(* between the thread's load and its store and is lost itself.             *)
(***************************************************************************)
Counters == {"idle", "num"}

StartThread(t) ==
  /\ t \in starting /\ starting' = starting \ {t}
  /\ Goto(t, "loop")
  /\ UNCHANGED <<task, callers, tasks, exit, counters, unset, spoilt, freed>>

WriteCounter(c) ==
  /\ starting = {} /\ c \in unset /\ unset' = unset \ {c}
  /\ idle' = IF c = "idle" THEN Cardinality(InitThreads) ELSE idle
  /\ num'  = IF c = "num"  THEN Cardinality(InitThreads) ELSE num
  /\ UNCHANGED <<pc, task, callers, tasks, exit, starting, spoilt, freed>>

Create == (\E t \in Threads : StartThread(t)) \/ (\E c \in Counters : WriteCounter(c))

Created == starting = {} /\ unset = {}

\* A thread loads the counters cs, changes and stores them.
Changes(cs) ==
  /\ spoilt' = spoilt \cup (cs \cap unset)
  /\ \E lost \in SUBSET (cs \cap unset) :
       (lost # {} => starting = {}) /\ unset' = unset \ lost
-----------------------------------------------------------------------------
(***************************************************************************)
(* ca_thread_loop.                                                         *)
(***************************************************************************)
\* A step that only moves the thread on.
Moves(t, from, to) ==
  /\ At(t, from) /\ Goto(t, to)
  /\ UNCHANGED <<task, callers, tasks, exit, counters, creation, freed>>

\* while (!pool->exit): read without the mutex.
Look(t) == Moves(t, "loop", IF exit THEN "leave" ELSE "enter")

\* The loop around the wait: it is entered only when the queue is empty.
EnterWait(t) == queue = {} /\ Moves(t, "enter", "wait")

SpuriousWake(t) == Spurious /\ Moves(t, "wait", "woken")

\* Mutant: the thread waits for another two minutes.
TimeUpAgain(t) == Moves(t, "wait", "enter")

\* The two minutes are over; the mutex has yet to be got back.
TimeUp(t) == (SlowCreate \/ Created) /\ Moves(t, "wait", "late")

\* A task, or NULL: a thread that was woken does not look at the queue again,
\* and another one may have emptied it.
Take(t) ==
  /\ \/ At(t, "enter") /\ queue # {}
     \/ At(t, "woken") /\ ~exit
  /\ \/ \E k \in Tasks : /\ Root(k)
                         /\ task' = [task EXCEPT ![t] = k]
                         /\ queue' = queue \ {k}
     \/ queue = {} /\ UNCHANGED <<task, queue>>
  /\ idle' = idle - 1 /\ Changes({"idle"})
  /\ Goto(t, IF queue' = {} THEN "announce" ELSE "run")
  /\ UNCHANGED <<callers, done, dropped, exit, num, starting, freed>>

\* The queue is empty: whoever waits for that in task_over is woken.
Announce(t) ==
  /\ At(t, "announce") /\ Goto(t, "run")
  /\ cpc' = Wake(cpc, "over_wait", "over_woken")
  /\ UNCHANGED <<task, timed, tasks, exit, counters, creation, freed>>

\* t->func(t->arg) returns; the pool is not touched meanwhile.
Run(t) ==
  /\ At(t, "run") /\ Goto(t, "back")
  /\ done' = done \cup ({task[t]} \ {NoTask})
  /\ task' = [task EXCEPT ![t] = NoTask]
  /\ UNCHANGED <<callers, queue, dropped, exit, counters, creation, freed>>

Back(t) ==
  /\ At(t, "back") /\ Goto(t, "loop")
  /\ idle' = idle + 1 /\ Changes({"idle"})
  /\ UNCHANGED <<task, callers, tasks, exit, num, starting, freed>>

\* Mutant: a thread that leaves still counts as idle.
LeaveCountsNum == num' = num - 1 /\ UNCHANGED idle

LeaveCounts == num' = num - 1 /\ idle' = idle - 1

\* Mutant: tosignal is inverted.
NotLast == num' # 0

Last == num' = 0

\* EXIT: is reached with exit set, or when the time is up, whatever has been
\* queued in the meantime.
Leave(t) ==
  /\ \/ At(t, "leave") \/ At(t, "late")
     \/ At(t, "woken") /\ exit
  /\ LeaveCounts /\ Changes(Counters)
  /\ Goto(t, IF Last THEN "farewell" ELSE "gone")
  /\ UNCHANGED <<task, callers, tasks, exit, starting, freed>>

\* The last thread wakes whoever waits in destroy.
Farewell(t) ==
  /\ At(t, "farewell") /\ Goto(t, "gone")
  /\ cpc' = Wake(cpc, "destroy_wait", "destroy_woken")
  /\ UNCHANGED <<task, timed, tasks, exit, counters, creation, freed>>

Thread(t) == \/ Look(t) \/ EnterWait(t) \/ Take(t)
             \/ Announce(t) \/ Run(t) \/ Back(t) \/ Leave(t) \/ Farewell(t)
-----------------------------------------------------------------------------
(***************************************************************************)
(* The calls.  A pool that is being destroyed is not used any more, and    *)
(* nobody destroys it while another call is under way.                     *)
(***************************************************************************)
Destroying == \E c \in Callers : cpc[c] \in {"destroy_wait", "destroy_woken"}

\* The pool is known to its callers only once create has returned.
Begins(c) == CallerAt(c, "idle") /\ ~Destroying /\ Created

\* Mutant: the waiting threads are woken only when none counts as idle.
AddWakesWhenBusy == queue = {} /\ idle = 0

\* tosignal
AddWakes == queue = {}

\* A thread is created when none is idle and there may be one more.
AddCreates == idle = 0 /\ num < MaxThreads

NewThread(t) == Goto(t, "loop") /\ idle' = idle + 1 /\ num' = num + 1

\* ca_threadpool_add_task.
AddTask(c) ==
  /\ Begins(c)
  /\ \E k \in Tasks \ (queue \cup done \cup dropped \cup {task[t] : t \in Threads}) :
       queue' = queue \cup {k}
  /\ IF AddCreates THEN \E t \in Threads : pc[t] = "gone" /\ NewThread(t)
                   ELSE UNCHANGED <<pc, counters>>
  /\ CallerGoto(c, IF AddWakes THEN "broadcast" ELSE "idle")
  /\ UNCHANGED <<task, timed, done, dropped, exit, creation, freed>>

\* The heap cannot grow: -1, and the thread that was created stays.
AddFails(c) ==
  /\ Begins(c)
  /\ AddCreates
  /\ \E t \in Threads : pc[t] = "gone" /\ NewThread(t)
  /\ UNCHANGED <<task, callers, tasks, exit, creation, freed>>

\* ca_threadpool_clear_task_queue wakes nobody.
Clear(c) ==
  /\ Begins(c)
  /\ queue # {}
  /\ queue' = {}
  /\ dropped' = dropped \cup queue
  /\ UNCHANGED <<pc, task, callers, done, exit, counters, creation, freed>>

\* ca_threadpool_exit.
Exit(c) ==
  /\ Begins(c)
  /\ exit' = TRUE
  /\ CallerGoto(c, "broadcast")
  /\ UNCHANGED <<pc, task, timed, tasks, counters, creation, freed>>

\* The broadcast of add_task and exit.
Broadcast(c) ==
  /\ CallerAt(c, "broadcast") /\ CallerGoto(c, "idle")
  /\ pc' = Wake(pc, "wait", "woken")
  /\ UNCHANGED <<task, timed, tasks, exit, counters, creation, freed>>

\* A step of a call that waits, or stops waiting.
CallMoves(c, from, to) ==
  /\ CallerAt(c, from) /\ CallerGoto(c, to)
  /\ timed' = [timed EXCEPT ![c] = IF to = "idle" THEN FALSE ELSE timed[c]]
  /\ UNCHANGED <<pc, task, tasks, exit, counters, creation, freed>>

\* A call begins to wait, with a timeout or without.
CallWaits(c, to) ==
  /\ Begins(c) /\ CallerGoto(c, to)
  /\ \E b \in BOOLEAN : timed' = [timed EXCEPT ![c] = b]
  /\ UNCHANGED <<pc, task, tasks, exit, counters, creation, freed>>

\* ca_threadpool_task_over with block set; without, it only looks.
TaskOver(c) == queue # {} /\ CallWaits(c, "over_wait")

\* Woken with a timeout it returns 0, without one it looks at the queue again.
OverReturns(c) == timed[c] \/ queue = {}
TaskOverWoken(c) ==
  CallMoves(c, "over_woken", IF OverReturns(c) THEN "idle" ELSE "over_wait")

\* ca_threadpool_destroy with block set, while there are threads.
Alone(c) == \A d \in Callers \ {c} : cpc[d] = "idle"

DestroyWaits(c) == exit /\ num # 0 /\ Alone(c) /\ CallWaits(c, "destroy_wait")

\* CONT: reached with no thread left, or after any wake-up.
Destroy(c) ==
  /\ \/ Begins(c) /\ exit /\ num = 0 /\ Alone(c)
     \/ CallerAt(c, "destroy_woken")
  /\ freed' = TRUE
  /\ dropped' = dropped \cup queue
  /\ queue' = {}
  /\ CallerGoto(c, "idle")
  /\ UNCHANGED <<pc, task, timed, done, exit, counters, creation>>

CallTimesOut(c) ==
  /\ timed[c]
  /\ CallMoves(c, "over_wait", "idle") \/ CallMoves(c, "destroy_wait", "idle")

SpuriousCallWake(c) ==
  /\ Spurious
  /\ \/ CallMoves(c, "over_wait", "over_woken")
     \/ CallMoves(c, "destroy_wait", "destroy_woken")

\* What a call does by itself once it has begun.
CallGoesOn(c) == \/ Broadcast(c) \/ TaskOverWoken(c) \/ CallTimesOut(c)
                 \/ CallerAt(c, "destroy_woken") /\ Destroy(c)

Call(c) == \/ AddTask(c) \/ AddFails(c) \/ Clear(c) \/ Exit(c)
           \/ Broadcast(c) \/ TaskOver(c) \/ TaskOverWoken(c)
           \/ DestroyWaits(c) \/ Destroy(c) \/ CallTimesOut(c)
-----------------------------------------------------------------------------
Init == /\ pc = [t \in Threads |-> "gone"]
        /\ task = [t \in Threads |-> NoTask]
        /\ cpc = [c \in Callers |-> "idle"]
        /\ timed = [c \in Callers |-> FALSE]
        /\ queue = {} /\ done = {} /\ dropped = {}
        /\ exit = FALSE /\ freed = FALSE
        /\ idle = 0 /\ num = 0
        /\ starting = InitThreads /\ unset = Counters /\ spoilt = {}

Next == \/ Create
        \/ \E t \in Threads : Thread(t) \/ TimeUp(t) \/ SpuriousWake(t)
        \/ \E c \in Callers : Call(c) \/ SpuriousCallWake(c)

Spec == Init /\ [][Next]_vars

\* Every thread is scheduled, tasks end, a call that has begun goes on, its
\* timeout included.  Nobody has to begin a call.  The idle time of a thread
\* is long: only properties that say so count on its end.
Fairness == /\ \A t \in Threads : WF_vars(Thread(t))
            /\ \A c \in Callers : WF_vars(CallGoesOn(c))

FairSpec == Spec /\ Fairness

IdleTimeEnds == \A t \in Threads : WF_vars(TimeUp(t))
-----------------------------------------------------------------------------
Counted == {t \in Threads : pc[t] \notin {"gone", "farewell"}}
Busy    == {t \in Threads : pc[t] \in {"announce", "run", "back"}}

PlacesOK ==
  /\ pc \in [Threads -> {"loop", "enter", "wait", "woken", "late", "announce",
                         "run", "back", "leave", "farewell", "gone"}]
  /\ task \in [Threads -> Tasks \cup {NoTask}]
  /\ cpc \in [Callers -> {"idle", "broadcast", "over_wait", "over_woken",
                          "destroy_wait", "destroy_woken"}]
  /\ timed \in [Callers -> BOOLEAN]
  /\ queue \subseteq Tasks /\ done \subseteq Tasks /\ dropped \subseteq Tasks
  /\ exit \in BOOLEAN /\ freed \in BOOLEAN
  /\ starting \subseteq InitThreads
  /\ unset \subseteq Counters /\ spoilt \subseteq Counters

\* Create has written the counter, and no thread had touched it before.
Kept(c) == c \notin unset \cup spoilt

\* The type invariant: among other things a counter, signed in the code, stays
\* between 0 and threads_max unless a thread changed it before create wrote it.
TypeOK ==
  /\ PlacesOK /\ idle \in Int /\ num \in Int
  /\ Kept("num") => num \in 0..MaxThreads
  /\ Kept("idle") => idle >= 0 /\ (Kept("num") => idle <= num)

\* The counters that decide when a thread is created and when the pool may be
\* destroyed say what the threads really do, from the moment create has
\* written them.  The one exception is a counter that a thread changed before
\* that: create writes it without the mutex (147-148), and it stays wrong.
CountersMatch ==
  /\ Kept("num")  => num = Cardinality(Counted)
  /\ Kept("idle") => idle = Cardinality(Counted \ Busy)

\* No wake-up is lost: when tasks wait and a thread sleeps, a broadcast is on
\* its way, although only an insertion into an empty queue causes one.
WaitersCovered ==
  (queue # {} /\ ~freed /\ \E t \in Threads : pc[t] = "wait")
    => \E c \in Callers : cpc[c] = "broadcast"

\* Where a task stands.
Standing == [k \in Tasks |->
               CASE k \in queue -> "waiting"
                 [] k \in done -> "done"
                 [] k \in dropped -> "dropped"
                 [] \E t \in Threads : task[t] = k -> "running"
                 [] OTHER -> "new"]

Board == INSTANCE TaskBoard WITH status <- Standing

\* The threads, the queue and the counters implement the promise to those
\* who add tasks.
BoardSpec == Board!BoardSpec

\* A task that waits is taken, without anybody's idle time having to end, as
\* long as the pool has a thread and is not told to exit: a thread that leaves
\* without a look at the queue strands a task only when it is the last one.
TasksAreTaken ==
  \A k \in Tasks : k \in queue ~> (k \notin queue \/ exit \/ Counted = {})

\* Once the pool is told to exit every thread ends, those that miss the
\* broadcast and those that are created later included.
ExitEndsThreads ==
  IdleTimeEnds =>
    \A t \in Threads : (exit /\ pc[t] # "gone") ~> (freed \/ pc[t] = "gone")

\* A blocked ca_threadpool_destroy returns, even without a timeout: the last
\* thread never leaves between its look at threads_num and its wait.  Not so
\* when a thread left before create wrote threads_num: the count then never
\* reaches 0 with the last thread, and nobody wakes destroy.
DestroyReturns ==
  IdleTimeEnds =>
    \A c \in Callers : (cpc[c] = "destroy_wait" /\ "num" \notin spoilt)
                          ~> cpc[c] = "idle"

\* What the assertions on pthread_mutex_lock and pthread_cond_broadcast in
\* ca_threadpool.h need: no thread is left that will use the pool once
\* ca_threadpool_destroy has freed it.
FreedUntouched == freed => \A t \in Threads : pc[t] = "gone"
=============================================================================
