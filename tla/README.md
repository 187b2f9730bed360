# Verification of clagent

clagent is an agent for Linux servers, written in C. A master process forks
three children: *worker* (loads a module and runs its tasks), *update* (polls
for a new version) and *acquisition* (samples the machine and sends the
samples to collecting servers). This directory models the parts of it that are
hard to test, checks the models with TLC and proves properties of them with
TLAPS. Line numbers below refer to files under `src/src/`.

## 1. Inventory

| Component | Source | State | Operations | Hard because |
|---|---|---|---|---|
| master process | `clagent.c` 422-627, 717-844, 1214-1287 | `ca_processes`, `live`, `delay`, the flags `ca_reap`, `ca_quit`, `ca_terminate`, `ca_sigalrm`, `ca_change_binary` | create, reap and respawn children; terminate, quit; upgrade | deaths and signals in any order, merged signals, timer, failing fork |
| signals | `clagent.c` 1093-1211 | the flags, per process | `ca_signal_handler` | blocked in the master but for `sigsuspend` (SIGHUP never), unblocked in every thread of the acquisition process |
| acquisition process | `ca_acquisition.c` 61-429 | `task_queue`, `free_queue`, `ntask`, `nfree`; locals `json`, `data` of two threads | the queue helpers, the loops of three threads, teardown | three threads, two mutexes, a stop at any moment, allocation failures |
| sample delivery | `ca_acquisition.c` 432-742 | `fd`, `index` kept between calls | `ca_select_submit`, `ca_select_send_and_recv`, `tcp_*_timeout` | timeouts, lost answers, closed peers, retries over a ring of servers |
| thread pool | `ca_threadpool.c` | mutex, three condition variables, `exit`, `threads_idle`, `threads_num`, `task_queue` | create, add_task, clear, exit, task_over, destroy | waits without a second look at the condition, idle timeouts, teardown |
| heap | `ca_heap.c` | array `data`, `len`, `cap` | insert, remove, destroy | index arithmetic |
| worker process, module loader | `ca_worker.c`, `ca_so.c`, `ca_module.h` | `result_queue`, `task_pool`, symbols | load, submit task/result, get result | shared heap without a lock |
| update process | `ca_update.c` | `ca_new_version`, response buffer | fetch, compare, execute | a parser of versions, a child left running |
| daemon and pid file | `ca_daemon.c` | the pid file and its lock | create, lock, test, remove, rename | two instances starting together |
| configuration | `ca_conf.c`, `clagent.c` 78-420 | tokenizer state, block stack, slots | parse, include, typed slots | quotes, comments, buffer boundaries |
| samplers | `acq/*.c` | a cached record and its refresh time each | one handler per item | items share a record; counters accumulate |
| parsing helpers | `ca_util.c` | none | atoi, hextoi, parse_size, parse_time | boundaries, overflow |
| string, log, array | `ca_string.c`, `ca_log.c`, `ca_array.c` | small | formatting, output, growth | little |
| not part of the agent's logic | `ca_buf.c` (not compiled), `ca_queue.h` (BSD queue macros), `modules/sample` | | | |

**Interactions.** The master talks to its children with signals and learns of
them through SIGCHLD and `waitpid`. The children never talk to each other. In
the acquisition process the *acq* thread hands samples to the *submit* thread
through `task_queue`, gets emptied nodes back through `free_queue`, and the
*main* thread stops both: a signal handler sets a flag, each thread looks at
it at fixed points. The submit thread calls `ca_select_submit` for each sample.

**What makes each part correct.**

* *Master*: its table agrees with the kernel; dead children are replaced, but
  not once it quits; it does not leave its loop with children left; SIGTERM
  always ends it, SIGKILL is sent only after the grace period; a new binary
  and a staying master are never side by side.
* *Acquisition process*: nodes and samples are neither lost, doubled, shared
  nor leaked; samples leave in order; the pool is bounded; a stop ends it.
* *Delivery*: a sample is credited only when the right server confirmed this
  very sample; no dead descriptor is used; each server is tried once.
* *Thread pool*: every task runs once; the counters are right; exit and destroy
  end every thread.
* *Samplers*: what an item reports is the whole of what was measured for it
  since its last report, and no item falls silent for longer than the clock
  was set back by.
* *Heap*: what is put in comes out once, the least first.
* *Pid file*: one running instance. *Update*: an upgrade exactly when the
  versions differ, and no updater left behind. *Parser*: what is written is
  what is read, and what is broken is refused.

The hazards at each line are listed in `PROJECT.json`, with the properties
that would catch them.

## 2. Modules

| Module | Models | Checked by |
|---|---|---|
| `SampleChannel` | what the two queues of samples promise: a FIFO channel that is closed once | `acq`, as `ChannelSpec` |
| `AcqProcess` | the acquisition process | `acq`; `AcqProcess_proofs` |
| `Submit` | delivery of samples | `submit`; `Submit_proofs` |
| `Sampler` | the samplers of `acq/` under the rounds of `ca_acq_cycle` | `sampler`; `Sampler_proofs` |
| `Master` | the master process | `master`; `Master_proofs` |
| `TaskBoard` | what the thread pool promises about tasks | `pool`, as `BoardSpec` |
| `ThreadPool` | the thread pool | `pool`, `pool_freed`; `ThreadPool_proofs` |
| `PriorityBag` | what the heap promises: a bag that gives its least entry | `heap`, as `BagSpec` |
| `Heap` | the binary heap, cell by cell, a turn of its loops at a time | `heap`; `Heap_proofs` |
| `Update` | the update process and its updater | `update`, `version`; `Update_proofs` |
| `PidFile` | instances started and stopped side by side over one pid file | `start`, `start_race`; `PidFile_proofs` |
| `Conf` | tokenizer, parser, directives, numbers and times | `conf` |

How they fit together: `Master` starts the processes of `AcqProcess` and
`Update`; an instance that becomes a master in `PidFile` is one that `Master`
models, and that it ends after a SIGTERM is `TerminateExits`. `Sampler` is the
content of the action `AcqBuild` of `AcqProcess`, `Submit` that of
`SubSubmit`; that the latter returns, or spins in `recv` for ever, is
`CallReturns`. `Heap` is the queue
that `ThreadPool` takes for a set with the smallest task at its root, which
`BagSpec` allows it to.

The `MC*` modules only add the definitions the configurations need (inputs,
priorities, the list of children). Operators whose comment begins with
"Mutant" are wrong versions of the operator that follows them; no
specification uses them, they exist to show that each property can fail.

### AcqProcess

The variables `mpc`, `apc` and `spc` are the program counters of the three
threads. Between two looks at shared state each thread makes one step; each
critical section of `free_mutex` or `task_mutex` is one step, because nothing
inside it can be seen from outside. `freeq`/`nfree` and `taskq`/`ntask` are
the queues with the counters the code keeps beside them; `heap` is the set of
`ca_acq_data_t` cells allocated and not freed, `json` their member, `live` the
JSON objects not released. `ajson`, `anode` and `snode` are the locals `json`
and `data` of the threads. Samples are numbered by the order they are built
in, so order is visible. The actions follow the code from top to bottom; their
lines are in `PROJECT.json`. Four things the code really does are kept:

* The first stop check of `ca_acq_cycle` precedes the first assignment of
  `json`, and leads to `if (json) json_object_put(json)`. `AcqOverUnset`
  therefore lets the process go on or crash.
* `ca_acq_data_get` can return NULL and is dereferenced (`AcqGetFails`).
* `MainCheck` and the suspension are two steps with no signal blocked: a stop
  signal in between is noticed only when another signal comes.
* `SubSubmit` need not return: when the server closes the connection before
  three bytes of its answer have come, `recv` returns 0 and is called again at
  once, whatever the stop flags say (`ca_acquisition.c:704-729`). The submit
  thread then stands at `spin` for ever, and main at its join.

`Receivers` says which threads the kernel may run the handler in. POSIX leaves
it open; Linux picks the main thread whenever it does not block the signal.
`MCAcqProcess` covers both with a variable `linux` that is chosen at the start:
`ThreadsStop` must hold either way, `LinuxStops` where `linux` is TRUE.

### Submit

One variable `pc` follows the submit thread through `ca_select_submit` and
`ca_select_send_and_recv`. `fd`/`index` are the caller's variables,
`lfd`/`lindex` the locals; the pairs differ between calls exactly as in the
code. The network has per socket the samples under way (`up`), the answers
under way (`down`) and whether the peer closed (`eof`). The servers are the
environment: each whole sample is answered at most once, with "ok\n" or
something else, or never. `total` counts the bytes of the answer, because a
peer that closes after one or two bytes sends the code into an endless loop
(`recv` returns 0 and is called again): the state `spin`. Sockets that
`tcp_connect_timeout` returns an error for without closing them are collected
in `leaked`. History variables: `tried`, `sends`, `credit`.

### Master

The signals the master acts on are blocked outside `sigsuspend`, so a turn of
its loop is `Top` (delay and timer), `Suspend` (wake-up and handlers), `Reap`
and one of `Exit`, `Terminate`, `Quit`, `Idle`, `Upgrade`, `UpgradeFails`.
Between these steps children die, the timer fires and signals become pending;
a pending signal is not queued twice. SIGHUP is not in the blocked set, so
its handler may run after the wake-up with `ca_reap` still set and wait for
further children (`Hangup`). A slot holds the bits of `ca_process_t` and the
state of the process in the kernel (`os`), so that the two can be compared.
A child that is alive may hang; it then reacts to SIGKILL only. `delay` is not
doubled beyond 1600 ms, where the code's decision no longer depends on it.

### ThreadPool

`pc` says where each pool thread stands in `ca_thread_loop`, `cpc` where each
caller stands in a function of the pool. A critical section of `pool->mutex`
is one action; a wait on a condition variable is a place (`wait`, `over_wait`,
`destroy_wait`) that is left by a broadcast, by a timeout or, with
`Spurious`, by itself, and followed by a step that takes the mutex again. The
time between is where the code is delicate: a thread that was woken takes the
root of the heap without looking whether there is one, a thread whose time is
up (`late`) leaves without looking at the queue, and broadcasts happen after
the mutex is released (`broadcast`, `announce`, `farewell`). The heap is the
set of its tasks with the smallest priority at the root. A caller may do
anything but use a pool that is being destroyed, or destroy it while another
call is under way; tasks may be added after exit, as the code allows.

`ca_threadpool_create` is modelled too, as the first thing the pool does: it
starts the first threads one by one (`StartThread`, `starting`) and only then,
without the mutex, writes `threads_idle` and `threads_num` (`WriteCounter`,
`unset`). A thread that changes a counter before that spoils it: what it
changed is overwritten, or, when the write falls between its load and its
store, the write is lost (`Changes`). A spurious wake-up there leaves
`threads_idle` one too high for good, or too low. The history `spoilt` keeps
which counters that has happened to. A thread's two idle minutes may end while
`create` still runs only where `SlowCreate` is TRUE, as in the proofs.

`TaskBoard` is the promise to those who hand in tasks; `BoardSpec` says that
the pool implements it under the mapping written in `Standing`.

### Sampler

One of the six samplers is chosen at the start, with any frequency for each of
its items. A refresh (`Open`, then one of the `Read...` actions) happens inside
the handler of the first item that finds the record too old (`Stale`); the
clock ticks between any two steps and may be set back. A field is a number, -1
where there is nothing to report, and a measurement is one of -1 (a counter
that starts again at 0 gives a negative rate), 0 and 1. The code overwrites the
field (`Newest`), keeps the larger one (`Largest`, disks) or adds up (`Flow`,
network, where an interface that is measured lifts the flows of both sides to 0
and adds to its own). The samplers differ, and so do their actions: when the
refresh takes the time, whether it needs a baseline (`seen`), which items it has
something for, what it leaves when a file cannot be opened. Each handler is an
action that names the field it prints and the field it resets. Items that get
their value in the same way stand for each other. The history is what was
measured for an item since its own last report (`since`), which items the last
refresh left a value for (`fed`), how often in succession such an item said
nothing (`gaps`), and by how much the clock was set back in all (`behind`).

### Update

`pc` follows `ca_update_process_cycle`; signals are never blocked there, so
`Signal` is enabled between any two steps, and takes the process out of `wait`
and `sleep`. The updater is a child that has the handlers of its parent until
its `exec` (a SIGTERM before it is forgotten), and may or may not end by itself
(`ends`). A body is a sequence of components of hexadecimal digits, and the
arithmetic of `ca_need_update` and `ca_hextoi` is the code's, the missing last
component included; a word has 12 bits instead of 32, so that three digits wrap.
The fetch may hang: libcurl is given no timeout. SIGKILL, with which the master
follows up, ends the process at any point and is not part of the model.

### PidFile

An instance is identified with the file it creates; each system call of
`pid_file_running` and `pid_file_create` is a step, record locks included (a
read-only descriptor gets a read lock, since the write lock fails with EBADF).
The file an instance holds open (`fd`) and the one the path leads to (`path`)
are different things, which is the point of the model. `Crash` kills an
instance anywhere. The history `stolen` says that a file was removed that was
not the one found stale, or that belonged to an instance still at work. That a
pid named in an old file is given to an unrelated process, and failures of
`F_SETLKW` other than EBADF, are left out.

### Conf

The tokenizer reads one character a step (`ReadToken`, a disjunct per branch of
the code's loop) from a buffer that is refilled when it is used up; the parser's
recursion (`include`, `acq`) is the stack `calls`, and files included are a
stack of their own. Directives have one-letter names, so that a short buffer is
crossed at every place of a token; `*` stands for the characters of a pattern
that make `include` call `glob`. `settings` records what handlers have stored,
in order. An input is a text together with what it was written to say, built by
`MCConf` from meanings, not from the parser's rules; the six texts of `Misread`
are the exception, and carry what the code takes them for. `ca_atoi` and
`ca_parse_time` are functions over characters, with a word of 12 bits and a
`TimeMax` of 10^7 seconds.

### Heap

`data`, `len` and `cap` are the fields. `SiftDown` (towards the root, as the
code calls it) and `SiftUp` are one turn of the code's loops each; `call` says
which loop runs and on whose behalf, `k` is its local. Calls do not overlap, as
the pool makes them with its mutex locked. The abstract bag is the set of the
entries in use, which changes when a call begins; the turns of the loops are
stutters. Entries have pairs of equal priorities.

## 3. Runs

| Run | Question | Bounds | States |
|---|---|---|---|
| `acq` | Are nodes and samples conserved, released once and sent in order; what does a crash cost, what does an exit leave; do the threads end, does the process? | 2 nodes, pool of 1, 3 samples, 2 signals, POSIX and Linux | 440 000 |
| `submit` | Sockets, ring of servers, credit, duplicates; does every call return? | 3 servers, 2 descriptors, 2 samples | 484 000 |
| `sampler` | Is a report the whole of what was measured since the last one, and how long can an item be silent? | 6 samplers, frequencies 1 and 2, clock from 3 to 5, set back once, 1 failed file, measurements -1, 0, 1 | 1 135 000 |
| `master` | Table, exits, escalation, upgrade; do termination, quitting and respawning come to an end? | 2 children, table of 2, 2 signals, 2 crashes, 1 failed fork | 132 000 |
| `pool` | Counters, wake-ups, each task once and in order; are tasks taken, do threads end, does destroy return? | 2 threads of which 1 started by create, 2 callers, 2 tasks, spurious wake-ups | 343 000 |
| `pool_freed` | Can the pool be freed under a thread? (violated) | 3 threads of which 2 counted | stops early |
| `heap` | Is the heap a bag that gives its least entry? | 6 entries of 3 priorities, array from 1 cell, 1 failed realloc | 438 000 |
| `update` | Is an updater left behind or started for the own version; does a stop end the process? | 43 bodies, 3 signals, 1 failed fork, 3 slots | 50 000 |
| `version` | Does "same version" mean the same version? (violated) | as `update` | stops early |
| `start` | Do two masters need a stolen file, does one of the starters run, does a stop find the master? | 3 starts, 1 stop, 1 crash, 1 failed write | 811 000 |
| `start_race` | Can two instances both become masters? (violated) | 2 starts | stops early |
| `conf` | Is what was written what is set, and is what is broken refused? | about 1600 texts, buffers of 6, 9, 16, 64 bytes | 760 000 |

**Why the bounds are enough.** *acq*: with two nodes one is queued while the
other is filled, and memory is exhausted beyond that; three samples go round
both queues more than once and exceed the pool; two signals are a stop and the
one that repairs a stop lost before `sigsuspend`. The proofs lift these bounds.
*submit*: three servers make the ring different from a swap; two samples let a
connection be kept, fail and be replaced; a second descriptor remains when one
is lost. *master*: two children are deaths that merge into one SIGCHLD; the
table of 2 is full when an upgrade is asked for, and has room when one of the
forks failed; two signals are SIGQUIT and SIGTERM together. *sampler*: with
frequencies 1 and 2 a record is fresh for one item and stale for another; two
ticks, which a set-back can repeat, are two periods of the slower item, long
enough for two gaps of it and three of the faster one in succession;
measurements of both signs meet in one sum and one maximum. *pool*: two threads
compete for tasks while two callers let one add or clear as the other waits; a
thread that `create` starts may be woken before the counters are written, so
that `threads_idle` is spoilt in some behaviours and not in others.
`SlowCreate` is FALSE here, since two minutes are long for `create`, and TRUE
in `pool_freed`; only with it can `threads_num` be spoilt. The proofs hold for
both. `pool_freed` needs a third identity for a thread that has left the
counters and has yet to broadcast. *heap*: six entries fill three levels, so
that an entry passes two on its way, on both sides. *update*: three slots are
used up; three signals reach the wait, the test after it and the sleep.
*start*: two instances race, a third finds what they left. *conf*: 6 bytes are
fewer than most texts between two tokens, 64 more than any, 9 and 16 put the
end of the buffer inside words, escapes, comments and gaps.

**Fairness.** `AcqProcess`: weak fairness of each thread (the scheduler; a
sleep ends; a mutex is only ever held for a few instructions;
`ca_select_submit` returns or spins, see `CallReturns`) and of the delivery of
pending signals. `Submit`: weak fairness of the thread only, since every
`select` has a timeout; nothing is assumed of the servers. `Master`: weak
fairness of the master, of the armed timer, of the death of a child that was
sent SIGKILL, and of a child that was asked to stop and does not hang.
`ThreadPool`: weak fairness of the threads, of tasks ending, and of calls that
have begun; nobody has to call anything. That a thread's two idle minutes end
is assumed only by the properties that say so (`IdleTimeEnds`): a task must not
need it to be taken. `Update`: weak fairness of the process, of the updater's
`exec`, of its death once it was told, and of its end if it is one that ends.
No property relies on strong fairness. `Sampler`, `PidFile`, `Conf` and `Heap`
have safety properties only; `conf` checks for deadlock, so that every parse
goes on to a result.

**What the properties leave out, because the code does.** `LinuxStops` does not
promise that a stop lost before `sigsuspend` is noticed without a further
signal. `CallReturns` excludes the state `spin`; `ThreadsStop` and `LinuxStops`
exclude a submit thread that spins so, for ever, on a connection its peer has
closed: the acq thread still ends, the process does not. `CountersMatch`
excludes a counter that a thread changed before `ca_threadpool_create` wrote
it, and `DestroyReturns` a `threads_num` that was spoilt in this way.
`OneConnection` excludes the sockets that `tcp_connect_timeout` has lost, and
`CrashLosesNothing` the crash when memory is exhausted. `TerminateExits`
excludes a master that could not fork a single child (nothing wakes it: `live`
stays 1) and a detached new binary that runs on; `QuitExits` excludes a child
that hangs, as SIGQUIT is never escalated; `DeadIsReplaced` excludes failed
forks, which are retried only when the next child dies. `TasksAreTaken`
excludes a pool whose last thread has left; it strands a task that was added
while that thread was leaving. `ReportsWhole` excludes a negative measurement,
which the code takes for nothing at all. `GapsHealed` allows an item the
silence the code gives it: a second that begins between the round's reading of
the clock and the refresh's makes the record look too young for a round, and
after a set-back of D seconds the record looks fresh, and the item says
nothing, for about D seconds (`ca_acquisition.c:289-300`). All gaps in
succession, each of one period of the item, are together shorter than the
seconds the clock was set back by plus two periods, and one more per set-back.
A frequency of 0, with which every gap takes no time, is excluded, and so is an
item for which the last refresh left nothing or failed. `StopEnds` excludes a
fetch that hangs, and an updater that never ends when the stop came before its
`exec` or before `wait`. `SomebodyRuns` excludes an empty pid file left behind,
which costs one start. Texts the code misreads are in `Misread` with what it
takes them for, so that neither property objects to them: the block directive
without its brace (`A;`), which is logged and passed over; an item that is
ended by `{` instead of `;`; a number that wraps, in its word, to one of its
kind (`ca_atoi` looks at the sign of the result only, `ca_util.c:104-116`: with
32 bits 4294967300 is taken for 4); and names that are found by a pattern,
which lose their last character (`ca_conf.c:826-831`), so that the file of the
shorter name is read if there is one, and a correct include by pattern is
refused or reads nothing where there is none.

**What the code does wrong.** Three runs are violated, as recorded under
`findings`.

* `pool_freed`: the last thread of a pool broadcasts `exit_cond` after it has
  given up the mutex, and `ca_threadpool_destroy` may free the pool before. The
  broadcast finds no condition variable, or it is late and wakes a `destroy`
  that does not look at `threads_num` again while a newer thread runs. The
  worker process never destroys its pool, so the agent itself is not affected.
* `version`: `ca_need_update` leaves its loop before the last component is
  converted: `0.1.1` is taken for `0.0.1`, and `0.0.2` for no version.
* `start_race`: `pid_file_running` unlinks by name what it judged by
  descriptor: of two instances that find a dead process's file the later one
  removes the earlier one's, and both become masters.

Deadlock is not checked in the other runs: the processes really end, or wait
for a signal, a call or a tick that the bound no longer allows.

## 4. Proofs

`AcqProcess_proofs` proves, for every set of nodes, every `max_nfree`, any
number of samples and signals and any choice of receivers, from the
assumptions declared in `AcqProcess` alone:

* `TypeCorrect`, `NodeConservation`: `Spec => []TypeOK`, `Spec => []NodesConserved`;
* `PoolBound`: `Spec => []PoolBounded`;
* `JsonOwnership`: `Spec => []JsonOwned`;
* `CleanExit`: `Spec => []NothingLeftAtExit`;
* `CrashIsHarmless`: `Spec => []CrashLosesNothing`;
* `ChannelImplemented`: `Spec => ChannelSpec`, the refinement of `SampleChannel`;
* `StopIsSoon`: once a stop flag is set, nothing clears it, no thread begins
  another round or goes for another sample, and each step of a thread lowers
  `StepsLeft`, which is at most 20 and which no signal raises; spinning in
  `recv` is no step. This is the safety part of `ThreadsStop` and `LinuxStops`.

*The argument.* The inductive invariant is
`Inv == TypeOK /\ NodesConserved /\ ThreadsPlaced`. Conservation is not
inductive alone: the teardown frees what is queued, which conserves nodes only
if no thread holds one, and that depends on where the threads stand.
`ThreadsPlaced` relates the program counters: which thread may hold a node at
which place, that a thread runs only after it has been created, and that main
reaches the teardown only after both joins. Each step of each thread is a case
of `MainStep`, `AcqStep`, `SubmitStep` or `SignalStep`; the steps that touch no
queue are dispatched together by `QuietKeepsNodes`. About sequences the proof
needs little: what `Append`, `Tail` and pushing at the head do to the range,
to the length and to the absence of repetitions (`AppendFacts`, `TailFacts`,
`ConsFacts`).

For the refinement, samples are numbered as they are built, and the strength
needed is `SamplesOrdered`: what waits in `taskq` is increasing, newer than
`last`, and older than the sample being built. Each step then inserts, removes,
closes or leaves the channel alone (`WaitingInsert`, `WaitingRemove`,
`WaitingKept`, `ChannelStep`). `JsonOwned` follows from the same order, which
makes the owners pairwise different (`OwnersApart`), and `CleanExit` from
`JsonOwned` and the placement of the threads at the exit. A crash is harmless
since `ca_acq_cycle` can reach the release of an unassigned `json` only before
it has built a sample (`Fresh`).

`ThreadPool_proofs` proves, for every finite set of threads, any callers and
tasks, any priorities, with and without spurious wake-ups:

* `PoolTypeCorrect`: `Spec => []TypeOK`, the bounds of both counters included,
  but for a counter that a thread changed before `create` wrote it;
* `CountersTrue`: `Spec => []CountersMatch`, with the same exception;
* `CountersFollow`: once `create` has returned, no step changes by how much a
  counter is off: what was spoilt is never repaired, and nothing else spoils it;
* `NoLostWakeup`: `Spec => []WaitersCovered`;
* `BoardImplemented`: `Spec => BoardSpec`, the refinement of `TaskBoard`;
* `DestroyIsWoken`: somebody blocked in `ca_threadpool_destroy` always has a
  thread to come that will broadcast, the last one after its own counting out
  included, unless `threads_num` was spoilt while the pool was created: the
  safety part of `DestroyReturns`;
* `ExitIsHeeded`: once the pool is told to exit, every step of a thread brings
  it nearer to its end, and it takes at most the one task it was about to
  take: the safety part of `ExitEndsThreads`.

*The argument.* The inductive invariant `Inv` has five parts, each with its own
lemma over the steps: the types (`PlacesStep`); that nobody calls the pool
before `create` has returned (`NotCalledStep`); the counters, `WaitersStep`, and
`TasksApart` (`ApartStep`): no task is in two places and only a thread that is
about to run one holds it. About the counters the steps say how far each is off
(`NumOff`, `IdleOff`): no step but those of `create` changes that
(`StepFollowed`, which needs of a step only which threads enter or leave
`Counted` and `Busy`, and the facts about cardinalities of
`FiniteSetTheorems`), whether the counter is right or not. `CreateOK` says that
while a counter is still to be written, and no thread has touched it, the
threads it counts are the first ones that were started, so that the value
`create` writes is right. `TasksApart` is what makes the cases of `Standing`
exclude one another, so that each step of the pool moves at most one task on
the board, or drops all that wait (`BoardStep`).

`Master_proofs` proves, for any list of children, any size of the process
table and any number of signals, crashes and failed forks:

* `TableTrue`: `Spec => []TableMatchesKernel`;
* `NobodyLeft`: `Spec => []ExitLeavesNoChild`;
* `KillsLate`: `Spec => []KillAfterGrace`;
* `HandsOver`: `Spec => []UpgradeHandsOver`;
* `NothingSpawned`: `Spec => NoSpawnAfterQuit`;
* `NobodyForgotten`: when a master with a stop flag sleeps, a child is left to
  wait for (or there has never been one), every one that is left has been asked
  to end, and an alarm is before it if it terminates: the safety part of
  `TerminateExits` and `QuitExits`;
* `KillsComplete`: after the sixth alarm whoever is left has been sent
  SIGKILL, the counterpart of `KillsLate`;
* `DeadReplaced`: a master without a stop flag never sleeps beside a child
  that died and would have to be replaced: the safety part of `DeadIsReplaced`;
* `AskedStayDown`: a child that was asked to end and was waited for is not
  started again.

*The argument.* A death leaves SIGCHLD pending until the zombies are waited
for, all at once, which is what keeps table and kernel together however many
deaths merge into one signal. That the loop ends in time is a matter of `live`:
it turns FALSE only when every slot is marked exited or detached, and as long
as it is FALSE only detached slots come in (`LiveTells`), so that the exit
leaves nobody behind (`Over`). For the SIGKILL, `Patience` relates `delay` to
the alarms: each doubling has used one up. `Begins` keeps the creation of the
children apart from the rest. A step that fills the table anew or adds a slot
is brought back to its slots by `Refilled` and `Appended`. Four more invariants
say what a wake-up must not miss: an alarm is set or pending while children are
given time (`Alarmed`); when a stopping master sleeps every child that is left
has been asked to end, with the signal that belongs to the flag (`Asked`);
`live` is right about whether a child is left once the deaths have been counted
(`Told`); and a restart that is due is done before (`Replaced`).

`Submit_proofs` proves, for any number of servers, descriptors and samples,
whatever servers and network do:

* `SocketsValid`: `Spec => []SocketValid`;
* `OneConnectionOpen`: `Spec => []OneConnection`;
* `CreditEarned`: `Spec => []CreditIsEarned`;
* `EveryServerTried`: `Spec => []AllServersTried`;
* `DuplicatesAreFew`: `Spec => []FewDuplicates`;
* `CallsAreBounded`: every step of the thread ends the call or lowers `Left`,
  which never exceeds `10 * NServers + 18` and which neither servers nor
  signals change: the safety part of `CallReturns`;
* `NothingOverwritten`: `*pfd` and `*pindex` are replaced together, when a call
  ends, and the socket they named has been closed by then.

*The argument.* Between two servers nothing is open, so what is open is the
socket in use or the one that was kept (`SocketsKnown`). A connection is kept
only after its answer was read, and then nothing is under way on it; what is
read later is an answer to the sample of this call (`NothingElse`), which
makes the credit earned (`Earned`). `NextServerIn` is the ring: the next index
is one of a server, the first time too. For the ring, `Ring` ties the sequence
of the servers tried to the loop's counter: it is as long as there were turns,
each follows the one before, and the last is where the loop stands. That `n`
turns meet `n` different servers needs the distance of a server from where the
call began (`Turns`), which is the number of the turn that comes to it
(`Placed`). Then a server whose turn is yet to come has been sent nothing in
this call, but for the one of the kept connection, whose turn is the last
(`Counted`). The variant `Left` is made of the turns that are left, the one for
the kept connection included, and of the steps left in the turn; that an
incomplete answer lowers it needs `Partial`, the bytes that have come.

`PidFile_proofs` proves, for any sets of starters and stoppers, any number of
crashes and failed writes, from `InstancesAssumption`:

* `MastersKeptApart`: `Spec => []OnlyTheftDoubles`;
* `StopReachesMaster`: `Spec => []StopFindsMaster`;
* `StartsSucceed`: `Spec => []SomebodyRuns`;
* `NobodyWaitsForEver`: who keeps another instance waiting in `F_SETLKW` waits
  for nobody itself, and every step of an instance brings it nearer to its end.

*The argument.* As long as nothing was stolen, the path leads to the file of
every instance that is past its creation (`OwnersHold`), so there is one at
most. A creation needs the path to be free, so only an unlink could break this.
One that steals nothing removes the file that was judged: either its process
was found dead, and then stays dead (`DeadStays`), or it was found empty, and
stays empty as long as the finder holds its read lock (`BadStays`, which needs
the exclusion of readers and a writer, `Excluded`, and thereby what each
instance holds where it stands, `Holds`). `Begun` says that a file's creator has
begun, so that a file found without its process belongs to one that is over.
Steps that touch neither files nor locks, and those that close a file, are
treated once each (`MovesIInv`, `LeavesIInv`).

A stop that began while a master ran meets that master at every place where it
might be turned away (`Meets`): the file it opens is the master's, which was
written (`Finished`) and is found alive. That somebody runs rests on `Hopeful`:
while nothing has crashed, failed to write or been stopped, every file of this
run has a living owner on its way to becoming a master, and who is refused has
met one; so when all are at an end, there is an owner, and it is a master.

`Sampler_proofs` proves, for any frequencies, any start and any number of
ticks, set-backs of the clock and files that cannot be opened:

* `GapsHeal`: `Spec => []GapsHealed`;
* `RoundsComplete`: `Spec => []RoundComplete`.

*The argument.* What the six refreshes have in common is one lemma
(`Refreshed`). For the gaps, real time is what the clock shows and what it was
set back by, `clock + behind`, which never falls (`Clocks`). An item has nothing
to report, although it was measured (`Emptied`), only when it is due and the
record looks fresh (`Turn`). It is due a period after the last time, or once
more because the clock was set back; so each gap moves on by a period the
earliest real time at which it can be had (`Owed`), and `Healing` relates that
time to the clock, to the item's last round and to this one. The record looks
fresh for no longer than a period and the seconds the clock was set back by,
which bounds the gaps (`GapsBounded`); `GapsKept` treats the steps that leave
the record alone, and `Multiples` the only products of two variables. For
`RoundComplete` the invariant `Rounds` says that, with one frequency and no
trouble, all items are due in a round (`Busy`) or none is (`Idle`), that only
the first one due refreshes, and that those passed have reported.
`ReportsWhole` is only model-checked: it speaks of folds over what was measured.

`Heap_proofs` proves, for any entries and priorities, any size of the array
and any number of failed reallocations, from `PriorityAssumption` (priorities
are integers):

* `HeapIsBag`: `Spec => BagSpec`, the refinement of `PriorityBag`;
* `LoopsEnd`: each turn of a loop is its last or leads nearer to its end, so
  that the loops terminate.

*The argument.* Every entry is in order with its parent except for the pairs
the loop has yet to look at (`Ordered`): that of `k` and its parent on the way
to the root, those of `k` and its children on the way back. What makes this
inductive is that the parent and the children of that place are in order with
each other (`Bridged`), so that a swap moves the exception and makes no other.
Entries are kept by a swap, once each (`SwapKeeps`). When no loop runs, the
root is the least: otherwise there is a first place with a lesser entry, by
the well-foundedness of the order of places, and its parent would be another
(`RootIsLeast`).

`Update_proofs` proves `UpdaterReaped`, `Spec => []NoOrphan`, for any bodies,
word size, number of signals and failures: there is an updater exactly while
the process is at `wait` or at the test that follows an interruption. Four more:

* `OwnVersionRefused`: `Spec => []NoSelfUpdate`, for any bodies, if `CaVersion`
  has the digits of `CA_VERSION` (0.0.1, `clagent.h:25`): what was compared is
  what is acted on, however signals interrupt, and 0.0.1 is not newer than
  itself;
* `UpdateWasNeeded`: `Spec => []SpawnIsNeeded`, the same for every version: an
  updater is started only for a body that the comparison has taken for newer;
* `VersionFits`: for every text of any length that the checks of
  `ca_update_version` accept, the version is within two bytes: the `int` it is
  computed in cannot overflow;
* `StopsArePassedOn`: `Spec => []StopIsPassedOn`, the safety part of `StopEnds`.

*The argument.* The comparison is written with folds, which the prover cannot
compute. But what passes the checks has parts of one digit or two, so that each
fold runs over at most two elements, and the function it stands for can be
written down and shown to be the one the definition chooses (`OneDigit`,
`VersionIs`, `ComparedOf`).

The invariants of the proofs are not listed as properties of runs: TLC checked
them while they were written. Only model-checked are: all liveness (fairness is
outside the prover's reach; proved is what its arguments rest on, that nobody
is forgotten and that each loop comes nearer to its end); `WrittenIsRead` and
`BrokenIsRefused` of `Conf`, and `ReportsWhole` of `Sampler`, which say what
folds and recursive functions over a text, or over a list of measurements,
compute: for every text that is an induction over data, which the prover cannot
do.

## 5. Not modelled

* The worker process: its two threads and its tasks are a module's that is not
  in the repository. Around the pool, which is modelled, the code loads five
  symbols, starts two threads and sleeps. Its result heap is used without a
  lock, and `ca_submit_result` (`ca_worker.c:113-122`) fills neither argument
  nor priority of what it inserts, so that no order can be stated.
* The samples' JSON text, the arithmetic of rates, logging (the reopening at
  SIGHUP included), process titles, `vslprintf` and the array: formatting and
  output, without an interleaving or a state that outlives a call.
* Directive slots and parsers without a caller: size, msec, sec, enum and
  bitmask slots, `ca_conf_param`, `ca_parse_size`, `ca_atosz`.
* The failure of `pthread_create`, which the code does not look at or asserts
  away; the overflow of `delay` after some weeks of unanswered SIGKILLs.
* `ca_buf.c` is not compiled; `ca_queue.h` is the BSD header.

## 6. Plan

1. Done: `SampleChannel`, `AcqProcess`, `Submit`, `Master`, `TaskBoard`,
   `ThreadPool`; `PriorityBag` and `Heap`, which discharge what `ThreadPool`
   takes for granted about the root; `Sampler`, `PidFile`, `Update`, `Conf`;
   a theorem for every invariant and every refinement the passing runs check,
   but for those of `Conf` and `ReportsWhole`.
2. Done: the parts of the liveness arguments that are safety, as variants and
   as invariants that exclude a missed wake-up: `LoopsEnd` (heap),
   `CallsAreBounded` (sample delivery), `StopIsSoon` (acquisition),
   `NobodyForgotten` and `DeadReplaced` (master), `DestroyIsWoken` and
   `ExitIsHeeded` (pool), `StopsArePassedOn` (update), `NobodyWaitsForEver`
   (pid file).
3. Proofs that remain: those of `Conf` and `ReportsWhole`, for which a
   prover with induction over sequences is needed; the steps from the
   variants to the temporal formulas, which need one that handles `ENABLED`.
