----------------------------- MODULE AcqProcess -----------------------------
(***************************************************************************)
(* The acquisition process of clagent (src/src/ca_acquisition.c): the main *)
(* thread that waits for signals and tears the process down, the acq       *)
(* thread that builds one JSON sample per round, the submit thread that    *)
(* sends samples one by one, and the two mutex protected queues between    *)
(* them: task_queue (samples to send) and free_queue (nodes to reuse).     *)
(*                                                                         *)
(* Each critical section of a mutex is one action.  The network call       *)
(* ca_select_submit is one action here and has a module of its own,        *)
(* Submit.  The handlers of due items are abstracted to the JSON object    *)
(* they add to.                                                            *)
(***************************************************************************)
EXTENDS Naturals, Sequences, FiniteSets, Functions

CONSTANTS
  Nodes,        \* the ca_acq_data_t cells the heap can hold at once
  NULL,         \* no node
  MaxNfree,     \* the directive max_nfree
  MaxSamples,   \* bound: samples taken in a behaviour
  MaxSignals,   \* bound: signals sent to the process in a behaviour
  Receivers     \* threads a signal sent to the process may be delivered to

Threads == {"main", "acq", "submit"}

ASSUME NodesAssumption     == NULL \notin Nodes
ASSUME BoundsAssumption    == /\ MaxNfree \in Nat
                              /\ MaxSamples \in Nat
                              /\ MaxSignals \in Nat
ASSUME ReceiversAssumption == Receivers \subseteq Threads

Signals == {"QUIT", "TERM", "OTHER"}    \* OTHER: HUP, USR1, ALRM, CHLD
Samples == 1..MaxSamples
None    == 0                            \* json == NULL

VARIABLES
  proc,         \* the process: running, exited or crashed
  mpc, apc, spc,\* where the main, acq and submit threads stand
  quit, term,   \* ca_quit, ca_terminate
  pending,      \* signals sent to the process and not yet delivered
  nsignals,     \* signals sent so far (bounded by MaxSignals)
  freeq, nfree, \* free_queue and its counter
  taskq, ntask, \* task_queue and its counter
  heap,         \* the nodes calloc has handed out and nobody has freed
  json,         \* the json member of every node
  live,         \* the JSON objects that have not been released
  made,         \* samples built so far (bounded by MaxSamples)
  ajson, anode, \* locals of the acq thread: json and data
  snode,        \* local of the submit thread: data
  last          \* history: the sample the submit thread took last

control == <<mpc, apc, spc>>
signals == <<quit, term, pending, nsignals>>
queues  == <<freeq, nfree, taskq, ntask>>
memory  == <<heap, json, live, made>>
locals  == <<ajson, anode, snode, last>>
vars    == <<proc, control, signals, queues, memory, locals>>

\* ca_quit || ca_terminate
Stopping == quit \/ term

Running == proc = "running"

\* A NULL or wild pointer is dereferenced: the process dies where it stands.
Crash == /\ proc' = "crashed"
         /\ UNCHANGED <<control, signals, queues, memory, locals>>
-----------------------------------------------------------------------------
(***************************************************************************)
(* The queue helpers: what each one does to the queues and the heap.       *)
(***************************************************************************)
TaskGet(n) == /\ taskq # <<>>
              /\ n = Head(taskq)
              /\ ntask' = ntask - 1
              /\ taskq' = Tail(taskq)

\* Mutant: a sample is inserted at the head, as free_queue does.
TaskInsertAtHead(n) == taskq' = <<n>> \o taskq /\ ntask' = ntask + 1

TaskInsert(n) == taskq' = Append(taskq, n) /\ ntask' = ntask + 1

\* Mutant: the node is handed out and stays at the head of free_queue.
DataGetKeeps(n) ==
  \/ /\ freeq # <<>>
     /\ n = Head(freeq)
     /\ UNCHANGED <<freeq, nfree, heap>>
  \/ /\ freeq = <<>>
     /\ n \in Nodes \ heap
     /\ heap' = heap \cup {n}
     /\ UNCHANGED <<freeq, nfree>>

\* A node of free_queue, or a fresh one when that is empty.
DataGet(n) ==
  \/ /\ freeq # <<>>
     /\ n = Head(freeq)
     /\ nfree' = nfree - 1
     /\ freeq' = Tail(freeq)
     /\ UNCHANGED heap
  \/ /\ freeq = <<>>
     /\ n \in Nodes \ heap
     /\ heap' = heap \cup {n}
     /\ UNCHANGED <<freeq, nfree>>

\* The same helper when calloc returns NULL.
DataGetFails == freeq = <<>> /\ heap = Nodes

\* Mutant: the pool compares before counting the node it is about to keep.
PoolFullLate == nfree # 0 /\ nfree > MaxNfree

PoolFull == nfree # 0 /\ nfree + 1 > MaxNfree

\* A node goes back to free_queue, or to the heap when the pool is full.
DataPut(n) ==
  \/ /\ PoolFull
     /\ heap' = heap \ {n}
     /\ UNCHANGED <<freeq, nfree>>
  \/ /\ ~PoolFull
     /\ nfree' = nfree + 1
     /\ freeq' = <<n>> \o freeq
     /\ UNCHANGED heap

DataInit == freeq' = <<>> /\ nfree' = 0 /\ taskq' = <<>> /\ ntask' = 0

DataDeinit ==
  /\ heap'  = heap \ (Range(freeq) \cup Range(taskq))
  /\ live'  = live \ {json[n] : n \in Range(taskq)}
  /\ freeq' = <<>> /\ nfree' = nfree - Len(freeq)
  /\ taskq' = <<>> /\ ntask' = ntask - Len(taskq)
-----------------------------------------------------------------------------
(***************************************************************************)
(* The main thread: ca_acq_process_cycle.                                  *)
(***************************************************************************)
MainGoto(from, to) == Running /\ mpc = from /\ mpc' = to

\* A step that only moves the main thread on.
MainMoves(from, to) ==
  /\ MainGoto(from, to)
  /\ UNCHANGED <<proc, apc, spc, signals, queues, memory, locals>>

MainInit == /\ MainGoto("init", "unmask")
            /\ DataInit
            /\ UNCHANGED <<proc, apc, spc, signals, memory, locals>>

\* From here on the signals the master sends can be delivered.
MainUnmask == MainMoves("unmask", "create_submit")

MainCreateSubmit ==
  /\ MainGoto("create_submit", "create_acq")
  /\ spc' = "check"
  /\ UNCHANGED <<proc, apc, signals, queues, memory, locals>>

MainCreateAcq ==
  /\ MainGoto("create_acq", "check")
  /\ apc' = "start"
  /\ UNCHANGED <<proc, spc, signals, queues, memory, locals>>

\* The flags are read with no signal blocked.
MainCheck ==
  \/ Stopping  /\ MainMoves("check", "kill_submit")
  \/ ~Stopping /\ MainMoves("check", "checked")

\* sigsuspend: a signal handled since the look at the flags ends nothing.
MainSuspend == MainMoves("checked", "suspend")

\* pthread_kill(thread, SIGINT): the handler sets ca_terminate there.
MainKillSubmit ==
  /\ MainGoto("kill_submit", "kill_acq")
  /\ term' = (term \/ spc # "done")
  /\ UNCHANGED <<proc, apc, spc, quit, pending, nsignals,
                 queues, memory, locals>>

MainKillAcq ==
  /\ MainGoto("kill_acq", "join_submit")
  /\ term' = (term \/ apc # "done")
  /\ UNCHANGED <<proc, apc, spc, quit, pending, nsignals,
                 queues, memory, locals>>

MainJoinSubmit ==
  /\ MainMoves("join_submit", "join_acq")
  /\ spc = "done"

\* Mutant: main does not wait for the acq thread before it tears down.
MainSkipJoinAcq == MainMoves("join_acq", "deinit")

MainJoinAcq ==
  /\ MainMoves("join_acq", "deinit")
  /\ apc = "done"

\* ca_acq_data_deinit, then exit(0) ends every thread.
MainDeinit ==
  /\ MainGoto("deinit", "exit")
  /\ DataDeinit
  /\ proc' = "exited"
  /\ UNCHANGED <<apc, spc, signals, json, made, locals>>

Main == \/ MainInit \/ MainUnmask \/ MainCreateSubmit \/ MainCreateAcq
        \/ MainCheck \/ MainSuspend \/ MainKillSubmit \/ MainKillAcq
        \/ MainJoinSubmit \/ MainJoinAcq \/ MainDeinit
-----------------------------------------------------------------------------
(***************************************************************************)
(* Signals.  The master sends them to the process; one of its threads runs *)
(* the handler.  A standard signal that is already pending is not queued a *)
(* second time.  sleep() also returns early on a signal, but it ends by    *)
(* itself, so only the suspended main thread depends on the delivery.      *)
(***************************************************************************)
Send(sig) ==
  /\ Running
  /\ nsignals < MaxSignals
  /\ nsignals' = nsignals + 1
  /\ pending' = pending \cup {sig}
  /\ UNCHANGED <<proc, control, quit, term, queues, memory, locals>>

Alive(t) == CASE t = "main"   -> TRUE
              [] t = "acq"    -> apc \notin {"none", "done"}
              [] t = "submit" -> spc \notin {"none", "done"}

\* ca_signal_handler runs in thread t for what is pending.
Handle(t) ==
  /\ Running
  /\ pending # {}
  /\ mpc \notin {"init", "unmask"}
  /\ Alive(t)
  /\ pending' = {}
  /\ quit' = (quit \/ "QUIT" \in pending)
  /\ term' = (term \/ "TERM" \in pending)

\* Mutant: sigsuspend is entered again without a look at the flags.
DeliverResuspends(t) ==
  /\ Handle(t)
  /\ UNCHANGED <<proc, control, nsignals, queues, memory, locals>>

\* The handler ends the sigsuspend of the main thread when it runs there.
Deliver(t) ==
  /\ Handle(t)
  /\ mpc' = IF t = "main" /\ mpc = "suspend" THEN "check" ELSE mpc
  /\ UNCHANGED <<proc, apc, spc, nsignals, queues, memory, locals>>
-----------------------------------------------------------------------------
(***************************************************************************)
(* The acq thread: ca_acq_cycle.                                           *)
(***************************************************************************)
AcqGoto(from, to) == Running /\ apc = from /\ apc' = to

AcqMoves(from, to) ==
  /\ AcqGoto(from, to)
  /\ UNCHANGED <<proc, mpc, spc, signals, queues, memory, locals>>

\* The calloc of the item buffer succeeds, or the thread ends at once.
AcqStart ==
  \/ AcqMoves("start", "first_check")
  \/ AcqMoves("start", "done")

\* The first look at the flags comes before json has ever been assigned.
AcqFirstCheck ==
  \/ Stopping  /\ AcqMoves("first_check", "over_unset")
  \/ ~Stopping /\ AcqMoves("first_check", "build")

\* Mutant: json is not reset at the start of a round.
AcqCheckUnset ==
  \/ Stopping  /\ AcqMoves("check", "over_unset")
  \/ ~Stopping /\ AcqMoves("check", "build")

AcqCheck ==
  \/ Stopping  /\ AcqMoves("check", "over")
  \/ ~Stopping /\ AcqMoves("check", "build")

\* The JSON object of the round: it is created with the first due item.
Begin(s) == \/ /\ ajson # None
               /\ s = ajson
               /\ UNCHANGED <<made, live>>
            \/ /\ ajson = None
               /\ made < MaxSamples
               /\ s = made + 1
               /\ made' = s
               /\ live' = live \cup {s}

\* No item is due in this round.
AcqNothingDue ==
  /\ AcqMoves("build", "check2")
  /\ ajson = None

\* Every due item has been added to the sample.
AcqBuild ==
  /\ AcqGoto("build", "get")
  /\ \E s \in Samples : Begin(s) /\ ajson' = s
  /\ UNCHANGED <<proc, mpc, spc, signals, queues, heap, json,
                 anode, snode, last>>

\* The realloc for a long item fails, before or after the JSON was created.
AcqGrowFails ==
  /\ AcqGoto("build", "grow")
  /\ \/ UNCHANGED <<made, live, ajson>>
     \/ \E s \in Samples : Begin(s) /\ ajson' = s
  /\ UNCHANGED <<proc, mpc, spc, signals, queues, heap, json,
                 anode, snode, last>>

\* Mutant: the retry of a failed allocation forgets the flags.
AcqGrowForgets ==
  \/ AcqMoves("grow", "grow_slept")
  \/ AcqMoves("grow_slept", "build")

\* if stopping goto over; sleep(1); if stopping goto over; try again
AcqGrowCheck ==
  \/ Stopping  /\ AcqMoves("grow", "over")
  \/ ~Stopping /\ AcqMoves("grow", "grow_slept")
  \/ Stopping  /\ AcqMoves("grow_slept", "over")
  \/ ~Stopping /\ AcqMoves("grow_slept", "build")

\* ca_acq_data_get and data->json = json.
AcqGet ==
  /\ AcqGoto("get", "insert")
  /\ \E n \in Nodes : /\ DataGet(n)
                      /\ anode' = n
                      /\ json' = [json EXCEPT ![n] = ajson]
  /\ UNCHANGED <<proc, mpc, spc, signals, taskq, ntask, live, made,
                 ajson, snode, last>>

\* The NULL ca_acq_data_get returns is dereferenced.
AcqGetFails == Running /\ apc = "get" /\ DataGetFails /\ Crash

\* Mutant: json keeps pointing at the sample that is now in task_queue.
AcqInsertKeepsJson ==
  /\ AcqGoto("insert", "check2")
  /\ TaskInsert(anode)
  /\ anode' = NULL
  /\ UNCHANGED <<proc, mpc, spc, signals, freeq, nfree, memory,
                 ajson, snode, last>>

AcqInsert ==
  /\ AcqGoto("insert", "check2")
  /\ TaskInsert(anode)
  /\ anode' = NULL
  /\ ajson' = None
  /\ UNCHANGED <<proc, mpc, spc, signals, freeq, nfree, memory, snode, last>>

AcqCheck2 ==
  \/ Stopping  /\ AcqMoves("check2", "over")
  \/ ~Stopping /\ AcqMoves("check2", "sleep")

\* sleep(1) ends, after its second or at a signal.
AcqWake == AcqMoves("sleep", "check")

\* over: a sample that never reached the queue is released.
AcqOver ==
  /\ AcqGoto("over", "done")
  /\ live' = live \ {ajson}
  /\ ajson' = None
  /\ UNCHANGED <<proc, mpc, spc, signals, queues, heap, json, made,
                 anode, snode, last>>

\* over: reached with json unassigned.  Its value decides between a release
\* that is skipped and a release of a wild pointer.
AcqOverUnset ==
  /\ Running
  /\ apc = "over_unset"
  /\ \/ /\ apc' = "done"
        /\ UNCHANGED <<proc, mpc, spc, signals, queues, memory, locals>>
     \/ Crash

Acq == \/ AcqStart \/ AcqFirstCheck \/ AcqCheck
       \/ AcqNothingDue \/ AcqBuild \/ AcqGrowFails \/ AcqGrowCheck
       \/ AcqGet \/ AcqGetFails \/ AcqInsert
       \/ AcqCheck2 \/ AcqWake \/ AcqOver \/ AcqOverUnset
-----------------------------------------------------------------------------
(***************************************************************************)
(* The submit thread: ca_acq_submit_cycle.                                 *)
(***************************************************************************)
SubGoto(from, to) == Running /\ spc = from /\ spc' = to

SubMoves(from, to) ==
  /\ SubGoto(from, to)
  /\ UNCHANGED <<proc, mpc, apc, signals, queues, memory, locals>>

SubCheck ==
  \/ Stopping  /\ SubMoves("check", "done")
  \/ ~Stopping /\ SubMoves("check", "get")

SubGet ==
  /\ SubGoto("get", "submit")
  /\ \E n \in Nodes : /\ TaskGet(n)
                      /\ snode' = n
                      /\ last' = json[n]
  /\ UNCHANGED <<proc, mpc, apc, signals, freeq, nfree, memory,
                 ajson, anode>>

\* The queue is empty: one more look at the flags, then sleep(1).
SubGetEmpty ==
  /\ SubMoves("get", "empty")
  /\ taskq = <<>>

SubEmpty ==
  \/ Stopping  /\ SubMoves("empty", "done")
  \/ ~Stopping /\ SubMoves("empty", "sleep")

SubWake == SubMoves("sleep", "check")

\* ca_select_submit returns, and CA_ERROR is logged and the sample dropped; or
\* the server has closed the connection too early, recv returns 0 for good and
\* the call never ends, whatever the flags say (RecvEof of Submit).
SubSubmit ==
  \/ SubMoves("submit", "release")
  \/ SubMoves("submit", "spin")

SubRelease ==
  /\ SubGoto("release", "put")
  /\ live' = live \ {json[snode]}
  /\ UNCHANGED <<proc, mpc, apc, signals, queues, heap, json, made, locals>>

SubPut ==
  /\ SubGoto("put", "check")
  /\ DataPut(snode)
  /\ snode' = NULL
  /\ UNCHANGED <<proc, mpc, apc, signals, taskq, ntask, json, live, made,
                 ajson, anode, last>>

Submit == \/ SubCheck \/ SubGet \/ SubGetEmpty \/ SubEmpty \/ SubWake
          \/ SubSubmit \/ SubRelease \/ SubPut
-----------------------------------------------------------------------------
\* ca_terminate may be set already: the master respawns a crashed child
\* while it is terminating.  Every signal but HUP is blocked at this point.
Init == /\ proc = "running"
        /\ mpc = "init" /\ apc = "none" /\ spc = "none"
        /\ quit = FALSE /\ term \in BOOLEAN
        /\ pending = {} /\ nsignals = 0
        /\ freeq = <<>> /\ nfree = 0
        /\ taskq = <<>> /\ ntask = 0
        /\ heap = {} /\ json = [n \in Nodes |-> None]
        /\ live = {} /\ made = 0
        /\ ajson = None /\ anode = NULL
        /\ snode = NULL /\ last = 0

Next == \/ Main \/ Acq \/ Submit
        \/ \E sig \in Signals : Send(sig)
        \/ \E t \in Receivers : Deliver(t)

Spec == Init /\ [][Next]_vars

\* Every thread is scheduled, a sent signal is delivered, a sleep ends and
\* ca_select_submit returns or begins to spin (CallReturns of Submit).
ThreadFairness == /\ WF_vars(Main)
                  /\ WF_vars(Acq)
                  /\ WF_vars(Submit)

Fairness == ThreadFairness /\ WF_vars(\E t \in Receivers : Deliver(t))

FairSpec == Spec /\ Fairness
-----------------------------------------------------------------------------
MainPCs == {"init", "unmask", "create_submit", "create_acq", "check",
            "checked", "suspend", "kill_submit", "kill_acq", "join_submit", "join_acq",
            "deinit", "exit"}
AcqPCs  == {"none", "start", "first_check", "check", "build", "grow",
            "grow_slept", "get", "insert", "check2", "sleep", "over",
            "over_unset", "done"}
SubPCs  == {"none", "check", "get", "empty", "sleep", "submit", "spin",
            "release", "put", "done"}

\* The type invariant: every variable holds a value of the kind its C
\* counterpart can hold; the counters never wrap below zero.
TypeOK ==
  /\ proc \in {"running", "exited", "crashed"}
  /\ mpc \in MainPCs /\ apc \in AcqPCs /\ spc \in SubPCs
  /\ quit \in BOOLEAN /\ term \in BOOLEAN
  /\ pending \subseteq Signals /\ nsignals \in 0..MaxSignals
  /\ freeq \in Seq(Nodes) /\ nfree \in Nat
  /\ taskq \in Seq(Nodes) /\ ntask \in Nat
  /\ heap \subseteq Nodes /\ json \in [Nodes -> Samples \cup {None}]
  /\ live \subseteq Samples /\ made \in 0..MaxSamples
  /\ ajson \in Samples \cup {None} /\ anode \in Nodes \cup {NULL}
  /\ snode \in Nodes \cup {NULL} /\ last \in Samples \cup {0}

NoRepeats(q) == \A i, j \in 1..Len(q) : q[i] = q[j] => i = j

\* Every node calloc handed out is in exactly one place, once: in one of the
\* queues or in the hands of one thread; and the two counters, which decide
\* when a node is freed, are the lengths of their queues.  A node in two
\* places is a corrupt list or a double free, one in none is leaked.
NodesConserved ==
  /\ NoRepeats(freeq) /\ nfree = Len(freeq)
  /\ NoRepeats(taskq) /\ ntask = Len(taskq)
  /\ Range(freeq) \cap Range(taskq) = {}
  /\ {anode, snode} \cap (Range(freeq) \cup Range(taskq)) = {}
  /\ anode = snode => anode = NULL
  /\ heap = Range(freeq) \cup Range(taskq) \cup ({anode, snode} \ {NULL})

\* The submit thread has a sample and has not released it.
Sending == {"submit", "spin", "release"}

\* The samples somebody still has to release: those of the queued nodes,
\* the one being built, the one being sent.
Owed == {json[n] : n \in Range(taskq)}
        \cup ({ajson} \ {None})
        \cup (IF spc \in Sending THEN {json[snode]} ELSE {})

\* A JSON object is alive as long as some thread or queue will still use and
\* release it, and no longer: none leaks, none is used after its release.
JsonOwned == live = Owed

\* free_queue keeps at most max_nfree nodes, and one even when that is 0.
PoolBounded == nfree <= (IF MaxNfree = 0 THEN 1 ELSE MaxNfree)

\* When the process exits, whatever the threads were doing when the signal
\* came, every node and every JSON object has been given back.
NothingLeftAtExit == proc = "exited" => /\ heap = {} /\ live = {}
                                        /\ nfree = 0 /\ ntask = 0

\* A crash costs samples only when memory is exhausted; the release of the
\* unassigned json can only happen before a first sample exists.
CrashLosesNothing == proc = "crashed" => live = {} \/ heap = Nodes

\* The samples in task_queue, first to last.
Waiting == [i \in 1..Len(taskq) |-> json[taskq[i]]]

\* The queues implement the channel of SampleChannel: order, no duplicate,
\* no sample handed out twice, nothing after the teardown.
Channel == INSTANCE SampleChannel WITH
             chan <- Waiting,
             open <- proc # "exited"

ChannelSpec == Channel!ChanSpec

\* Once a stop flag is set, whichever thread ran the handler, both working
\* threads end; except that the submit thread may spin on a connection that
\* the server has closed (ca_acquisition.c:704-729), which does not keep the
\* acq thread.
ThreadsStop ==
  Stopping ~> (~Running \/ (apc = "done" /\ spc \in {"done", "spin"}))

\* A process whose main thread is suspended goes down if a stop signal is on
\* its way, and also if its flag was set unnoticed before the suspension and
\* any other signal is on its way.  Only a submit thread that spins keeps it
\* from the join.
StopFromSuspend ==
  (/\ Running
   /\ mpc = "suspend"
   /\ pending # {}
   /\ Stopping \/ pending \cap {"QUIT", "TERM"} # {})
    ~> (~Running \/ spc = "spin")
=============================================================================
