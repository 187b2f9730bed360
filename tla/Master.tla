------------------------------- MODULE Master -------------------------------
(***************************************************************************)
(* The master process of clagent (src/src/clagent.c): it forks the worker, *)
(* update and acquisition processes, respawns those that die, hands over   *)
(* to a new binary on SIGUSR2 and takes its children down on SIGTERM and   *)
(* SIGQUIT.  All signals it acts on are blocked but inside sigsuspend, so  *)
(* one turn of its loop is a few steps, between which only the children    *)
(* and the kernel's set of pending signals can change.                     *)
(***************************************************************************)
EXTENDS Naturals, Sequences, FiniteSets, SequencesExt

CONSTANTS
  Kinds,          \* the children, in the order they are created
  MaxProcesses,   \* CA_MAX_PROCESSES, the size of ca_processes
  ParentIsInit,   \* getppid() == 1: started as a daemon
  MaxSignals,     \* bound: signals sent to the master by others
  MaxCrashes,     \* bound: children that die by themselves
  MaxForkFails    \* bound: fork() calls that fail

ASSUME KindsAssumption        == Kinds \in Seq(STRING) /\ Kinds # <<>>
ASSUME MaxProcessesAssumption == MaxProcesses \in Nat
ASSUME ParentAssumption       == ParentIsInit \in BOOLEAN
ASSUME BoundsAssumption       == /\ MaxSignals \in Nat
                                 /\ MaxCrashes \in Nat
                                 /\ MaxForkFails \in Nat

Sent    == {"TERM", "QUIT", "USR2", "OTHER"}  \* TERM or INT; OTHER: HUP, USR1
Signals == Sent \cup {"CHLD", "ALRM"}
MinDelay == 50
MaxDelay == 1000

VARIABLES
  pc,             \* where the master stands
  slots,          \* ca_processes[0 .. ca_last_process - 1]
  created,        \* how many of Kinds it has tried to create
  live, delay,    \* locals of ca_master_process_cycle
  reap, quit, term, alrm, change, \* ca_reap, ca_quit, ca_terminate, ...
  newbin,         \* ca_new_binary > 0
  pidname,        \* the name the pid file has: "pid" or "oldpid"
  timer,          \* the interval timer is armed
  pending,        \* signals pending for the master
  nsignals, ncrashes, nforkfails, \* what has happened of what is bounded
  alarms          \* history: alarms handled (6 stands for more)

flags  == <<reap, quit, term, alrm, change>>
locals == <<created, live, delay>>
bin    == <<newbin, pidname>>
bounds == <<nsignals, ncrashes, nforkfails>>
vars   == <<pc, slots, locals, flags, bin, timer, pending, bounds, alarms>>

Slots == DOMAIN slots
Goto(from, to) == pc = from /\ pc' = to

\* A slot as ca_spawn_process fills it.  The members up to exited are those
\* of ca_process_t; os is the process in the kernel: alive, hung (it reacts
\* to SIGKILL only), zombie or reaped; got, a history, is what it was sent.
NewSlot(kind, respawn, detached) ==
  [kind |-> kind, respawn |-> respawn, detached |-> detached,
   exiting |-> FALSE, exited |-> FALSE,
   os |-> "alive", got |-> {}]

Up(s) == slots[s].os \in {"alive", "hung"}

\* ca_spawn_process with respawn < 0.  No slot ever gets its pid back to -1,
\* so a free one is always the next after the last.
SpawnNew(kind, respawn, detached) ==
  /\ Len(slots) < MaxProcesses
  /\ slots' = Append(slots, NewSlot(kind, respawn, detached))
  /\ UNCHANGED nforkfails

\* The table is full, or fork() fails: -1, and the slot is not taken.
SpawnFails ==
  /\ UNCHANGED slots
  /\ \/ Len(slots) = MaxProcesses /\ UNCHANGED nforkfails
     \/ /\ Len(slots) < MaxProcesses
        /\ nforkfails < MaxForkFails
        /\ nforkfails' = nforkfails + 1

\* ca_spawn_process with respawn = s: only the pid and exited are written.
Respawned(s) == [slots[s] EXCEPT !.exited = FALSE, !.os = "alive",
                                 !.got = {}]
-----------------------------------------------------------------------------
(***************************************************************************)
(* ca_master_process_cycle.                                                *)
(***************************************************************************)
\* The title of the process cannot be allocated: the master ends.
OutOfMemory == /\ created = 0
               /\ Goto("create", "exit")
               /\ UNCHANGED <<slots, locals, flags, bin, timer, pending,
                              bounds, alarms>>

\* ca_create_processes, once for each kind; a failure is passed over.
Create ==
  /\ pc = "create"
  /\ created' = created + 1
  /\ pc' = IF created' = Len(Kinds) THEN "top" ELSE "create"
  /\ SpawnNew(Kinds[created'], TRUE, FALSE) \/ SpawnFails
  /\ UNCHANGED <<live, delay, flags, bin, timer, pending,
                 nsignals, ncrashes, alarms>>

\* Mutant: the delay grows at every turn, not only after an alarm.
GrowsAlways == delay <= MaxDelay

Grows == alrm /\ delay <= MaxDelay

\* While terminating: double the delay after an alarm, arm the timer anew.
\* Past MaxDelay the value only says when the next SIGKILLs are sent.
Top ==
  /\ Goto("top", "suspend")
  /\ delay' = IF Grows THEN 2 * delay ELSE delay
  /\ alrm' = (alrm /\ delay = 0)
  /\ timer' = (timer \/ delay # 0)
  /\ UNCHANGED <<slots, created, live, reap, quit, term, change, bin,
                 pending, bounds, alarms>>

Zombies == {s \in Slots : slots[s].os = "zombie"}

\* Mutant: one waitpid per SIGCHLD, although pending ones are merged.
WaitedForOne == {s \in Zombies : \A z \in Zombies : s <= z}

\* waitpid until no zombie is left
WaitedFor == Zombies

\* ca_process_get_status
GetStatus == slots' = [s \in Slots |->
               IF s \in WaitedFor
               THEN [slots[s] EXCEPT !.os = "reaped", !.exited = TRUE]
               ELSE slots[s]]

\* sigsuspend returns after the handlers of all pending signals have run.
\* SIGCHLD: every child waited for is marked exited in its slot.
\* SIGUSR2 is ignored unless the parent is init and no new binary was run.
Suspend ==
  /\ Goto("suspend", "reap")
  /\ pending # {}
  /\ pending' = {}
  /\ reap' = ("CHLD" \in pending)
  /\ quit' = (quit \/ "QUIT" \in pending)
  /\ term' = (term \/ "TERM" \in pending)
  /\ alrm' = (alrm \/ "ALRM" \in pending)
  /\ change' = (change \/ ("USR2" \in pending /\ ParentIsInit /\ ~newbin))
  /\ alarms' = IF "ALRM" \in pending /\ alarms < 6 THEN alarms + 1 ELSE alarms
  /\ IF reap' THEN GetStatus ELSE UNCHANGED slots
  /\ UNCHANGED <<locals, bin, timer, bounds>>

\* SIGHUP is not blocked.  When its handler runs with ca_reap still set, it
\* waits for the children that have died since.
Hangup ==
  /\ pc = "reap" /\ reap
  /\ nsignals < MaxSignals
  /\ nsignals' = nsignals + 1
  /\ GetStatus
  /\ UNCHANGED <<pc, locals, flags, bin, timer, pending, ncrashes,
                 nforkfails, alarms>>

\* Mutant: a dead child is respawned although the master is quitting.
DueWhileQuitting(s) ==
  slots[s].exited /\ slots[s].respawn /\ ~slots[s].exiting

Due(s) == slots[s].exited /\ slots[s].respawn /\ ~slots[s].exiting /\ ~quit

\* Mutant: a child that has just been respawned does not count as live.
SomeLeftBefore(table) == \E s \in Slots : ~slots[s].exited

SomeLeft(table) == \E s \in DOMAIN table : ~table[s].exited

\* if ca_reap: ca_reap_children respawns what is due and says who is left.
\* ca_terminate does not keep it from respawning.
Reap ==
  /\ Goto("reap", "decide")
  /\ reap' = FALSE
  /\ IF ~reap
     THEN UNCHANGED <<slots, live, nforkfails>>
     ELSE \E failed \in SUBSET {s \in Slots : Due(s)} :
            /\ nforkfails + Cardinality(failed) <= MaxForkFails
            /\ nforkfails' = nforkfails + Cardinality(failed)
            /\ slots' = [s \in Slots |-> IF Due(s) /\ s \notin failed
                                         THEN Respawned(s) ELSE slots[s]]
            /\ live' = SomeLeft(slots')
  /\ UNCHANGED <<created, delay, quit, term, alrm, change, bin, timer,
                 pending, nsignals, ncrashes, alarms>>

\* Whom ca_signal_child_processes passes over.
Skips(s, sig) == \/ slots[s].detached
                 \/ slots[s].exited
                 \/ slots[s].exiting /\ sig = "TERM"

\* ca_signal_child_processes.  A zombie takes the signal without effect;
\* kill() cannot fail with ESRCH for a child that has not been waited for.
SignalChildren(sig) ==
  slots' = [s \in Slots |->
    IF Skips(s, sig) THEN slots[s]
    ELSE [slots[s] EXCEPT !.exiting = TRUE,
                          !.got = @ \cup {sig}]]

Exit == /\ ~live /\ (quit \/ term)
        /\ Goto("decide", "exit")
        /\ UNCHANGED <<slots, locals, flags, bin, timer, pending,
                       bounds, alarms>>

\* Mutant: SIGTERM is never followed by SIGKILL.
AsksOnly(d) == "TERM"

\* SIGTERM until the delay has passed MaxDelay.
StopSignal(d) == IF d > MaxDelay THEN "KILL" ELSE "TERM"

Terminate ==
  /\ live \/ ~(quit \/ term)
  /\ term
  /\ Goto("decide", "top")
  /\ delay' = IF delay = 0 THEN MinDelay ELSE delay
  /\ SignalChildren(StopSignal(delay'))
  /\ UNCHANGED <<created, live, flags, bin, timer, pending, bounds, alarms>>

\* Quitting: SIGQUIT to every child at every turn, never SIGKILL.
Quit ==
  /\ live \/ ~(quit \/ term)
  /\ quit /\ ~term
  /\ Goto("decide", "top")
  /\ SignalChildren("QUIT")
  /\ UNCHANGED <<locals, flags, bin, timer, pending, bounds, alarms>>

\* Nothing to do, or the first half of an upgrade: ca_exec_new_binary cannot
\* rename the pid file and gives up.
Idle ==
  /\ ~quit /\ ~term
  /\ Goto("decide", "top")
  /\ change' = FALSE
  /\ newbin' = (newbin /\ ~change)
  /\ UNCHANGED <<slots, locals, reap, quit, term, alrm, pidname, timer,
                 pending, bounds, alarms>>

\* Mutant: the old master starts the new binary and stays.
StaysOn == UNCHANGED pending

\* kill(ca_pid, SIGQUIT)
StepsBack == pending' = pending \cup {"QUIT"}

\* ca_exec_new_binary succeeds: the pid file is renamed, the new binary runs
\* detached, and the old master sends SIGQUIT to itself.
Upgrade ==
  /\ ~quit /\ ~term /\ change
  /\ Goto("decide", "top")
  /\ pidname = "pid" /\ pidname' = "oldpid"
  /\ SpawnNew("newbin", FALSE, TRUE)
  /\ change' = FALSE
  /\ newbin' = TRUE
  /\ StepsBack
  /\ UNCHANGED <<locals, reap, quit, term, alrm, timer,
                 nsignals, ncrashes, alarms>>

\* The fork of the new binary fails: the pid file is renamed back, unless
\* that fails too, and the master goes on.
UpgradeFails ==
  /\ ~quit /\ ~term /\ change
  /\ Goto("decide", "top")
  /\ pidname = "pid" /\ pidname' \in {"pid", "oldpid"}
  /\ SpawnFails
  /\ change' = FALSE
  /\ newbin' = FALSE
  /\ UNCHANGED <<locals, reap, quit, term, alrm, timer, pending,
                 nsignals, ncrashes, alarms>>

Main == \/ OutOfMemory \/ Create \/ Top \/ Suspend \/ Reap
        \/ Exit \/ Terminate \/ Quit \/ Idle \/ Upgrade \/ UpgradeFails
-----------------------------------------------------------------------------
(***************************************************************************)
(* The children, the interval timer and whoever sends signals to the       *)
(* master.  How the acquisition child comes to stop is the subject of      *)
(* AcqProcess; here a child that was asked to stop stops, or hangs.        *)
(***************************************************************************)
SetOs(s, os) == slots' = [slots EXCEPT ![s].os = os]

Dies(s) == /\ SetOs(s, "zombie")
           /\ pending' = pending \cup {"CHLD"}

ChildCrashes(s) == /\ Up(s) /\ ~slots[s].detached
                   /\ ncrashes < MaxCrashes
                   /\ ncrashes' = ncrashes + 1
                   /\ Dies(s)
                   /\ UNCHANGED <<pc, locals, flags, bin, timer,
                                  nsignals, nforkfails, alarms>>

ChildStops(s) == /\ slots[s].os = "alive"
                 /\ slots[s].got \cap {"TERM", "QUIT"} # {}
                 /\ Dies(s)
                 /\ UNCHANGED <<pc, locals, flags, bin, timer, bounds, alarms>>

ChildHangs(s) == /\ slots[s].os = "alive" /\ ~slots[s].detached
                 /\ SetOs(s, "hung")
                 /\ UNCHANGED <<pc, locals, flags, bin, timer, pending,
                                bounds, alarms>>

ChildKilled(s) == /\ Up(s)
                  /\ "KILL" \in slots[s].got
                  /\ Dies(s)
                  /\ UNCHANGED <<pc, locals, flags, bin, timer, bounds, alarms>>

\* The new binary goes into the background, or fails, or runs on.
NewBinaryEnds(s) == /\ Up(s) /\ slots[s].detached
                    /\ Dies(s)
                    /\ UNCHANGED <<pc, locals, flags, bin, timer,
                                   bounds, alarms>>

TimerFires == /\ timer
              /\ timer' = FALSE
              /\ pending' = pending \cup {"ALRM"}
              /\ UNCHANGED <<pc, slots, locals, flags, bin, bounds, alarms>>

Send(sig) == /\ nsignals < MaxSignals
             /\ nsignals' = nsignals + 1
             /\ pending' = pending \cup {sig}
             /\ UNCHANGED <<pc, slots, locals, flags, bin, timer,
                            ncrashes, nforkfails, alarms>>

Child(s) == ChildCrashes(s) \/ ChildStops(s) \/ ChildHangs(s)
            \/ ChildKilled(s) \/ NewBinaryEnds(s)

Environment == /\ pc # "exit"
               /\ \/ \E s \in Slots : Child(s)
                  \/ TimerFires \/ Hangup
                  \/ \E sig \in Sent : Send(sig)

Init == /\ pc = "create" /\ slots = <<>> /\ created = 0
        /\ live = TRUE /\ delay = 0
        /\ reap = FALSE /\ quit = FALSE /\ term = FALSE
        /\ alrm = FALSE /\ change = FALSE
        /\ newbin = FALSE /\ pidname = "pid"
        /\ timer = FALSE /\ pending = {}
        /\ nsignals = 0 /\ ncrashes = 0 /\ nforkfails = 0
        /\ alarms = 0

Next == Main \/ Environment

Spec == Init /\ [][Next]_vars

\* The master is scheduled and its timer fires; a child that was sent
\* SIGKILL dies, and so does one that was asked to stop and does not hang.
Fairness ==
  /\ WF_vars(Main)
  /\ WF_vars(pc # "exit" /\ TimerFires)
  /\ \A s \in 1..MaxProcesses :
       /\ WF_vars(pc # "exit" /\ s \in Slots /\ ChildKilled(s))
       /\ WF_vars(pc # "exit" /\ s \in Slots /\ ChildStops(s))

FairSpec == Spec /\ Fairness
-----------------------------------------------------------------------------
\* The table agrees with the kernel: a slot is marked exited exactly when
\* its process has been waited for, and a zombie always has a SIGCHLD coming:
\* no death goes unnoticed, however the signals merge.
TableMatchesKernel ==
  \A s \in Slots :
    /\ slots[s].exited <=> slots[s].os = "reaped"
    /\ slots[s].os = "zombie" => "CHLD" \in pending

\* When the master leaves its loop, no child but a new binary is left,
\* neither running nor as a zombie.
ExitLeavesNoChild ==
  pc = "exit" => \A s \in Slots : slots[s].detached \/ slots[s].os = "reaped"

\* SIGKILL is the last resort: when it is sent, the timer has gone off at
\* least five times (50 + 100 + ... + 800 ms) since the first SIGTERM.
KillAfterGrace == \A s \in Slots : "KILL" \in slots[s].got => alarms >= 5

\* Once ca_quit is set, no process is created or respawned any more.
NoSpawnAfterQuit ==
  [][quit => /\ Len(slots') = Len(slots)
             /\ \A s \in Slots : slots[s].os = "reaped" => slots'[s].os = "reaped"
    ]_vars

\* A new binary is never left to run beside a master that stays.
UpgradeHandsOver ==
  (\E s \in Slots : slots[s].detached) => quit \/ "QUIT" \in pending

NewBinaryRuns == \E s \in Slots : slots[s].detached /\ Up(s)

\* After SIGTERM the master exits, even if every child hangs, unless a new
\* binary it is not allowed to signal runs on.  (A master that could not
\* fork a single child never learns that it has none.)
TerminateExits == term ~> (pc = "exit" \/ slots = <<>> \/ NewBinaryRuns)

\* After SIGQUIT it exits when no child hangs.
QuitExits == quit ~> \/ pc = "exit" \/ slots = <<>> \/ NewBinaryRuns
                     \/ \E s \in Slots : slots[s].os = "hung"

\* A child that dies is replaced, unless the master is stopping or fork fails.
DeadIsReplaced ==
  (\E s \in Slots : slots[s].os = "zombie" /\ slots[s].respawn)
     ~> \/ quit \/ term \/ nforkfails > 0
        \/ \A s \in Slots : slots[s].respawn => Up(s)
=============================================================================
