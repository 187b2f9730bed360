------------------------------ MODULE PidFile ------------------------------
(***************************************************************************)
(* Instances of clagent started and stopped side by side: main and the pid *)
(* file (src/src/clagent.c, src/src/ca_daemon.c).  An instance first tests *)
(* the file (pid_file_running), then creates it (pid_file_create) and      *)
(* becomes a master, or sends SIGTERM to the process the file names.       *)
(*                                                                         *)
(* Each system call is a step.  A file is named by the instance that made  *)
(* it, and the pid written into it is that instance's; Old is a file left  *)
(* by a process that died earlier.  Nobody removes the file at exit.       *)
(***************************************************************************)
EXTENDS Naturals

CONSTANTS
  Starters,    \* instances called with "start"
  Stoppers,    \* instances called with "stop"
  Old,         \* the file of an earlier run
  None,        \* no file
  MaxCrashes,  \* bound: instances killed by something else
  MaxFails     \* bound: calls of ca_log_init or write() that fail

ASSUME InstancesAssumption == /\ Starters \cap Stoppers = {}
                              /\ Old \notin Starters \cup Stoppers
                              /\ None \notin Starters \cup Stoppers \cup {Old}
ASSUME BoundsAssumption    == MaxCrashes \in Nat /\ MaxFails \in Nat

Instances == Starters \cup Stoppers
Files     == Starters \cup {Old}

VARIABLES
  pc,        \* where each instance stands
  path,      \* the file the path of the directive "pid" leads to
  written,   \* the files with a pid in them; the others are empty
  fd,        \* the file each instance has open
  lock,      \* its lock on that file
  found,     \* pid, what pid_file_running returns
  termed,    \* the instances that were sent SIGTERM
  ncrashes, nfails,
  there,     \* history: the masters that were there when a stop began
  stolen     \* history: a file was removed that was not found to be stale

vars == <<pc, path, written, fd, lock, found, termed, ncrashes, nfails,
          there, stolen>>

\* kill(pid, 0) for the pid in file f.
Ended    == {"idle", "refused", "failed", "stopped", "dead"}
Alive(f) == f \in Starters /\ pc[f] \notin Ended

Masters == {i \in Starters : pc[i] = "master"}

Goto(i, from, to) == pc[i] = from /\ pc' = [pc EXCEPT ![i] = to]
-----------------------------------------------------------------------------
(***************************************************************************)
(* pid_file_running.                                                       *)
(***************************************************************************)
\* open(O_RDONLY): without a file nothing runs.
Open(i) ==
  /\ \/ /\ path = None
        /\ Goto(i, "idle", "decide")
        /\ UNCHANGED fd
     \/ /\ path # None
        /\ Goto(i, "idle", "lock")
        /\ fd' = [fd EXCEPT ![i] = path]
  /\ there' = [there EXCEPT ![i] = Masters]
  /\ UNCHANGED <<path, written, lock, found, termed, ncrashes, nfails, stolen>>

Locked(f, kinds) == \E j \in Instances : fd[j] = f /\ lock[j] \in kinds

\* A descriptor that is only read cannot be locked for writing: EBADF, and a
\* read lock instead.  F_SETLKW waits for the creator to finish.
ReadLock(i) ==
  /\ ~Locked(fd[i], {"write"})
  /\ Goto(i, "lock", "read")
  /\ lock' = [lock EXCEPT ![i] = "read"]
  /\ UNCHANGED <<path, written, fd, found, termed, ncrashes, nfails, there,
                 stolen>>

\* An empty file is not a number: "corrupted, removing".
Read(i) ==
  /\ Goto(i, "read", IF fd[i] \in written THEN "probe" ELSE "unlink_bad")
  /\ UNCHANGED <<path, written, fd, lock, found, termed, ncrashes, nfails,
                 there, stolen>>

\* Mutant: a process that may not be signalled counts as dead.
ProbeAnswers(f) == FALSE

\* kill(pid, 0) succeeds, or fails with EPERM.
ProbeFinds(f) == Alive(f)

Probe(i) ==
  /\ IF ProbeFinds(fd[i])
     THEN Goto(i, "probe", "close") /\ found' = [found EXCEPT ![i] = fd[i]]
     ELSE Goto(i, "probe", "unlink_dead") /\ UNCHANGED found
  /\ UNCHANGED <<path, written, fd, lock, termed, ncrashes, nfails, there,
                 stolen>>

\* What unlink removes is not what was read, or its creator is not finished.
Steals(i) == path # fd[i] \/ (path \notin written /\ Alive(path))

\* Mutant: the file of a dead process is left where it is.
UnlinkKeeps(i) == UNCHANGED path

Unlink(i) == path' = None

UnlinkDead(i) ==
  /\ Goto(i, "unlink_dead", "close")
  /\ Unlink(i)
  /\ stolen' = (stolen \/ (path # None /\ Steals(i)))
  /\ UNCHANGED <<written, fd, lock, found, termed, ncrashes, nfails, there>>

\* found is "error": CA_ERROR.
UnlinkBad(i) ==
  /\ Goto(i, "unlink_bad", "close")
  /\ path' = None
  /\ stolen' = (stolen \/ (path # None /\ Steals(i)))
  /\ found' = [found EXCEPT ![i] = "error"]
  /\ UNCHANGED <<written, fd, lock, termed, ncrashes, nfails, there>>

\* Unlocking and closing are one step: nobody can tell them apart.
Close(i, from, to) ==
  /\ Goto(i, from, to)
  /\ fd'   = [fd EXCEPT ![i] = None]
  /\ lock' = [lock EXCEPT ![i] = "none"]
  /\ UNCHANGED <<path, written, found, termed, ncrashes, nfails, there, stolen>>

TestEnds(i) == Close(i, "close", "decide")

Running(i) == \/ Open(i) \/ ReadLock(i) \/ Read(i) \/ Probe(i)
              \/ UnlinkDead(i) \/ UnlinkBad(i) \/ TestEnds(i)
-----------------------------------------------------------------------------
(***************************************************************************)
(* main with the action "start": ca_log_init, ca_daemonize and             *)
(* pid_file_create.                                                        *)
(***************************************************************************)
Refuse(i) ==
  /\ found[i] # None
  /\ Goto(i, "decide", "refused")
  /\ UNCHANGED <<path, written, fd, lock, found, termed, ncrashes, nfails,
                 there, stolen>>

Fails == nfails < MaxFails /\ nfails' = nfails + 1

\* The log is opened; the parent exits and the child goes on as the instance.
Daemonize(i) ==
  /\ found[i] = None
  /\ \/ Goto(i, "decide", "create") /\ UNCHANGED nfails
     \/ Goto(i, "decide", "failed") /\ Fails
  /\ UNCHANGED <<path, written, fd, lock, found, termed, ncrashes, there,
                 stolen>>

\* Mutant: the file is created without O_EXCL.
Absent == TRUE

\* open(O_CREAT|O_EXCL).
Exclusive == path = None

Create(i) ==
  \/ /\ Exclusive
     /\ Goto(i, "create", "write_lock")
     /\ path' = i
     /\ fd' = [fd EXCEPT ![i] = i]
     /\ UNCHANGED <<written, lock, found, termed, ncrashes, nfails, there,
                    stolen>>
  \/ /\ ~Exclusive
     /\ Goto(i, "create", "failed")
     /\ UNCHANGED <<path, written, fd, lock, found, termed, ncrashes, nfails,
                    there, stolen>>

\* The lock may have to wait for somebody who is reading the empty file.
WriteLock(i) ==
  /\ ~Locked(i, {"read", "write"})
  /\ Goto(i, "write_lock", "write")
  /\ lock' = [lock EXCEPT ![i] = "write"]
  /\ UNCHANGED <<path, written, fd, found, termed, ncrashes, nfails, there,
                 stolen>>

\* The pid is written, or not and the file is removed.
Write(i) ==
  \/ /\ Goto(i, "write", "finish")
     /\ written' = written \cup {i}
     /\ UNCHANGED <<path, fd, lock, found, termed, ncrashes, nfails, there,
                    stolen>>
  \/ /\ Goto(i, "write", "give_up")
     /\ Fails
     /\ path' = None
     /\ stolen' = (stolen \/ path \notin {i, None})
     /\ UNCHANGED <<written, fd, lock, found, termed, ncrashes, there>>

BecomeMaster(i) == Close(i, "finish", "master")
GiveUp(i)       == Close(i, "give_up", "failed")

Start(i) == \/ Refuse(i) \/ Daemonize(i) \/ Create(i) \/ WriteLock(i)
            \/ Write(i) \/ BecomeMaster(i) \/ GiveUp(i)
-----------------------------------------------------------------------------
(***************************************************************************)
(* main with the action "stop", and the ends of instances.                 *)
(***************************************************************************)
\* SIGTERM to the process the file names; it may have ended since.
Stop(i) ==
  /\ \/ /\ found[i] \in Starters
        /\ Goto(i, "decide", "stopped")
        /\ termed' = IF Alive(found[i]) THEN termed \cup {found[i]} ELSE termed
     \/ /\ found[i] \notin Starters
        /\ Goto(i, "decide", "refused")
        /\ UNCHANGED termed
  /\ UNCHANGED <<path, written, fd, lock, found, ncrashes, nfails, there,
                 stolen>>

Ends(i) ==
  /\ fd'    = [fd EXCEPT ![i] = None]
  /\ lock'  = [lock EXCEPT ![i] = "none"]
  /\ there' = [j \in Instances |-> there[j] \ {i}]
  /\ UNCHANGED <<path, written, found, termed, nfails, stolen>>

\* A master that was sent SIGTERM ends, as Master shows.
MasterEnds(i) == /\ i \in termed
                 /\ Goto(i, "master", "dead")
                 /\ Ends(i)
                 /\ UNCHANGED ncrashes

\* An instance is killed at any point; the kernel drops its locks.
Crash(i) == /\ ncrashes < MaxCrashes
            /\ ncrashes' = ncrashes + 1
            /\ pc[i] \notin Ended
            /\ Goto(i, pc[i], "dead")
            /\ Ends(i)
-----------------------------------------------------------------------------
\* The first file may be there: with the pid of a dead process, or empty when
\* that process died before it wrote.
Init == /\ pc = [i \in Instances |-> "idle"]
        /\ path \in {None, Old}
        /\ written \in SUBSET {Old}
        /\ fd = [i \in Instances |-> None]
        /\ lock = [i \in Instances |-> "none"]
        /\ found = [i \in Instances |-> None]
        /\ termed = {} /\ ncrashes = 0 /\ nfails = 0
        /\ there = [i \in Instances |-> {}]
        /\ stolen = FALSE

Next == \/ \E i \in Instances : Running(i) \/ Crash(i)
        \/ \E i \in Starters  : Start(i) \/ MasterEnds(i)
        \/ \E i \in Stoppers  : Stop(i)

Spec == Init /\ [][Next]_vars
-----------------------------------------------------------------------------
\* One master: an instance that finds another one refuses to start, with
\* "clagent[%d] has been running" (clagent.c:1008).
SingleMaster == \A i, j \in Masters : i = j

\* Two masters need a theft: between the test of the file and its creation an
\* instance must have removed a file that another one had just made.  As long
\* as nobody does, O_EXCL and the test of the pid keep masters apart, whatever
\* crashes, fails to write or is stopped in between.
OnlyTheftDoubles == SingleMaster \/ stolen

\* When several instances start at once they do not keep each other out: if
\* nothing crashed, failed or was stopped, somebody runs in the end (an empty
\* file, which costs one start, and those who only stop apart).
SomebodyRuns ==
  (/\ Starters # {}
   /\ \A i \in Starters : pc[i] \in {"refused", "failed", "master"}
   /\ ncrashes = 0 /\ nfails = 0 /\ termed = {}
   /\ Old \in written)
    => Masters # {}

\* A stop that begins when a master runs finds it, unless the file was stolen
\* or the master ended by itself meanwhile.
StopFindsMaster ==
  \A i \in Stoppers : pc[i] = "refused" => there[i] = {} \/ stolen
=============================================================================
