------------------------------- MODULE Update -------------------------------
(***************************************************************************)
(* The update process (src/src/ca_update.c): ca_update_process_cycle asks  *)
(* a server for a version, compares it with its own, and runs an updater   *)
(* in a child for which it waits.  Its signals are never blocked: they are *)
(* handled between any two steps and interrupt wait and sleep.             *)
(***************************************************************************)
EXTENDS Integers, SequencesExt

CONSTANTS
  Responses,     \* bodies a server sends: sequences of components, each a
                 \* sequence of hexadecimal digits (NotHex for other bytes)
  NotHex,
  WordSize,      \* 2^32 in the code: the values of an int
  CaVersion,     \* CA_VERSION, as a body
  CaVersionHex,  \* CA_VERSION_HEX
  MaxProcesses,  \* CA_MAX_PROCESSES
  MaxSignals,    \* bound: signals to this process
  MaxForkFails   \* bound: forks that fail

ASSUME BoundsAssumption == /\ WordSize \in Nat \ {0}
                           /\ MaxProcesses \in Nat \ {0}
                           /\ MaxSignals \in Nat /\ MaxForkFails \in Nat

VARIABLES
  pc,               \* where the cycle stands
  quit, terminate,  \* ca_quit, ca_terminate
  served,           \* response
  child,            \* the updater: "none", "forked", "running" or "zombie"
  told,             \* SIGTERM is pending or was caught by the updater itself
  nslots,           \* ca_last_process: slots of ca_processes in use
  nsignals, nfails,
  ends,             \* the updater ends without being told (never changes)
  heard             \* history: a stop interrupted the wait for an updater

vars == <<pc, quit, terminate, served, child, told, nslots, nsignals, nfails,
          ends, heard>>

Goto(from, to) == pc = from /\ pc' = to
-----------------------------------------------------------------------------
(***************************************************************************)
(* ca_need_update and ca_hextoi.                                           *)
(***************************************************************************)
CaError == -1

Wrap(v) == LET w == v % WordSize
           IN  IF 2 * w >= WordSize THEN w - WordSize ELSE w

HexToInt(digits) ==
  LET value == FoldLeft(LAMBDA v, d : Wrap(v * 16 + d), 0, digits)
  IN  IF digits = <<>> \/ value < 0 THEN CaError ELSE value

ca_hextoi(digits) == IF \E i \in DOMAIN digits : digits[i] = NotHex
                     THEN CaError ELSE HexToInt(digits)

\* The loop leaves at the last component before it is converted.
Compared(r) == SubSeq(r, 1, Len(r) - 1)

Invalid(r) == \/ Len(r) > 3
              \/ \E i \in DOMAIN Compared(r) :
                   ca_hextoi(r[i]) \notin 0..255

Version(r) == FoldLeft(LAMBDA v, c : v * 256 + ca_hextoi(c), 0, Compared(r))

\* Mutant: 0 is a version like any other.
NeedUpdateZero(r) == ~Invalid(r) /\ Version(r) # CaVersionHex

NeedUpdate(r) == /\ ~Invalid(r)
                 /\ Version(r) # 0
                 /\ Version(r) # CaVersionHex
-----------------------------------------------------------------------------
(***************************************************************************)
(* ca_update_process_cycle.                                                *)
(***************************************************************************)
Stopping == quit \/ terminate

\* curl_global_init may fail, and the process ends with it.
Begin == /\ \/ Goto("begin", "top")
            \/ Goto("begin", "gone")
         /\ UNCHANGED <<quit, terminate, served, child, told, nslots, nsignals,
                        nfails, ends, heard>>

Top == /\ Goto("top", IF Stopping THEN "gone" ELSE "fetch")
       /\ UNCHANGED <<quit, terminate, served, child, told, nslots, nsignals,
                      nfails, ends, heard>>

\* curl_easy_perform: a body with code 200; another code, an error or a body
\* that curl_write_cb cannot take; or no end, for there is no timeout.
Fetch == /\ \/ \E r \in Responses : Goto("fetch", "compare") /\ served' = r
            \/ Goto("fetch", "next") /\ UNCHANGED served
            \/ Goto("fetch", "hung") /\ UNCHANGED served
         /\ UNCHANGED <<quit, terminate, child, told, nslots, nsignals, nfails,
                        ends, heard>>

Compare == /\ Goto("compare", IF NeedUpdate(served) THEN "spawn" ELSE "next")
           /\ UNCHANGED <<quit, terminate, served, child, told, nslots,
                          nsignals, nfails, ends, heard>>

\* ca_spawn_process: the slot of an updater that has ended is not given back.
NoSlot == nslots = MaxProcesses

\* ca_update: the child still has the handlers of this process.
Spawn == /\ ~NoSlot
         /\ Goto("spawn", "wait")
         /\ child' = "forked"
         /\ told' = FALSE
         /\ nslots' = nslots + 1
         /\ UNCHANGED <<quit, terminate, served, nsignals, nfails, ends, heard>>

SpawnFails == /\ \/ NoSlot /\ UNCHANGED nfails
                 \/ nfails < MaxForkFails /\ nfails' = nfails + 1
              /\ Goto("spawn", "next")
              /\ UNCHANGED <<quit, terminate, served, child, told, nslots,
                             nsignals, ends, heard>>

\* wait returns the updater, whatever its status.  It cannot fail otherwise:
\* nobody else reaps the updater.
WaitReturns == /\ Goto("wait", "next")
               /\ child = "zombie"
               /\ child' = "none"
               /\ UNCHANGED <<quit, terminate, served, told, nslots, nsignals,
                              nfails, ends, heard>>

\* Mutant: the interrupted wait is resumed without a look at the flags.
PassOnNothing == UNCHANGED told

\* kill(pid, SIGTERM), once per interruption.  A child before its exec only
\* sets a flag of its own, which exec forgets.
PassOn == told' = (told \/ (Stopping /\ child = "running"))

\* Mutant: after an interrupted wait nobody waits any longer.
InterruptedLeaves == /\ Goto("eintr", "next")
                     /\ PassOn
                     /\ UNCHANGED <<quit, terminate, served, child, nslots,
                                    nsignals, nfails, ends, heard>>

\* EINTR.
Interrupted == /\ Goto("eintr", "wait")
               /\ PassOn
               /\ UNCHANGED <<quit, terminate, served, child, nslots, nsignals,
                              nfails, ends, heard>>

\* The label next, where pid is CA_INVALID_PID on every path; the kill after
\* the loop is never reached with another one.
NextCheck == /\ Goto("next", IF Stopping THEN "gone" ELSE "sleep")
             /\ UNCHANGED <<quit, terminate, served, child, told, nslots,
                            nsignals, nfails, ends, heard>>

\* sleep(conf->check_interval) is over.
SleepEnds == /\ Goto("sleep", "top")
             /\ UNCHANGED <<quit, terminate, served, child, told, nslots,
                            nsignals, nfails, ends, heard>>

Cycle == \/ Begin \/ Top \/ Fetch \/ Compare \/ Spawn \/ SpawnFails
         \/ WaitReturns \/ Interrupted \/ NextCheck \/ SleepEnds
-----------------------------------------------------------------------------
(***************************************************************************)
(* ca_signal_handler in this process.  The other signals (SIGCHLD too) set *)
(* nothing this process reads, but interrupt its calls.                    *)
(***************************************************************************)
Handles(sets) ==
  /\ nsignals < MaxSignals
  /\ nsignals' = nsignals + 1
  /\ pc # "gone"
  /\ quit'      = (quit \/ sets = "quit")
  /\ terminate' = (terminate \/ sets = "terminate")
  /\ \/ pc = "wait" /\ child # "zombie" /\ pc' = "eintr"
     \/ pc = "sleep" /\ pc' = "top"
     \/ pc' = pc    \* or just before the call blocks
  /\ heard' = (heard \/ (pc' = "eintr" /\ child = "running" /\ Stopping'))
  /\ UNCHANGED <<served, child, told, nslots, nfails, ends>>

Signal == \E sets \in {"quit", "terminate", "nothing"} : Handles(sets)
-----------------------------------------------------------------------------
(***************************************************************************)
(* The updater.                                                            *)
(***************************************************************************)
\* ca_execute_proc: execve, which resets the handlers, or exit(1).
Exec == /\ child = "forked"
        /\ child' \in {"running", "zombie"}
        /\ UNCHANGED <<pc, quit, terminate, served, told, nslots, nsignals,
                       nfails, ends, heard>>

Dies == /\ child = "running"
        /\ child' = "zombie"
        /\ UNCHANGED <<pc, quit, terminate, served, told, nslots, nsignals,
                       nfails, ends, heard>>

Updater == Exec \/ Dies
-----------------------------------------------------------------------------
\* The flags are the master's at the fork: it also respawns while terminating.
\* The slots are those the master had used.
Init == /\ pc = "begin"
        /\ quit \in BOOLEAN /\ terminate \in BOOLEAN
        /\ served = <<>>
        /\ child = "none" /\ told = FALSE
        /\ nslots \in 1..MaxProcesses
        /\ nsignals = 0 /\ nfails = 0
        /\ ends \in BOOLEAN
        /\ heard = FALSE

Next == Cycle \/ Signal \/ Updater

\* The process and the updater run; a SIGTERM kills an updater, and one that
\* ends by itself ends.  No signal has to come.
Fairness == /\ WF_vars(Cycle)
            /\ WF_vars(Exec)
            /\ WF_vars(told /\ Dies)
            /\ WF_vars(ends /\ Dies)

Spec == Init /\ [][Next]_vars /\ Fairness
-----------------------------------------------------------------------------
\* A stop ends the process unless the fetch hangs: always when the updater
\* ends by itself, and when it does not, if the stop interrupted the wait for
\* a running updater.  Before its exec the updater forgets the SIGTERM, and a
\* stop that comes before wait does not interrupt it.
StopEnds == Stopping ~> (pc \in {"gone", "hung"} \/ (~ends /\ ~heard))

\* The process does not leave an updater behind.
NoOrphan == pc = "gone" => child = "none"

\* A server that serves the version this program has starts no update.
NoSelfUpdate == pc = "spawn" => served # CaVersion

\* "clagent do not need update", with this program's version, is said of this
\* program's version only (ca_update.c:219-220).
SameMeansSame ==
  (/\ pc = "compare" /\ Len(served) = 3
   /\ ~Invalid(served) /\ Version(served) = CaVersionHex)
    => served = CaVersion
=============================================================================
