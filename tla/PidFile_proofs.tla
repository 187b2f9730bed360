--------------------------- MODULE PidFile_proofs ---------------------------
(***************************************************************************)
(* Proofs that two masters need a theft, that one of several starters      *)
(* runs, and that a stop finds a running master, for any number of         *)
(* instances, crashes and failed writes.                                   *)
(*                                                                         *)
(* The argument: as long as nothing was stolen, the path leads to the file *)
(* of every instance from its creation on (OwnersHold), so there is one at *)
(* most.  Only an unlink could take the path away.  The file of a process  *)
(* that was found dead is nobody's who lives (DeadStays), and one that was *)
(* found empty stays empty while its finder holds a read lock (BadStays).  *)
(*                                                                         *)
(* With nothing stolen, an instance that comes after a finished master     *)
(* meets its file at every step (Meets), which decides what a stop finds.  *)
(* Where nobody crashes and no write fails, the file on the path always    *)
(* has an owner who goes on to become a master (Hopeful).                  *)
(***************************************************************************)
EXTENDS PidFile, TLAPS

PCs == {"idle", "lock", "read", "probe", "unlink_dead", "unlink_bad", "close",
        "decide", "create", "write_lock", "write", "finish", "give_up",
        "master", "refused", "failed", "stopped", "dead"}

TypeOK == /\ pc \in [Instances -> PCs]
          /\ path \in Files \cup {None}
          /\ written \subseteq Files
          /\ fd \in [Instances -> Files \cup {None}]
          /\ lock \in [Instances -> {"none", "read", "write"}]
          /\ stolen \in BOOLEAN

Readers == {"read", "probe", "unlink_dead", "unlink_bad", "close"}
Writers == {"write", "finish", "give_up"}
Owners  == {"write_lock", "write", "finish", "master"}
Over    == Ended \ {"idle"}

\* What an instance holds is told by where it stands.
Holds == \A i \in Instances :
  /\ pc[i] \in Readers \cup {"lock"}       => fd[i] \in Files
  /\ pc[i] \in Writers \cup {"write_lock"} => fd[i] = i
  /\ pc[i] \in Readers <=> lock[i] = "read"
  /\ pc[i] \in Writers <=> lock[i] = "write"

\* A writer has its file to itself.
Excluded == \A i, j \in Instances :
  lock[i] = "write" /\ lock[j] # "none" /\ fd[i] = fd[j] => i = j

\* A file has a creator, who has begun.
Begun == /\ path \in Starters => pc[path] # "idle"
         /\ \A j \in Instances : fd[j] \in Starters => pc[fd[j]] # "idle"

DeadStays == \A j \in Instances :
  pc[j] = "unlink_dead" /\ fd[j] \in Starters => pc[fd[j]] \in Over

BadStays == \A j \in Instances : pc[j] = "unlink_bad" => fd[j] \notin written

OwnersHold == stolen \/ \A i \in Starters : pc[i] \in Owners => path = i

IInv == /\ TypeOK /\ Holds /\ Excluded /\ Begun /\ DeadStays /\ BadStays
        /\ OwnersHold

\* What a stop that began while a master ran knows of it.
Finished == \A m \in Starters : pc[m] \in {"finish", "master"} => m \in written

Met(i, m) ==
  /\ m \in Masters
  /\ pc[i] \in {"lock", "read", "probe", "close", "decide", "stopped", "dead"}
  /\ pc[i] \in {"lock", "read", "probe"} => fd[i] = m
  /\ pc[i] \in {"close", "decide"} => found[i] = m

Meets == /\ there \in [Instances -> SUBSET Starters]
         /\ found \in [Instances -> Files \cup {None, "error"}]
         /\ stolen \/ \A i \in Stoppers : \A m \in there[i] : Met(i, m)

\* Nothing has gone wrong so far, but an instance may have been refused.
Calm  == ncrashes = 0 /\ nfails = 0 /\ termed = {} /\ Old \in written
Owned == \E k \in Starters : pc[k] \in Owners

\* Then every file of this run is its living creator's, and who is refused, or
\* fails to create the file, has met one.
Hopeful ==
  /\ ncrashes \in Nat /\ nfails \in Nat
  /\ Calm =>
       /\ \A i \in Starters : pc[i] \notin {"give_up", "dead", "stopped"}
       /\ path \in Starters => pc[path] \in Owners
       /\ \A j \in Instances : fd[j] \in Starters => pc[fd[j]] \in Owners
       /\ \A i \in Starters :
            /\ found[i] # None \/ pc[i] \in {"unlink_bad", "refused", "failed"}
                 => Owned
            /\ pc[i] \in {"close", "decide", "create"} => path = None \/ Owned
-----------------------------------------------------------------------------
USE InstancesAssumption

LEMMA InitIInv == Init => IInv
<1> SUFFICES ASSUME Init PROVE IInv
  OBVIOUS
<1>1. TypeOK
  BY DEF Init, TypeOK, PCs, Files, Instances
<1>2. Holds /\ Excluded
  BY DEF Init, Holds, Excluded, Readers, Writers
<1>3. Begun /\ DeadStays /\ BadStays
  BY DEF Init, Begun, DeadStays, BadStays, Files
<1>4. OwnersHold
  BY DEF Init, OwnersHold, Owners, Instances
<1> QED  BY <1>1, <1>2, <1>3, <1>4 DEF IInv

\* A step that leaves files, descriptors and locks alone.
LEMMA MovesIInv ==
  ASSUME IInv, NEW i \in Instances, NEW to \in PCs,
         pc' = [pc EXCEPT ![i] = to], pc[i] \notin Over,
         UNCHANGED <<path, written, fd, lock, stolen>>,
         to \notin {"idle", "lock", "write_lock", "unlink_dead", "unlink_bad"},
         to \in Owners => pc[i] \in Owners,
         to \in Readers <=> pc[i] \in Readers,
         to \in Writers <=> pc[i] \in Writers
  PROVE  IInv'
<1>1. TypeOK'
  BY DEF IInv, TypeOK, PCs, Files
<1>2. Holds'
  BY DEF IInv, TypeOK, Holds, Readers, Writers, Files
<1>3. Excluded'
  BY DEF IInv, TypeOK, Excluded, Holds, Readers, Writers
<1>4. Begun'
  BY DEF IInv, TypeOK, Begun, Files, Instances
<1>5. DeadStays'
  BY DEF IInv, TypeOK, DeadStays, Over, Ended, Files, Instances, Holds, Readers
<1>6. BadStays'
  BY DEF IInv, TypeOK, BadStays, Holds, Readers
<1>7. OwnersHold'
  BY DEF IInv, TypeOK, OwnersHold, Owners, Instances
<1> QED  BY <1>1, <1>2, <1>3, <1>4, <1>5, <1>6, <1>7 DEF IInv

\* A step with which an instance closes its file.
LEMMA LeavesIInv ==
  ASSUME IInv, NEW i \in Instances,
         NEW to \in {"decide", "master", "failed", "dead"},
         pc' = [pc EXCEPT ![i] = to], pc[i] \notin Over,
         to = "master" => pc[i] = "finish",
         fd' = [fd EXCEPT ![i] = None], lock' = [lock EXCEPT ![i] = "none"],
         UNCHANGED <<path, written, stolen>>
  PROVE  IInv'
<1>1. TypeOK'
  BY DEF IInv, TypeOK, PCs, Files
<1>2. Holds'
  BY DEF IInv, TypeOK, Holds, Readers, Writers, Files
<1>3. Excluded'
  BY DEF IInv, TypeOK, Excluded, Holds, Readers, Writers
<1>4. Begun'
  BY DEF IInv, TypeOK, Begun, Files, Instances
<1>5. DeadStays'
  BY DEF IInv, TypeOK, DeadStays, Over, Ended, Files, Instances, Holds, Readers
<1>6. BadStays'
  BY DEF IInv, TypeOK, BadStays, Holds, Readers
<1>7. OwnersHold'
  BY DEF IInv, TypeOK, OwnersHold, Owners, Instances
<1> QED  BY <1>1, <1>2, <1>3, <1>4, <1>5, <1>6, <1>7 DEF IInv

LEMMA StepIInv == IInv /\ [Next]_vars => IInv'
<1> SUFFICES ASSUME IInv, [Next]_vars PROVE IInv'
  OBVIOUS
<1> USE DEF Instances
<1>1. ASSUME NEW i \in Instances, Open(i)  PROVE IInv'
  <2>1. TypeOK'
    BY <1>1 DEF IInv, TypeOK, Open, Goto, PCs, Files, Instances
  <2>2. Holds'
    BY <1>1 DEF IInv, TypeOK, Open, Goto, Holds, Readers, Writers, Files
  <2>3. Excluded'
    BY <1>1 DEF IInv, TypeOK, Open, Goto, Excluded, Holds, Readers, Writers
  <2>4. Begun'
    BY <1>1 DEF IInv, TypeOK, Open, Goto, Begun, Files, Instances
  <2>5. DeadStays'
    BY <1>1 DEF IInv, TypeOK, Open, Goto, DeadStays, Over, Ended, Files,
         Instances, Begun
  <2>6. BadStays'
    BY <1>1 DEF IInv, TypeOK, Open, Goto, BadStays, Holds, Readers, Writers
  <2>7. OwnersHold'
    BY <1>1 DEF IInv, TypeOK, Open, Goto, OwnersHold, Owners, Instances
  <2> QED  BY <2>1, <2>2, <2>3, <2>4, <2>5, <2>6, <2>7 DEF IInv
<1>2. ASSUME NEW i \in Instances, ReadLock(i)  PROVE IInv'
  <2>1. TypeOK'
    BY <1>2 DEF IInv, TypeOK, ReadLock, Goto, PCs, Files, Instances
  <2>2. Holds'
    BY <1>2 DEF IInv, TypeOK, ReadLock, Goto, Holds, Readers, Writers, Files
  <2>3. Excluded'
    BY <1>2 DEF IInv, TypeOK, ReadLock, Goto, Excluded, Holds, Readers, Writers,
         Locked
  <2>4. Begun'
    BY <1>2 DEF IInv, TypeOK, ReadLock, Goto, Begun, Files, Instances
  <2>5. DeadStays'
    BY <1>2 DEF IInv, TypeOK, ReadLock, Goto, DeadStays, Over, Ended, Files,
         Instances, Begun
  <2>6. BadStays'
    BY <1>2 DEF IInv, TypeOK, ReadLock, Goto, BadStays, Holds, Readers, Writers
  <2>7. OwnersHold'
    BY <1>2 DEF IInv, TypeOK, ReadLock, Goto, OwnersHold, Owners, Instances
  <2> QED  BY <2>1, <2>2, <2>3, <2>4, <2>5, <2>6, <2>7 DEF IInv
<1>3. ASSUME NEW i \in Instances, Read(i)  PROVE IInv'
  <2>1. TypeOK'
    BY <1>3 DEF IInv, TypeOK, Read, Goto, PCs, Files, Instances
  <2>2. Holds'
    BY <1>3 DEF IInv, TypeOK, Read, Goto, Holds, Readers, Writers, Files
  <2>3. Excluded'
    BY <1>3 DEF IInv, TypeOK, Read, Goto, Excluded, Holds, Readers, Writers
  <2>4. Begun'
    BY <1>3 DEF IInv, TypeOK, Read, Goto, Begun, Files, Instances
  <2>5. DeadStays'
    BY <1>3 DEF IInv, TypeOK, Read, Goto, DeadStays, Over, Ended, Files,
         Instances, Begun
  <2>6. BadStays'
    BY <1>3 DEF IInv, TypeOK, Read, Goto, BadStays, Holds, Readers, Writers
  <2>7. OwnersHold'
    BY <1>3 DEF IInv, TypeOK, Read, Goto, OwnersHold, Owners, Instances
  <2> QED  BY <2>1, <2>2, <2>3, <2>4, <2>5, <2>6, <2>7 DEF IInv
<1>4. ASSUME NEW i \in Instances, Probe(i)  PROVE IInv'
  <2>1. TypeOK'
    BY <1>4 DEF IInv, TypeOK, Probe, Goto, PCs, Files, Instances
  <2>2. Holds'
    BY <1>4 DEF IInv, TypeOK, Probe, Goto, Holds, Readers, Writers, Files
  <2>3. Excluded'
    BY <1>4 DEF IInv, TypeOK, Probe, Goto, Excluded, Holds, Readers, Writers
  <2>4. Begun'
    BY <1>4 DEF IInv, TypeOK, Probe, Goto, Begun, Files, Instances
  <2>5. DeadStays'
    BY <1>4 DEF IInv, TypeOK, Probe, Goto, DeadStays, Over, Ended, Files,
         Instances, Begun, ProbeFinds, Alive
  <2>6. BadStays'
    BY <1>4 DEF IInv, TypeOK, Probe, Goto, BadStays, Holds, Readers, Writers
  <2>7. OwnersHold'
    BY <1>4 DEF IInv, TypeOK, Probe, Goto, OwnersHold, Owners, Instances
  <2> QED  BY <2>1, <2>2, <2>3, <2>4, <2>5, <2>6, <2>7 DEF IInv
<1>5. ASSUME NEW i \in Instances, UnlinkDead(i)  PROVE IInv'
  <2>1. TypeOK'
    BY <1>5 DEF IInv, TypeOK, UnlinkDead, Goto, PCs, Files, Instances, Unlink,
         Steals
  <2>2. Holds'
    BY <1>5 DEF IInv, TypeOK, UnlinkDead, Goto, Holds, Readers, Writers, Files
  <2>3. Excluded'
    BY <1>5
    DEF IInv, TypeOK, UnlinkDead, Goto, Excluded, Holds, Readers, Writers
  <2>4. Begun'
    BY <1>5 DEF IInv, TypeOK, UnlinkDead, Goto, Begun, Files, Instances, Unlink
  <2>5. DeadStays'
    BY <1>5 DEF IInv, TypeOK, UnlinkDead, Goto, DeadStays, Over, Ended, Files,
         Instances, Begun
  <2>6. BadStays'
    BY <1>5
    DEF IInv, TypeOK, UnlinkDead, Goto, BadStays, Holds, Readers, Writers
  <2>7. OwnersHold'
    <3> SUFFICES ASSUME ~stolen', NEW k \in Starters, pc'[k] \in Owners
                 PROVE  FALSE
      BY DEF OwnersHold
    <3>1. pc[k] \in Owners /\ ~stolen
      BY <1>5 DEF IInv, TypeOK, UnlinkDead, Goto, Owners
    <3>2. path = k
      BY <3>1 DEF IInv, OwnersHold
    <3>3. ~Steals(i)
      BY <1>5, <3>2, InstancesAssumption DEF UnlinkDead
    <3> QED
      BY <1>5, <3>1, <3>2, <3>3
      DEF IInv, UnlinkDead, Goto, Steals, Owners, DeadStays, Over, Ended
  <2> QED  BY <2>1, <2>2, <2>3, <2>4, <2>5, <2>6, <2>7 DEF IInv
<1>6. ASSUME NEW i \in Instances, UnlinkBad(i)  PROVE IInv'
  <2>1. TypeOK'
    BY <1>6 DEF IInv, TypeOK, UnlinkBad, Goto, PCs, Files, Instances, Steals
  <2>2. Holds'
    BY <1>6 DEF IInv, TypeOK, UnlinkBad, Goto, Holds, Readers, Writers, Files
  <2>3. Excluded'
    BY <1>6 DEF IInv, TypeOK, UnlinkBad, Goto, Excluded, Holds, Readers, Writers
  <2>4. Begun'
    BY <1>6 DEF IInv, TypeOK, UnlinkBad, Goto, Begun, Files, Instances
  <2>5. DeadStays'
    BY <1>6 DEF IInv, TypeOK, UnlinkBad, Goto, DeadStays, Over, Ended, Files,
         Instances, Begun
  <2>6. BadStays'
    BY <1>6 DEF IInv, TypeOK, UnlinkBad, Goto, BadStays, Holds, Readers, Writers
  <2>7. OwnersHold'
    <3> SUFFICES ASSUME ~stolen', NEW k \in Starters, pc'[k] \in Owners
                 PROVE  FALSE
      BY DEF OwnersHold
    <3>1. pc[k] \in Owners /\ ~stolen
      BY <1>6 DEF IInv, TypeOK, UnlinkBad, Goto, Owners
    <3>2. path = k
      BY <3>1 DEF IInv, OwnersHold
    <3>3. ~Steals(i)
      BY <1>6, <3>2, InstancesAssumption DEF UnlinkBad
    <3> QED
      BY <1>6, <3>1, <3>2, <3>3
      DEF IInv, UnlinkBad, Goto, Steals, Owners, BadStays, Alive, Ended
  <2> QED  BY <2>1, <2>2, <2>3, <2>4, <2>5, <2>6, <2>7 DEF IInv
<1>7. ASSUME NEW i \in Instances, TestEnds(i)  PROVE IInv'
  <2>1. pc' = [pc EXCEPT ![i] = "decide"] /\ pc[i] = "close"
    BY <1>7 DEF TestEnds, Close, Goto, Over, Ended
  <2> QED  BY <1>7, <2>1, LeavesIInv DEF TestEnds, Close, Goto, Over, Ended
<1>8. ASSUME NEW i \in Starters, Refuse(i)  PROVE IInv'
  <2>1. PICK to \in {"refused"} : pc' = [pc EXCEPT ![i] = to]
    BY <1>8 DEF Refuse, Goto
  <2> QED  BY <1>8, <2>1, MovesIInv
       DEF Refuse, Goto, PCs, Over, Ended, Owners, Readers, Writers
<1>9. ASSUME NEW i \in Starters, Daemonize(i)  PROVE IInv'
  <2>1. PICK to \in {"create", "failed"} : pc' = [pc EXCEPT ![i] = to]
    BY <1>9 DEF Daemonize, Goto
  <2> QED  BY <1>9, <2>1, MovesIInv
       DEF Daemonize, Goto, PCs, Over, Ended, Owners, Readers, Writers
<1>10. ASSUME NEW i \in Starters, Create(i)  PROVE IInv'
  <2>1. TypeOK'
    BY <1>10 DEF IInv, TypeOK, Create, Goto, PCs, Files, Instances, Exclusive
  <2>2. Holds'
    BY <1>10 DEF IInv, TypeOK, Create, Goto, Holds, Readers, Writers, Files
  <2>3. Excluded'
    BY <1>10 DEF IInv, TypeOK, Create, Goto, Excluded, Holds, Readers, Writers
  <2>4. Begun'
    BY <1>10 DEF IInv, TypeOK, Create, Goto, Begun, Files, Instances, Exclusive
  <2>5. DeadStays'
    BY <1>10 DEF IInv, TypeOK, Create, Goto, DeadStays, Over, Ended, Files,
         Instances, Begun
  <2>6. BadStays'
    BY <1>10 DEF IInv, TypeOK, Create, Goto, BadStays, Holds, Readers, Writers
  <2>7. OwnersHold'
    BY <1>10 DEF IInv, TypeOK, Create, Goto, OwnersHold, Owners, Instances,
         Exclusive
  <2> QED  BY <2>1, <2>2, <2>3, <2>4, <2>5, <2>6, <2>7 DEF IInv
<1>11. ASSUME NEW i \in Starters, WriteLock(i)  PROVE IInv'
  <2>1. TypeOK'
    BY <1>11 DEF IInv, TypeOK, WriteLock, Goto, PCs, Files, Instances
  <2>2. Holds'
    BY <1>11 DEF IInv, TypeOK, WriteLock, Goto, Holds, Readers, Writers, Files
  <2>3. Excluded'
    BY <1>11 DEF IInv, TypeOK, WriteLock, Goto, Excluded, Holds, Readers,
         Writers, Locked
  <2>4. Begun'
    BY <1>11 DEF IInv, TypeOK, WriteLock, Goto, Begun, Files, Instances
  <2>5. DeadStays'
    BY <1>11 DEF IInv, TypeOK, WriteLock, Goto, DeadStays, Over, Ended, Files,
         Instances, Begun
  <2>6. BadStays'
    BY <1>11
    DEF IInv, TypeOK, WriteLock, Goto, BadStays, Holds, Readers, Writers
  <2>7. OwnersHold'
    BY <1>11 DEF IInv, TypeOK, WriteLock, Goto, OwnersHold, Owners, Instances
  <2> QED  BY <2>1, <2>2, <2>3, <2>4, <2>5, <2>6, <2>7 DEF IInv
<1>12. ASSUME NEW i \in Starters, Write(i)  PROVE IInv'
  <2>1. TypeOK'
    BY <1>12 DEF IInv, TypeOK, Write, Goto, PCs, Files, Instances, Fails
  <2>2. Holds'
    BY <1>12 DEF IInv, TypeOK, Write, Goto, Holds, Readers, Writers, Files
  <2>3. Excluded'
    BY <1>12 DEF IInv, TypeOK, Write, Goto, Excluded, Holds, Readers, Writers
  <2>4. Begun'
    BY <1>12 DEF IInv, TypeOK, Write, Goto, Begun, Files, Instances
  <2>5. DeadStays'
    BY <1>12 DEF IInv, TypeOK, Write, Goto, DeadStays, Over, Ended, Files,
         Instances, Begun
  <2>6. BadStays'
    BY <1>12 DEF IInv, TypeOK, Write, Goto, BadStays, Holds, Readers, Writers,
         Excluded
  <2>7. OwnersHold'
    BY <1>12 DEF IInv, TypeOK, Write, Goto, OwnersHold, Owners, Instances
  <2> QED  BY <2>1, <2>2, <2>3, <2>4, <2>5, <2>6, <2>7 DEF IInv
<1>13. ASSUME NEW i \in Starters, BecomeMaster(i)  PROVE IInv'
  <2>1. pc' = [pc EXCEPT ![i] = "master"] /\ pc[i] = "finish"
    BY <1>13 DEF BecomeMaster, Close, Goto, Over, Ended
  <2> QED  BY <1>13, <2>1, LeavesIInv DEF BecomeMaster, Close, Goto, Over, Ended
<1>14. ASSUME NEW i \in Starters, GiveUp(i)  PROVE IInv'
  <2>1. pc' = [pc EXCEPT ![i] = "failed"] /\ pc[i] = "give_up"
    BY <1>14 DEF GiveUp, Close, Goto, Over, Ended
  <2> QED  BY <1>14, <2>1, LeavesIInv DEF GiveUp, Close, Goto, Over, Ended
<1>15. ASSUME NEW i \in Stoppers, Stop(i)  PROVE IInv'
  <2>1. PICK to \in {"stopped", "refused"} : pc' = [pc EXCEPT ![i] = to]
    BY <1>15 DEF Stop, Goto
  <2> QED  BY <1>15, <2>1, MovesIInv
       DEF Stop, Goto, PCs, Over, Ended, Owners, Readers, Writers
<1>16. ASSUME NEW i \in Starters, MasterEnds(i)  PROVE IInv'
  <2>1. pc' = [pc EXCEPT ![i] = "dead"] /\ pc[i] = "master"
    BY <1>16 DEF MasterEnds, Ends, Goto, Over, Ended
  <2> QED  BY <1>16, <2>1, LeavesIInv DEF MasterEnds, Ends, Goto, Over, Ended
<1>17. ASSUME NEW i \in Instances, Crash(i)  PROVE IInv'
  <2>1. pc' = [pc EXCEPT ![i] = "dead"] /\ pc[i] \notin Over
    BY <1>17 DEF Crash, Ends, Goto, Over, Ended
  <2> QED  BY <1>17, <2>1, LeavesIInv DEF Crash, Ends, Goto, Over, Ended
<1>18. CASE UNCHANGED vars
  BY <1>18 DEF vars, IInv, TypeOK, Holds, Excluded, Begun, DeadStays, BadStays,
       OwnersHold
<1> QED
  BY <1>1, <1>2, <1>3, <1>4, <1>5, <1>6, <1>7, <1>8, <1>9, <1>10, <1>11, <1>12,
       <1>13, <1>14, <1>15, <1>16, <1>17, <1>18 DEF Next, Running, Start
-----------------------------------------------------------------------------
\* Two masters would both lead the path to their own files.
LEMMA IInvOnlyTheftDoubles == IInv => OnlyTheftDoubles
  BY DEF IInv, OwnersHold, Owners, OnlyTheftDoubles, SingleMaster, Masters

\* What every instance holds, and the masters kept apart, follow from where the
\* instances stand (ca_daemon.c:188-289): the invariant of the proof.
THEOREM InstancesInvariant == Spec => []IInv
  BY InitIInv, StepIInv, PTL DEF Spec

\* However many instances are started, stopped and killed, and whatever fails:
\* there are two masters only if pid_file_running, or pid_file_create when its
\* write failed, removed a file that it had not found to be stale.
THEOREM MastersKeptApart == Spec => []OnlyTheftDoubles
  BY InstancesInvariant, IInvOnlyTheftDoubles, PTL
-----------------------------------------------------------------------------
LEMMA FinishedStep == IInv /\ Finished /\ [Next]_vars => Finished'
<1> SUFFICES ASSUME IInv, Finished, [Next]_vars  PROVE Finished'
  OBVIOUS
<1> USE DEF Instances
<1>1. ASSUME NEW i \in Instances, Open(i)  PROVE Finished'
  BY <1>1 DEF Open, Goto, IInv, TypeOK, Finished
<1>2. ASSUME NEW i \in Instances, ReadLock(i)  PROVE Finished'
  BY <1>2 DEF ReadLock, Goto, IInv, TypeOK, Finished
<1>3. ASSUME NEW i \in Instances, Read(i)  PROVE Finished'
  BY <1>3 DEF Read, Goto, IInv, TypeOK, Finished
<1>4. ASSUME NEW i \in Instances, Probe(i)  PROVE Finished'
  BY <1>4 DEF Probe, ProbeFinds, Alive, Ended, Goto, IInv, TypeOK, Finished
<1>5. ASSUME NEW i \in Instances, UnlinkDead(i)  PROVE Finished'
  BY <1>5 DEF UnlinkDead, Unlink, Goto, IInv, TypeOK, Finished
<1>6. ASSUME NEW i \in Instances, UnlinkBad(i)  PROVE Finished'
  BY <1>6 DEF UnlinkBad, Goto, IInv, TypeOK, Finished
<1>7. ASSUME NEW i \in Instances, TestEnds(i)  PROVE Finished'
  BY <1>7 DEF TestEnds, Close, Goto, IInv, TypeOK, Finished
<1>8. ASSUME NEW i \in Starters, Refuse(i)  PROVE Finished'
  BY <1>8 DEF Refuse, Goto, IInv, TypeOK, Finished
<1>9. ASSUME NEW i \in Starters, Daemonize(i)  PROVE Finished'
  BY <1>9 DEF Daemonize, Fails, Goto, IInv, TypeOK, Finished
<1>10. ASSUME NEW i \in Starters, Create(i)  PROVE Finished'
  BY <1>10 DEF Create, Exclusive, Goto, IInv, TypeOK, Finished
<1>11. ASSUME NEW i \in Starters, WriteLock(i)  PROVE Finished'
  BY <1>11 DEF WriteLock, Goto, IInv, TypeOK, Finished
<1>12. ASSUME NEW i \in Starters, Write(i)  PROVE Finished'
  BY <1>12 DEF Write, Fails, Goto, IInv, TypeOK, Finished
<1>13. ASSUME NEW i \in Starters, BecomeMaster(i)  PROVE Finished'
  BY <1>13 DEF BecomeMaster, Close, Goto, IInv, TypeOK, Finished
<1>14. ASSUME NEW i \in Starters, GiveUp(i)  PROVE Finished'
  BY <1>14 DEF GiveUp, Close, Goto, IInv, TypeOK, Finished
<1>15. ASSUME NEW i \in Stoppers, Stop(i)  PROVE Finished'
  BY <1>15 DEF Stop, Alive, Ended, Goto, IInv, TypeOK, Finished
<1>16. ASSUME NEW i \in Starters, MasterEnds(i)  PROVE Finished'
  BY <1>16 DEF MasterEnds, Ends, Goto, IInv, TypeOK, Finished
<1>17. ASSUME NEW i \in Instances, Crash(i)  PROVE Finished'
  BY <1>17 DEF Crash, Ends, Ended, Goto, IInv, TypeOK, Finished
<1>18. CASE UNCHANGED vars
  BY <1>18 DEF vars, IInv, TypeOK, Finished
<1> QED
  BY <1>1, <1>2, <1>3, <1>4, <1>5, <1>6, <1>7, <1>8, <1>9, <1>10, <1>11, <1>12,
     <1>13, <1>14, <1>15, <1>16, <1>17, <1>18
  DEF Next, Running, Start

LEMMA MeetsStep == IInv /\ Finished /\ Meets /\ [Next]_vars => Meets'
<1> SUFFICES ASSUME IInv, Finished, Meets, [Next]_vars  PROVE Meets'
  OBVIOUS
<1> USE DEF Instances
<1>1. ASSUME NEW i \in Instances, Open(i)  PROVE Meets'
  BY <1>1
  DEF Open, Goto, IInv, TypeOK, OwnersHold, Owners, Meets, Met, Masters, Files
<1>2. ASSUME NEW i \in Instances, ReadLock(i)  PROVE Meets'
  BY <1>2
  DEF ReadLock, Goto, IInv, TypeOK, OwnersHold, Owners, Meets, Met, Masters,
      Files
<1>3. ASSUME NEW i \in Instances, Read(i)  PROVE Meets'
  <2>1. ASSUME NEW m \in Starters, pc[m] = "master"  PROVE m \in written
    BY <2>1 DEF Finished
  <2> QED
    BY <1>3, <2>1 DEF Read, Goto, IInv, TypeOK, Meets, Met, Masters, Files
<1>4. ASSUME NEW i \in Instances, Probe(i)  PROVE Meets'
  BY <1>4
  DEF Probe, ProbeFinds, Alive, Ended, Goto, IInv, TypeOK, OwnersHold, Owners,
      Meets, Met, Masters, Files
<1>5. ASSUME NEW i \in Instances, UnlinkDead(i)  PROVE Meets'
  BY <1>5
  DEF UnlinkDead, Unlink, Goto, IInv, TypeOK, OwnersHold, Owners, Meets, Met,
      Masters, Files
<1>6. ASSUME NEW i \in Instances, UnlinkBad(i)  PROVE Meets'
  BY <1>6
  DEF UnlinkBad, Goto, IInv, TypeOK, OwnersHold, Owners, Meets, Met, Masters,
      Files
<1>7. ASSUME NEW i \in Instances, TestEnds(i)  PROVE Meets'
  BY <1>7
  DEF TestEnds, Close, Goto, IInv, TypeOK, OwnersHold, Owners, Meets, Met,
      Masters, Files
<1>8. ASSUME NEW i \in Starters, Refuse(i)  PROVE Meets'
  BY <1>8
  DEF Refuse, Goto, IInv, TypeOK, OwnersHold, Owners, Meets, Met, Masters, Files
<1>9. ASSUME NEW i \in Starters, Daemonize(i)  PROVE Meets'
  BY <1>9
  DEF Daemonize, Fails, Goto, IInv, TypeOK, OwnersHold, Owners, Meets, Met,
      Masters, Files
<1>10. ASSUME NEW i \in Starters, Create(i)  PROVE Meets'
  BY <1>10
  DEF Create, Exclusive, Goto, IInv, TypeOK, OwnersHold, Owners, Meets, Met,
      Masters, Files
<1>11. ASSUME NEW i \in Starters, WriteLock(i)  PROVE Meets'
  BY <1>11
  DEF WriteLock, Goto, IInv, TypeOK, OwnersHold, Owners, Meets, Met, Masters,
      Files
<1>12. ASSUME NEW i \in Starters, Write(i)  PROVE Meets'
  BY <1>12
  DEF Write, Fails, Goto, IInv, TypeOK, OwnersHold, Owners, Meets, Met, Masters,
      Files
<1>13. ASSUME NEW i \in Starters, BecomeMaster(i)  PROVE Meets'
  BY <1>13
  DEF BecomeMaster, Close, Goto, IInv, TypeOK, OwnersHold, Owners, Meets, Met,
      Masters, Files
<1>14. ASSUME NEW i \in Starters, GiveUp(i)  PROVE Meets'
  BY <1>14
  DEF GiveUp, Close, Goto, IInv, TypeOK, OwnersHold, Owners, Meets, Met,
      Masters, Files
<1>15. ASSUME NEW i \in Stoppers, Stop(i)  PROVE Meets'
  BY <1>15
  DEF Stop, Alive, Ended, Goto, IInv, TypeOK, OwnersHold, Owners, Meets, Met,
      Masters, Files
<1>16. ASSUME NEW i \in Starters, MasterEnds(i)  PROVE Meets'
  BY <1>16
  DEF MasterEnds, Ends, Goto, IInv, TypeOK, OwnersHold, Owners, Meets, Met,
      Masters, Files
<1>17. ASSUME NEW i \in Instances, Crash(i)  PROVE Meets'
  BY <1>17
  DEF Crash, Ends, Ended, Goto, IInv, TypeOK, OwnersHold, Owners, Meets, Met,
      Masters, Files
<1>18. CASE UNCHANGED vars
  BY <1>18
  DEF vars, IInv, TypeOK, OwnersHold, Owners, Meets, Met, Masters, Files
<1> QED
  BY <1>1, <1>2, <1>3, <1>4, <1>5, <1>6, <1>7, <1>8, <1>9, <1>10, <1>11, <1>12,
     <1>13, <1>14, <1>15, <1>16, <1>17, <1>18
  DEF Next, Running, Start

LEMMA HopefulStep == IInv /\ Hopeful /\ [Next]_vars => Hopeful'
<1> SUFFICES ASSUME IInv, Hopeful, [Next]_vars  PROVE Hopeful'
  OBVIOUS
<1> USE DEF Instances
<1>1. ASSUME NEW i \in Instances, Open(i)  PROVE Hopeful'
  BY <1>1 DEF Open, Goto, IInv, TypeOK, Hopeful, Calm, Owned, Owners, Files
<1>2. ASSUME NEW i \in Instances, ReadLock(i)  PROVE Hopeful'
  BY <1>2 DEF ReadLock, Goto, IInv, TypeOK, Hopeful, Calm, Owned, Owners, Files
<1>3. ASSUME NEW i \in Instances, Read(i)  PROVE Hopeful'
  <2>1. /\ pc[i] = "read" /\ fd[i] \in Files
        /\ pc' = [pc EXCEPT ![i] = IF fd[i] \in written THEN "probe"
                                                        ELSE "unlink_bad"]
        /\ UNCHANGED <<path, written, fd, found, ncrashes, nfails, termed>>
    BY <1>3 DEF Read, Goto, IInv, Holds, Readers
  <2>2. Owned' <=> Owned
    BY <2>1 DEF IInv, TypeOK, Owned, Owners
  <2>3. Calm /\ pc'[i] = "unlink_bad" => Owned
    BY <2>1 DEF IInv, TypeOK, Hopeful, Calm, Owned, Files
  <2> QED
    BY <2>1, <2>2, <2>3 DEF IInv, TypeOK, Hopeful, Calm, Owners, Files
<1>4. ASSUME NEW i \in Instances, Probe(i)  PROVE Hopeful'
  BY <1>4
  DEF Probe, ProbeFinds, Alive, Ended, Goto, IInv, TypeOK, Hopeful, Calm, Owned,
      Owners, Files
<1>5. ASSUME NEW i \in Instances, UnlinkDead(i)  PROVE Hopeful'
  BY <1>5
  DEF UnlinkDead, Unlink, Goto, IInv, TypeOK, Hopeful, Calm, Owned, Owners,
      Files
<1>6. ASSUME NEW i \in Instances, UnlinkBad(i)  PROVE Hopeful'
  BY <1>6 DEF UnlinkBad, Goto, IInv, TypeOK, Hopeful, Calm, Owned, Owners, Files
<1>7. ASSUME NEW i \in Instances, TestEnds(i)  PROVE Hopeful'
  BY <1>7
  DEF TestEnds, Close, Goto, IInv, TypeOK, Hopeful, Calm, Owned, Owners, Files
<1>8. ASSUME NEW i \in Starters, Refuse(i)  PROVE Hopeful'
  BY <1>8 DEF Refuse, Goto, IInv, TypeOK, Hopeful, Calm, Owned, Owners, Files
<1>9. ASSUME NEW i \in Starters, Daemonize(i)  PROVE Hopeful'
  BY <1>9
  DEF Daemonize, Fails, Goto, IInv, TypeOK, Hopeful, Calm, Owned, Owners, Files
<1>10. ASSUME NEW i \in Starters, Create(i)  PROVE Hopeful'
  BY <1>10
  DEF Create, Exclusive, Goto, IInv, TypeOK, Hopeful, Calm, Owned, Owners, Files
<1>11. ASSUME NEW i \in Starters, WriteLock(i)  PROVE Hopeful'
  BY <1>11
  DEF WriteLock, Goto, IInv, TypeOK, Hopeful, Calm, Owned, Owners, Files
<1>12. ASSUME NEW i \in Starters, Write(i)  PROVE Hopeful'
  BY <1>12
  DEF Write, Fails, Goto, IInv, TypeOK, Hopeful, Calm, Owned, Owners, Files
<1>13. ASSUME NEW i \in Starters, BecomeMaster(i)  PROVE Hopeful'
  BY <1>13
  DEF BecomeMaster, Close, Goto, IInv, TypeOK, Hopeful, Calm, Owned, Owners,
      Files
<1>14. ASSUME NEW i \in Starters, GiveUp(i)  PROVE Hopeful'
  BY <1>14
  DEF GiveUp, Close, Goto, IInv, TypeOK, Hopeful, Calm, Owned, Owners, Files
<1>15. ASSUME NEW i \in Stoppers, Stop(i)  PROVE Hopeful'
  BY <1>15
  DEF Stop, Alive, Ended, Goto, IInv, TypeOK, Hopeful, Calm, Owned, Owners,
      Files
<1>16. ASSUME NEW i \in Starters, MasterEnds(i)  PROVE Hopeful'
  BY <1>16
  DEF MasterEnds, Ends, Goto, IInv, TypeOK, Hopeful, Calm, Owned, Owners, Files
<1>17. ASSUME NEW i \in Instances, Crash(i)  PROVE Hopeful'
  BY <1>17
  DEF Crash, Ends, Ended, Goto, IInv, TypeOK, Hopeful, Calm, Owned, Owners,
      Files
<1>18. CASE UNCHANGED vars
  BY <1>18 DEF vars, IInv, TypeOK, Hopeful, Calm, Owned, Owners, Files
<1> QED
  BY <1>1, <1>2, <1>3, <1>4, <1>5, <1>6, <1>7, <1>8, <1>9, <1>10, <1>11, <1>12,
     <1>13, <1>14, <1>15, <1>16, <1>17, <1>18
  DEF Next, Running, Start

\* What a stop has met and what a start may hope for (ca_daemon.c:188-289).
LEMMA MeetingInvariant == Spec => [](Finished /\ Meets /\ Hopeful)
<1>1. Init => Finished /\ Meets /\ Hopeful
  BY DEF Init, Finished, Meets, Hopeful, Calm, Files, Instances
<1> QED
  BY <1>1, FinishedStep, MeetsStep, HopefulStep, InstancesInvariant, PTL
  DEF Spec

\* "clagent stop" finds the master that runs, however it interleaves with
\* starts, crashes and other stops (clagent.c:1040-1056), unless the file was
\* stolen or the master ends meanwhile.
THEOREM StopReachesMaster == Spec => []StopFindsMaster
<1>1. Meets => StopFindsMaster
  BY DEF Meets, Met, StopFindsMaster, Instances
<1> QED  BY <1>1, MeetingInvariant, PTL

\* Starts do not keep one another out: once all have ended their tests, and
\* nothing crashed, failed or was stopped, there is a master
\* (clagent.c:998-1036, ca_daemon.c:188-289).
THEOREM StartsSucceed == Spec => []SomebodyRuns
<1>1. IInv /\ Hopeful => SomebodyRuns
  <2> SUFFICES ASSUME IInv, Hopeful, Calm,
                      NEW i \in Starters,
                      \A k \in Starters : pc[k] \in {"refused", "failed", "master"}
               PROVE  Masters # {}
    BY DEF SomebodyRuns, Calm
  <2>1. CASE pc[i] = "master"
    BY <2>1 DEF Masters
  <2>2. CASE pc[i] # "master"
    <3>1. Owned
      BY <2>2 DEF Hopeful
    <3> QED  BY <3>1 DEF Owned, Owners, Masters
  <2> QED  BY <2>1, <2>2
<1> QED  BY <1>1, InstancesInvariant, MeetingInvariant, PTL
-----------------------------------------------------------------------------
(***************************************************************************)
(* The waits for locks.                                                    *)
(***************************************************************************)
\* Instance i is kept waiting in F_SETLKW by a lock of instance j.
WaitsFor(i, j) ==
  \/ pc[i] = "lock" /\ fd[j] = fd[i] /\ lock[j] = "write"
  \/ pc[i] = "write_lock" /\ fd[j] = i /\ lock[j] # "none"

\* The steps an instance can still take.
Left(place) == CASE place = "idle"                             -> 12
                 [] place = "lock"                             -> 11
                 [] place = "read"                             -> 10
                 [] place = "probe"                            -> 9
                 [] place \in {"unlink_dead", "unlink_bad"}    -> 8
                 [] place = "close"                            -> 7
                 [] place = "decide"                           -> 6
                 [] place = "create"                           -> 5
                 [] place = "write_lock"                       -> 4
                 [] place = "write"                            -> 3
                 [] place \in {"finish", "give_up"}            -> 2
                 [] place = "master"                           -> 1
                 [] OTHER                                      -> 0

\* Who keeps another one waiting does not wait itself, so that no ring of
\* instances waits for one another.
WaitsEnd == \A i, j \in Instances :
              WaitsFor(i, j) => \A l \in Instances : ~WaitsFor(j, l)

\* One instance moves at a time, and each of its moves brings its end nearer.
MovesOn == \E i \in Instances :
             /\ Left(pc'[i]) < Left(pc[i])
             /\ \A j \in Instances \ {i} : pc'[j] = pc[j]

LEMMA MovesOnStep == TypeOK /\ [Next]_vars => MovesOn \/ UNCHANGED vars
<1> SUFFICES ASSUME TypeOK, Next  PROVE MovesOn
  OBVIOUS
<1> USE DEF Goto, Close, TypeOK
<1>1. ASSUME NEW i \in Instances, NEW from, NEW to \in PCs,
             Goto(i, from, to), Left(to) < Left(from)
      PROVE  MovesOn
  BY <1>1 DEF MovesOn
<1>2. ASSUME NEW i \in Instances, Running(i)  PROVE MovesOn
  <2> USE <1>1 DEF Left, PCs
  <2>1. CASE Open(i) \/ ReadLock(i) \/ Read(i)
    BY <2>1 DEF Open, ReadLock, Read, MovesOn
  <2>2. CASE Probe(i) \/ UnlinkDead(i) \/ UnlinkBad(i) \/ TestEnds(i)
    BY <2>2 DEF Probe, UnlinkDead, UnlinkBad, TestEnds, MovesOn
  <2> QED  BY <1>2, <2>1, <2>2 DEF Running
<1>3. ASSUME NEW i \in Instances, Crash(i)  PROVE MovesOn
  <2>1. pc' = [pc EXCEPT ![i] = "dead"] /\ pc[i] \notin Ended
    BY <1>3 DEF Crash
  <2>2. Left("dead") < Left(pc[i])
    BY <2>1 DEF Left, PCs, Ended
  <2> QED  BY <2>1, <2>2 DEF MovesOn
<1>4. ASSUME NEW i \in Starters, Start(i)  PROVE MovesOn
  <2>0. i \in Instances
    BY DEF Instances
  <2> USE <2>0 DEF Left, PCs
  <2>1. CASE Refuse(i) \/ Daemonize(i) \/ Create(i)
    BY <2>1 DEF Refuse, Daemonize, Create, MovesOn
  <2>2. CASE WriteLock(i) \/ Write(i)
    BY <2>2 DEF WriteLock, Write, MovesOn
  <2>3. CASE BecomeMaster(i) \/ GiveUp(i)
    BY <2>3 DEF BecomeMaster, GiveUp, MovesOn
  <2> QED  BY <1>4, <2>1, <2>2, <2>3 DEF Start
<1>5. ASSUME NEW i \in Starters, MasterEnds(i)  PROVE MovesOn
  BY <1>5 DEF MasterEnds, MovesOn, Left, PCs, Instances
<1>6. ASSUME NEW i \in Stoppers, Stop(i)  PROVE MovesOn
  BY <1>6 DEF Stop, MovesOn, Left, PCs, Instances
<1> QED  BY <1>2, <1>3, <1>4, <1>5, <1>6 DEF Next

\* Nobody waits for ever in fcntl(F_SETLKW): the holder of the lock waits for
\* nobody, and is through after a few steps (ca_daemon.c:188-289).
THEOREM NobodyWaitsForEver == Spec => []WaitsEnd /\ [][MovesOn]_vars
<1>1. ASSUME IInv  PROVE WaitsEnd
  <2> SUFFICES ASSUME NEW i \in Instances, NEW j \in Instances, WaitsFor(i, j)
               PROVE  \A l \in Instances : ~WaitsFor(j, l)
    BY DEF WaitsEnd
  <2>1. lock[j] \in {"read", "write"}
    BY <1>1 DEF WaitsFor, IInv, TypeOK
  <2>2. pc[j] \in Readers \cup Writers
    BY <1>1, <2>1 DEF IInv, Holds
  <2> QED  BY <2>2 DEF WaitsFor, Readers, Writers
<1>2. IInv /\ [Next]_vars => MovesOn \/ UNCHANGED vars
  BY MovesOnStep DEF IInv
<1> QED  BY <1>1, <1>2, InstancesInvariant, PTL DEF Spec
=============================================================================
