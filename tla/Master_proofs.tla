--------------------------- MODULE Master_proofs ---------------------------
(***************************************************************************)
(* Proofs about the master process, for any children, any size of the      *)
(* process table and any number of signals, crashes and failed forks.      *)
(*                                                                         *)
(* The argument: a death leaves SIGCHLD pending until the zombies are      *)
(* waited for, all at once, so table and kernel agree.  live turns FALSE   *)
(* only when every slot is marked exited or detached, and while it is      *)
(* FALSE only detached ones come in (LiveTells).  delay has been doubled   *)
(* once for each alarm that was used up (Patience), and not more often     *)
(* (Alarmed).  Whoever is left when a stopping master sleeps has been      *)
(* asked (Asked), since the signals go out in the same turn as the         *)
(* respawns.                                                               *)
(***************************************************************************)
EXTENDS Master, SequenceTheorems, FiniteSetTheorems, TLAPS

SlotType == [kind : STRING \cup {"newbin"}, respawn : BOOLEAN, detached : BOOLEAN,
             exiting : BOOLEAN, exited : BOOLEAN,
             os : {"alive", "hung", "zombie", "reaped"},
             got : SUBSET {"TERM", "QUIT", "KILL"}]

Delays == {0, 50, 100, 200, 400, 800, 1600}

TypeOK == /\ pc \in {"create", "top", "suspend", "reap", "decide", "exit"}
          /\ slots \in Seq(SlotType)
          /\ created \in 0..Len(Kinds)
          /\ live \in BOOLEAN /\ delay \in Delays
          /\ reap \in BOOLEAN /\ quit \in BOOLEAN /\ term \in BOOLEAN
          /\ alrm \in BOOLEAN /\ change \in BOOLEAN
          /\ newbin \in BOOLEAN /\ pidname \in {"pid", "oldpid"}
          /\ timer \in BOOLEAN
          /\ pending \in SUBSET Signals
          /\ alarms \in 0..6

\* The creation of the children comes before everything else.
Begins == /\ pc = "create" => created < Len(Kinds) /\ ~quit /\ live
          /\ created = 0 => slots = <<>> /\ pc \in {"create", "exit"}

\* live says FALSE only when no child is left that the master has to wait for.
LiveTells == ~live => \A s \in Slots : slots[s].detached \/ slots[s].exited

\* The loop is left without a child, or before the first one is created.
Over == pc = "exit" => ~live \/ slots = <<>>

\* How often the delay was doubled; an alarm that is not used up counts too.
Doubled(d) == IF d <= 50 THEN 0 ELSE IF d = 100 THEN 1 ELSE IF d = 200 THEN 2
              ELSE IF d = 400 THEN 3 ELSE IF d = 800 THEN 4 ELSE 5
Patience == alarms >= Doubled(delay) + IF alrm THEN 1 ELSE 0

IInv == /\ TypeOK /\ Begins /\ LiveTells /\ Over /\ Patience
        /\ TableMatchesKernel /\ KillAfterGrace /\ UpgradeHandsOver
-----------------------------------------------------------------------------
USE KindsAssumption

\* A table that is filled anew slot by slot.
LEMMA Refilled ==
  ASSUME slots \in Seq(SlotType),
         NEW t, t \in [Slots -> SlotType]
  PROVE  t \in Seq(SlotType) /\ Len(t) = Len(slots) /\ DOMAIN t = Slots
<1>1. Slots = 1..Len(slots) /\ Len(slots) \in Nat
  BY LenProperties DEF Slots
<1>2. t \in Seq(SlotType)
  BY <1>1, SeqDef
<1>3. DOMAIN t = 1..Len(t) /\ Len(t) \in Nat
  BY <1>2, LenProperties
<1>4. DOMAIN t = 1..Len(slots)
  BY <1>1
<1>5. Len(t) = Len(slots)
  BY <1>1, <1>3, <1>4
<1> QED  BY <1>2, <1>4, <1>5, <1>1

\* A table with one slot more.
LEMMA Appended ==
  ASSUME slots \in Seq(SlotType), NEW e \in SlotType, NEW t, t = Append(slots, e)
  PROVE  /\ t \in Seq(SlotType) /\ DOMAIN t = Slots \cup {Len(slots) + 1}
         /\ t[Len(slots) + 1] = e
         /\ \A k \in Slots : t[k] = slots[k]
<1>1. Slots = 1..Len(slots) /\ Len(slots) \in Nat
  BY LenProperties DEF Slots
<1>2. t \in Seq(SlotType) /\ Len(t) = Len(slots) + 1
  BY AppendProperties
<1>3. DOMAIN t = 1..Len(slots) + 1
  BY <1>2, LenProperties
<1> QED  BY <1>1, <1>2, <1>3, AppendProperties

LEMMA InitIInv == Init => IInv
<1> SUFFICES ASSUME Init  PROVE IInv
  OBVIOUS
<1>1. TypeOK
  <2>1. Len(Kinds) \in Nat /\ slots \in Seq(SlotType)
    BY LenProperties, EmptySeq DEF Init
  <2>2. created \in 0..Len(Kinds) /\ alarms \in 0..6 /\ delay \in Delays
    BY <2>1 DEF Init, Delays
  <2> QED  BY <2>1, <2>2 DEF Init, TypeOK
<1>2. Slots = {}
  BY DEF Init, Slots
<1>3. Begins /\ LiveTells /\ Over
  BY DEF Init, Begins, LiveTells, Over
<1>4. Patience
  BY DEF Init, Patience, Doubled
<1>5. TableMatchesKernel /\ KillAfterGrace /\ UpgradeHandsOver
  BY <1>2 DEF TableMatchesKernel, KillAfterGrace, UpgradeHandsOver
<1> QED  BY <1>1, <1>3, <1>4, <1>5 DEF IInv
-----------------------------------------------------------------------------
\* A child that is up gets another state in the kernel; its death sends SIGCHLD.
LEMMA ChildIInv ==
  ASSUME IInv, pc # "exit", NEW s \in Slots, Up(s),
         NEW os \in {"zombie", "hung"}, SetOs(s, os),
         pending' = IF os = "zombie" THEN pending \cup {"CHLD"} ELSE pending,
         UNCHANGED <<pc, locals, flags, bin, timer, alarms>>
  PROVE  IInv'
<1> USE DEF locals, flags, bin
<1>1. /\ slots' \in Seq(SlotType) /\ DOMAIN slots' = Slots
      /\ slots'[s] = [slots[s] EXCEPT !.os = os]
      /\ \A t \in Slots \ {s} : slots'[t] = slots[t]
  <2>1. slots \in [Slots -> SlotType]
    BY LenProperties DEF IInv, TypeOK, Slots
  <2>2. slots' = [slots EXCEPT ![s] = [slots[s] EXCEPT !.os = os]]
    BY DEF SetOs
  <2>3. [slots[s] EXCEPT !.os = os] \in SlotType
    BY <2>1 DEF SlotType
  <2>4. slots' \in [Slots -> SlotType]
    BY <2>1, <2>2, <2>3
  <2> QED  BY <2>1, <2>2, <2>4, Refilled DEF IInv, TypeOK
<1>2. slots # <<>>
  BY DEF Slots
<1>3. pending' \in SUBSET Signals /\ pending \subseteq pending'
  BY DEF IInv, TypeOK, Signals
<1>4. \A t \in Slots : slots[t] \in SlotType
  BY DEF IInv, TypeOK, Slots
<1>5. \A t \in Slots : /\ slots'[t].exited = slots[t].exited
                       /\ slots'[t].detached = slots[t].detached
                       /\ slots'[t].got = slots[t].got
  BY <1>1, <1>4 DEF SlotType
<1>6. TypeOK'
  BY <1>1, <1>3 DEF IInv, TypeOK
<1>7. Begins' /\ LiveTells' /\ Over'
  BY <1>1, <1>2, <1>5 DEF IInv, Begins, LiveTells, Over, Slots
<1>8. Patience'
  BY DEF IInv, Patience, Doubled
<1>9. TableMatchesKernel'
  BY <1>1, <1>3, <1>4, <1>5 DEF IInv, TableMatchesKernel, Slots, SlotType, Up
<1>10. KillAfterGrace' /\ UpgradeHandsOver'
  BY <1>1, <1>3, <1>5 DEF IInv, KillAfterGrace, UpgradeHandsOver, Slots
<1> QED  BY <1>6, <1>7, <1>8, <1>9, <1>10 DEF IInv

\* A signal becomes pending.
LEMMA PendingIInv ==
  ASSUME IInv, NEW sig \in Signals, pending' = pending \cup {sig},
         timer' \in BOOLEAN,
         UNCHANGED <<pc, slots, locals, flags, bin, alarms>>
  PROVE  IInv'
  BY DEF IInv, TypeOK, Begins, LiveTells, Over, Patience, Doubled, locals,
       flags, bin,
         TableMatchesKernel, KillAfterGrace, UpgradeHandsOver, Slots

\* Zombies are waited for.
LEMMA Waited ==
  ASSUME IInv, GetStatus
  PROVE  /\ slots' \in Seq(SlotType) /\ DOMAIN slots' = Slots
         /\ \A t \in Slots :
              /\ slots[t].os = "zombie" => slots'[t].os = "reaped" /\ slots'[t].exited
              /\ slots[t].os # "zombie" => slots'[t] = slots[t]
              /\ slots'[t].detached = slots[t].detached
              /\ slots'[t].got = slots[t].got
              /\ slots[t].exited => slots'[t].exited
<1>1. \A t \in Slots : slots[t] \in SlotType
  BY DEF IInv, TypeOK, Slots
<1>2. slots' \in [Slots -> SlotType]
  <2>1. \A t \in Slots :
          [slots[t] EXCEPT !.os = "reaped", !.exited = TRUE] \in SlotType
    BY <1>1 DEF SlotType
  <2> QED  BY <1>1, <2>1 DEF GetStatus
<1>3. slots' \in Seq(SlotType) /\ DOMAIN slots' = Slots
  BY <1>2, Refilled DEF IInv, TypeOK
<1> QED
  BY <1>1, <1>3 DEF GetStatus, WaitedFor, Zombies, SlotType

\* The children that are not passed over are sent a signal.
LEMMA Signalled ==
  ASSUME IInv, NEW sig \in {"TERM", "QUIT", "KILL"}, SignalChildren(sig)
  PROVE  /\ slots' \in Seq(SlotType) /\ DOMAIN slots' = Slots
         /\ \A t \in Slots :
              /\ slots'[t].os = slots[t].os /\ slots'[t].exited = slots[t].exited
              /\ slots'[t].detached = slots[t].detached
              /\ slots'[t].got \subseteq slots[t].got \cup {sig}
<1>1. \A t \in Slots : slots[t] \in SlotType
  BY DEF IInv, TypeOK, Slots
<1>2. slots' \in [Slots -> SlotType]
  BY <1>1 DEF SignalChildren, SlotType
<1>3. slots' \in Seq(SlotType) /\ DOMAIN slots' = Slots
  BY <1>2, Refilled DEF IInv, TypeOK
<1> QED
  BY <1>1, <1>3 DEF SignalChildren, SlotType

\* The steps of the master.
LEMMA MainIInv == IInv /\ Main => IInv'
<1> SUFFICES ASSUME IInv, Main  PROVE IInv'
  OBVIOUS
<1>0. Len(Kinds) \in Nat
  BY LenProperties
<1>1. ASSUME OutOfMemory  PROVE IInv'
  <2>1. TypeOK'
    BY <1>1 DEF IInv, TypeOK, OutOfMemory, locals, flags, bin, Goto
  <2>2. Begins'
    BY <1>1
    DEF IInv, TypeOK, OutOfMemory, locals, flags, bin, Goto, Begins, Slots
  <2>3. LiveTells'
    BY <1>1 DEF IInv, TypeOK, OutOfMemory, locals, flags, bin, Goto, LiveTells,
         Slots
  <2>4. Over'
    BY <1>1 DEF IInv, TypeOK, OutOfMemory, locals, flags, bin, Goto, Over,
         Begins, Slots
  <2>5. Patience'
    BY <1>1 DEF IInv, TypeOK, OutOfMemory, locals, flags, bin, Goto, Patience,
         Doubled, Delays
  <2>6. TableMatchesKernel'
    BY <1>1 DEF IInv, TypeOK, OutOfMemory, locals, flags, bin, Goto,
         TableMatchesKernel, Slots
  <2>7. KillAfterGrace'
    BY <1>1 DEF IInv, TypeOK, OutOfMemory, locals, flags, bin, Goto,
         KillAfterGrace, Slots
  <2>8. UpgradeHandsOver'
    BY <1>1 DEF IInv, TypeOK, OutOfMemory, locals, flags, bin, Goto,
         UpgradeHandsOver, Slots
  <2> QED  BY <2>1, <2>2, <2>3, <2>4, <2>5, <2>6, <2>7, <2>8 DEF IInv
<1>2. ASSUME Create  PROVE IInv'
  <2>1. CASE UNCHANGED slots
    <3>1. TypeOK'
      BY <1>2, <2>1, <1>0 DEF IInv, TypeOK, Create, locals, flags, bin, Begins
    <3>2. Begins'
      BY <1>2, <2>1, <1>0 DEF IInv, TypeOK, Create, locals, flags, bin, Begins,
           Slots
    <3>3. LiveTells'
      BY <1>2, <2>1
      DEF IInv, TypeOK, Create, locals, flags, bin, LiveTells, Slots
    <3>4. Over'
      BY <1>2, <2>1 DEF IInv, TypeOK, Create, locals, flags, bin, Over, Slots
    <3>5. Patience'
      BY <1>2, <2>1 DEF IInv, TypeOK, Create, locals, flags, bin, Patience,
           Doubled, Delays
    <3>6. TableMatchesKernel'
      BY <1>2, <2>1 DEF IInv, TypeOK, Create, locals, flags, bin,
           TableMatchesKernel, Slots
    <3>7. KillAfterGrace'
      BY <1>2, <2>1 DEF IInv, TypeOK, Create, locals, flags, bin,
           KillAfterGrace, Slots
    <3>8. UpgradeHandsOver'
      BY <1>2, <2>1 DEF IInv, TypeOK, Create, locals, flags, bin,
           UpgradeHandsOver, Slots
    <3> QED  BY <3>1, <3>2, <3>3, <3>4, <3>5, <3>6, <3>7, <3>8 DEF IInv
  <2>2. CASE SpawnNew(Kinds[created'], TRUE, FALSE)
    <3>1. created' \in 1..Len(Kinds) /\ ~quit /\ live
      BY <1>2, <1>0 DEF Create, IInv, TypeOK, Begins
    <3>2. Kinds[created'] \in STRING
      BY <3>1, ElementOfSeq
    <3>3. NewSlot(Kinds[created'], TRUE, FALSE) \in SlotType
      BY <3>2 DEF NewSlot, SlotType
    <3>4. PICK e \in SlotType : /\ slots' = Append(slots, e)
                               /\ ~e.exited /\ e.os = "alive" /\ e.got = {}
                               /\ ~e.detached
      BY <2>2, <3>3 DEF SpawnNew, NewSlot
    <3>5. /\ slots' \in Seq(SlotType) /\ DOMAIN slots' = Slots \cup {Len(slots) + 1}
          /\ slots'[Len(slots) + 1] = e
          /\ \A t \in Slots : slots'[t] = slots[t]
      BY <3>4, Appended DEF IInv, TypeOK
    <3>6. TypeOK'
      BY <1>2, <3>1, <3>4, <3>5, <1>0
      DEF IInv, TypeOK, Create, locals, flags, bin
    <3>7. Begins'
      BY <1>2, <3>1, <3>4, <3>5, <1>0 DEF IInv, TypeOK, Create, locals, flags,
           bin, Begins, Slots
    <3>8. LiveTells'
      BY <1>2, <3>1, <3>4, <3>5 DEF IInv, TypeOK, Create, locals, flags, bin,
           LiveTells, Slots
    <3>9. Over'
      BY <1>2, <3>1, <3>4, <3>5 DEF IInv, TypeOK, Create, locals, flags, bin,
           Over, Slots
    <3>10. Patience'
      BY <1>2, <3>1, <3>4, <3>5 DEF IInv, TypeOK, Create, locals, flags, bin,
           Patience, Doubled, Delays
    <3>11. TableMatchesKernel'
      BY <1>2, <3>1, <3>4, <3>5 DEF IInv, TypeOK, Create, locals, flags, bin,
           TableMatchesKernel, Slots
    <3>12. KillAfterGrace'
      BY <1>2, <3>1, <3>4, <3>5 DEF IInv, TypeOK, Create, locals, flags, bin,
           KillAfterGrace, Slots
    <3>13. UpgradeHandsOver'
      BY <1>2, <3>1, <3>4, <3>5 DEF IInv, TypeOK, Create, locals, flags, bin,
           UpgradeHandsOver, Slots
    <3> QED  BY <3>6, <3>7, <3>8, <3>9, <3>10, <3>11, <3>12, <3>13 DEF IInv
  <2> QED  BY <1>2, <2>1, <2>2 DEF Create, SpawnFails
<1>3. ASSUME Top  PROVE IInv'
  <2>1. TypeOK'
    BY <1>3 DEF IInv, TypeOK, Top, locals, flags, bin, Goto, Grows, MinDelay,
         MaxDelay, Delays
  <2>2. Begins'
    BY <1>3 DEF IInv, TypeOK, Top, locals, flags, bin, Goto, Grows, MinDelay,
         MaxDelay, Begins, Slots
  <2>3. LiveTells'
    BY <1>3 DEF IInv, TypeOK, Top, locals, flags, bin, Goto, Grows, MinDelay,
         MaxDelay, LiveTells, Slots
  <2>4. Over'
    BY <1>3 DEF IInv, TypeOK, Top, locals, flags, bin, Goto, Grows, MinDelay,
         MaxDelay, Over, Slots
  <2>5. Patience'
    <3>1. delay \in Delays /\ alarms \in 0..6 /\ alarms' = alarms /\ alrm \in BOOLEAN
      BY <1>3 DEF IInv, TypeOK, Top
    <3>5. Doubled(delay) \in 0..5
      BY DEF Doubled
    <3>2. CASE delay = 0
      BY <1>3, <3>1, <3>2 DEF IInv, Top, Grows, Patience, Doubled
    <3>3. CASE delay # 0 /\ ~Grows
      BY <1>3, <3>1, <3>3, <3>5 DEF IInv, Top, Patience
    <3>4. CASE delay # 0 /\ Grows
      <4>1. delay' = 2 * delay /\ ~alrm' /\ alarms >= Doubled(delay) + 1
        BY <1>3, <3>1, <3>4 DEF IInv, Top, Grows, Patience
      <4>2. delay \in {50, 100, 200, 400, 800}
        BY <3>1, <3>4 DEF Grows, Delays, MaxDelay
      <4>3. Doubled(2 * delay) = Doubled(delay) + 1
        BY <4>2 DEF Doubled
      <4> QED  BY <3>1, <3>5, <4>1, <4>3 DEF Patience
    <3> QED  BY <3>2, <3>3, <3>4
  <2>6. TableMatchesKernel'
    BY <1>3 DEF IInv, TypeOK, Top, locals, flags, bin, Goto, Grows, MinDelay,
         MaxDelay, TableMatchesKernel, Slots
  <2>7. KillAfterGrace'
    BY <1>3 DEF IInv, TypeOK, Top, locals, flags, bin, Goto, Grows, MinDelay,
         MaxDelay, KillAfterGrace, Slots
  <2>8. UpgradeHandsOver'
    BY <1>3 DEF IInv, TypeOK, Top, locals, flags, bin, Goto, Grows, MinDelay,
         MaxDelay, UpgradeHandsOver, Slots
  <2> QED  BY <2>1, <2>2, <2>3, <2>4, <2>5, <2>6, <2>7, <2>8 DEF IInv
<1>4. ASSUME Exit  PROVE IInv'
  <2>1. TypeOK'
    BY <1>4 DEF IInv, TypeOK, Exit, locals, flags, bin, Goto
  <2>2. Begins'
    BY <1>4 DEF IInv, TypeOK, Exit, locals, flags, bin, Goto, Begins, Slots
  <2>3. LiveTells'
    BY <1>4 DEF IInv, TypeOK, Exit, locals, flags, bin, Goto, LiveTells, Slots
  <2>4. Over'
    BY <1>4 DEF IInv, TypeOK, Exit, locals, flags, bin, Goto, Over, Slots
  <2>5. Patience'
    BY <1>4 DEF IInv, TypeOK, Exit, locals, flags, bin, Goto, Patience, Doubled,
         Delays
  <2>6. TableMatchesKernel'
    BY <1>4 DEF IInv, TypeOK, Exit, locals, flags, bin, Goto,
         TableMatchesKernel, Slots
  <2>7. KillAfterGrace'
    BY <1>4
    DEF IInv, TypeOK, Exit, locals, flags, bin, Goto, KillAfterGrace, Slots
  <2>8. UpgradeHandsOver'
    BY <1>4 DEF IInv, TypeOK, Exit, locals, flags, bin, Goto, UpgradeHandsOver,
         Slots
  <2> QED  BY <2>1, <2>2, <2>3, <2>4, <2>5, <2>6, <2>7, <2>8 DEF IInv
<1>5. ASSUME Idle  PROVE IInv'
  <2>1. TypeOK'
    BY <1>5 DEF IInv, TypeOK, Idle, locals, flags, bin, Goto
  <2>2. Begins'
    BY <1>5 DEF IInv, TypeOK, Idle, locals, flags, bin, Goto, Begins, Slots
  <2>3. LiveTells'
    BY <1>5 DEF IInv, TypeOK, Idle, locals, flags, bin, Goto, LiveTells, Slots
  <2>4. Over'
    BY <1>5 DEF IInv, TypeOK, Idle, locals, flags, bin, Goto, Over, Slots
  <2>5. Patience'
    BY <1>5 DEF IInv, TypeOK, Idle, locals, flags, bin, Goto, Patience, Doubled,
         Delays
  <2>6. TableMatchesKernel'
    BY <1>5 DEF IInv, TypeOK, Idle, locals, flags, bin, Goto,
         TableMatchesKernel, Slots
  <2>7. KillAfterGrace'
    BY <1>5
    DEF IInv, TypeOK, Idle, locals, flags, bin, Goto, KillAfterGrace, Slots
  <2>8. UpgradeHandsOver'
    BY <1>5 DEF IInv, TypeOK, Idle, locals, flags, bin, Goto, UpgradeHandsOver,
         Slots
  <2> QED  BY <2>1, <2>2, <2>3, <2>4, <2>5, <2>6, <2>7, <2>8 DEF IInv
<1>6. ASSUME UpgradeFails  PROVE IInv'
  <2>1. TypeOK'
    BY <1>6 DEF IInv, TypeOK, UpgradeFails, locals, flags, bin, Goto, SpawnFails
  <2>2. Begins'
    BY <1>6 DEF IInv, TypeOK, UpgradeFails, locals, flags, bin, Goto,
         SpawnFails, Begins, Slots
  <2>3. LiveTells'
    BY <1>6 DEF IInv, TypeOK, UpgradeFails, locals, flags, bin, Goto,
         SpawnFails, LiveTells, Slots
  <2>4. Over'
    BY <1>6 DEF IInv, TypeOK, UpgradeFails, locals, flags, bin, Goto,
         SpawnFails, Over, Slots
  <2>5. Patience'
    BY <1>6 DEF IInv, TypeOK, UpgradeFails, locals, flags, bin, Goto,
         SpawnFails, Patience, Doubled, Delays
  <2>6. TableMatchesKernel'
    BY <1>6 DEF IInv, TypeOK, UpgradeFails, locals, flags, bin, Goto,
         SpawnFails, TableMatchesKernel, Slots
  <2>7. KillAfterGrace'
    BY <1>6 DEF IInv, TypeOK, UpgradeFails, locals, flags, bin, Goto,
         SpawnFails, KillAfterGrace, Slots
  <2>8. UpgradeHandsOver'
    BY <1>6 DEF IInv, TypeOK, UpgradeFails, locals, flags, bin, Goto,
         SpawnFails, UpgradeHandsOver, Slots
  <2> QED  BY <2>1, <2>2, <2>3, <2>4, <2>5, <2>6, <2>7, <2>8 DEF IInv
<1>7. ASSUME Suspend  PROVE IInv'
  <2>1. pc' = "reap" /\ pc = "suspend" /\ pending' = {} /\ live' = live
    BY <1>7 DEF Suspend, Goto, locals
  <2>2. /\ slots' \in Seq(SlotType) /\ DOMAIN slots' = Slots
        /\ \A t \in Slots :
             /\ slots[t].os = "zombie" => slots'[t].os = "reaped" /\ slots'[t].exited
             /\ slots[t].os # "zombie" => slots'[t] = slots[t]
             /\ slots'[t].detached = slots[t].detached
             /\ slots'[t].got = slots[t].got
             /\ slots[t].exited => slots'[t].exited
    BY <1>7, Waited DEF Suspend, IInv, TypeOK, TableMatchesKernel, Slots
  <2>3. TypeOK'
    BY <1>7, <2>1, <2>2 DEF IInv, TypeOK, Suspend, locals, flags, bin
  <2>4. Begins'
    BY <1>7, <2>1, <2>2
    DEF IInv, TypeOK, Suspend, locals, flags, bin, Begins, Slots
  <2>5. LiveTells'
    BY <1>7, <2>1, <2>2 DEF IInv, TypeOK, Suspend, locals, flags, bin,
         LiveTells, Slots
  <2>6. Over'
    BY <1>7, <2>1, <2>2
    DEF IInv, TypeOK, Suspend, locals, flags, bin, Over, Slots
  <2>7. Patience'
    BY <1>7, <2>1, <2>2 DEF IInv, TypeOK, Suspend, locals, flags, bin, Patience,
         Doubled, Delays
  <2>8. TableMatchesKernel'
    BY <1>7, <2>1, <2>2 DEF IInv, TypeOK, Suspend, locals, flags, bin,
         TableMatchesKernel, Slots
  <2>9. KillAfterGrace'
    BY <1>7, <2>1, <2>2 DEF IInv, TypeOK, Suspend, locals, flags, bin,
         KillAfterGrace, Slots
  <2>10. UpgradeHandsOver'
    BY <1>7, <2>1, <2>2 DEF IInv, TypeOK, Suspend, locals, flags, bin,
         UpgradeHandsOver, Slots
  <2> QED  BY <2>3, <2>4, <2>5, <2>6, <2>7, <2>8, <2>9, <2>10 DEF IInv
<1>8. ASSUME Upgrade  PROVE IInv'
  <2>1. NewSlot("newbin", FALSE, TRUE) \in SlotType
    BY DEF NewSlot, SlotType
  <2>2. PICK e \in SlotType : /\ slots' = Append(slots, e)
                             /\ ~e.exited /\ e.os = "alive" /\ e.got = {}
                             /\ e.detached
    BY <1>8, <2>1 DEF Upgrade, SpawnNew, NewSlot
  <2>3. /\ slots' \in Seq(SlotType) /\ DOMAIN slots' = Slots \cup {Len(slots) + 1}
        /\ slots'[Len(slots) + 1] = e
        /\ \A t \in Slots : slots'[t] = slots[t]
    BY <2>2, Appended DEF IInv, TypeOK
  <2>4. TypeOK'
    BY <1>8, <2>2, <2>3 DEF IInv, TypeOK, Upgrade, StepsBack, Signals, Sent,
         Goto, locals, flags, bin
  <2>5. Begins'
    BY <1>8, <2>2, <2>3 DEF IInv, TypeOK, Upgrade, StepsBack, Signals, Sent,
         Goto, locals, flags, bin, Begins, Slots
  <2>6. LiveTells'
    BY <1>8, <2>2, <2>3 DEF IInv, TypeOK, Upgrade, StepsBack, Signals, Sent,
         Goto, locals, flags, bin, LiveTells, Slots
  <2>7. Over'
    BY <1>8, <2>2, <2>3 DEF IInv, TypeOK, Upgrade, StepsBack, Signals, Sent,
         Goto, locals, flags, bin, Over, Slots
  <2>8. Patience'
    BY <1>8, <2>2, <2>3 DEF IInv, TypeOK, Upgrade, StepsBack, Signals, Sent,
         Goto, locals, flags, bin, Patience, Doubled, Delays
  <2>9. TableMatchesKernel'
    BY <1>8, <2>2, <2>3 DEF IInv, TypeOK, Upgrade, StepsBack, Signals, Sent,
         Goto, locals, flags, bin, TableMatchesKernel, Slots
  <2>10. KillAfterGrace'
    BY <1>8, <2>2, <2>3 DEF IInv, TypeOK, Upgrade, StepsBack, Signals, Sent,
         Goto, locals, flags, bin, KillAfterGrace, Slots
  <2>11. UpgradeHandsOver'
    BY <1>8, <2>2, <2>3 DEF IInv, TypeOK, Upgrade, StepsBack, Signals, Sent,
         Goto, locals, flags, bin, UpgradeHandsOver, Slots
  <2> QED  BY <2>4, <2>5, <2>6, <2>7, <2>8, <2>9, <2>10, <2>11 DEF IInv
<1>9. ASSUME Reap  PROVE IInv'
  <2>1. CASE ~reap
    <3>1. TypeOK'
      BY <1>9, <2>1 DEF IInv, TypeOK, Reap, Goto, locals, flags, bin
    <3>2. Begins'
      BY <1>9, <2>1
      DEF IInv, TypeOK, Reap, Goto, locals, flags, bin, Begins, Slots
    <3>3. LiveTells'
      BY <1>9, <2>1 DEF IInv, TypeOK, Reap, Goto, locals, flags, bin, LiveTells,
           Slots
    <3>4. Over'
      BY <1>9, <2>1
      DEF IInv, TypeOK, Reap, Goto, locals, flags, bin, Over, Slots
    <3>5. Patience'
      BY <1>9, <2>1 DEF IInv, TypeOK, Reap, Goto, locals, flags, bin, Patience,
           Doubled, Delays
    <3>6. TableMatchesKernel'
      BY <1>9, <2>1 DEF IInv, TypeOK, Reap, Goto, locals, flags, bin,
           TableMatchesKernel, Slots
    <3>7. KillAfterGrace'
      BY <1>9, <2>1 DEF IInv, TypeOK, Reap, Goto, locals, flags, bin,
           KillAfterGrace, Slots
    <3>8. UpgradeHandsOver'
      BY <1>9, <2>1 DEF IInv, TypeOK, Reap, Goto, locals, flags, bin,
           UpgradeHandsOver, Slots
    <3> QED  BY <3>1, <3>2, <3>3, <3>4, <3>5, <3>6, <3>7, <3>8 DEF IInv
  <2>2. CASE reap
    <3>1. PICK failed \in SUBSET {t \in Slots : Due(t)} :
               /\ slots' = [t \in Slots |-> IF Due(t) /\ t \notin failed
                                          THEN Respawned(t) ELSE slots[t]]
               /\ live' = SomeLeft(slots')
      BY <1>9, <2>2 DEF Reap
    <3>2. \A t \in Slots : slots[t] \in SlotType
      BY DEF IInv, TypeOK, Slots
    <3>3. slots' \in [Slots -> SlotType]
      <4>1. \A t \in Slots : Respawned(t) \in SlotType
        BY <3>2 DEF Respawned, SlotType
      <4> QED  BY <3>1, <3>2, <4>1
    <3>4. slots' \in Seq(SlotType) /\ DOMAIN slots' = Slots
      BY <3>3, Refilled DEF IInv, TypeOK
    <3>5. \A t \in Slots :
            /\ slots'[t].detached = slots[t].detached
            /\ \/ slots'[t] = slots[t]
               \/ ~slots'[t].exited /\ slots'[t].os = "alive" /\ slots'[t].got = {}
      BY <3>1, <3>2 DEF Respawned, SlotType
    <3>6. TypeOK'
      BY <1>9, <3>1, <3>4, <3>5 DEF IInv, TypeOK, Reap, Goto, locals, flags,
           bin, SomeLeft
    <3>7. Begins'
      BY <1>9, <3>1, <3>4, <3>5 DEF IInv, TypeOK, Reap, Goto, locals, flags,
           bin, Begins, Slots
    <3>8. LiveTells'
      BY <1>9, <3>1, <3>4, <3>5 DEF IInv, TypeOK, Reap, Goto, locals, flags,
           bin, LiveTells, SomeLeft, Slots
    <3>9. Over'
      BY <1>9, <3>1, <3>4, <3>5 DEF IInv, TypeOK, Reap, Goto, locals, flags,
           bin, Over, Slots
    <3>10. Patience'
      BY <1>9, <3>1, <3>4, <3>5 DEF IInv, TypeOK, Reap, Goto, locals, flags,
           bin, Patience, Doubled, Delays
    <3>11. TableMatchesKernel'
      BY <1>9, <3>1, <3>4, <3>5 DEF IInv, TypeOK, Reap, Goto, locals, flags,
           bin, TableMatchesKernel, Slots
    <3>12. KillAfterGrace'
      BY <1>9, <3>1, <3>4, <3>5 DEF IInv, TypeOK, Reap, Goto, locals, flags,
           bin, KillAfterGrace, Slots
    <3>13. UpgradeHandsOver'
      BY <1>9, <3>1, <3>4, <3>5 DEF IInv, TypeOK, Reap, Goto, locals, flags,
           bin, UpgradeHandsOver, Slots
    <3> QED  BY <3>6, <3>7, <3>8, <3>9, <3>10, <3>11, <3>12, <3>13 DEF IInv
  <2> QED  BY <2>1, <2>2 DEF IInv, TypeOK
<1>10. ASSUME Terminate  PROVE IInv'
  <2>1. SignalChildren(StopSignal(delay')) /\ StopSignal(delay') \in {"TERM", "QUIT", "KILL"}
    BY <1>10 DEF Terminate, StopSignal
  <2>2. /\ slots' \in Seq(SlotType) /\ DOMAIN slots' = Slots
        /\ \A t \in Slots :
             /\ slots'[t].os = slots[t].os /\ slots'[t].exited = slots[t].exited
             /\ slots'[t].detached = slots[t].detached
             /\ slots'[t].got \subseteq slots[t].got \cup {StopSignal(delay')}
    BY <2>1, Signalled
  <2>3. slots = <<>> => slots' = <<>>
    BY <2>1 DEF SignalChildren, Slots
  <2>4. TypeOK'
    BY <1>10, <2>2 DEF IInv, TypeOK, Terminate, StopSignal, MinDelay, MaxDelay,
         Goto, locals, flags, bin, Delays
  <2>5. Begins'
    BY <1>10, <2>2, <2>3 DEF IInv, TypeOK, Terminate, StopSignal, MinDelay,
         MaxDelay, Goto, locals, flags, bin, Begins, Slots
  <2>6. LiveTells'
    BY <1>10, <2>2 DEF IInv, TypeOK, Terminate, StopSignal, MinDelay, MaxDelay,
         Goto, locals, flags, bin, LiveTells, Slots
  <2>7. Over'
    BY <1>10, <2>2, <2>3 DEF IInv, TypeOK, Terminate, StopSignal, MinDelay,
         MaxDelay, Goto, locals, flags, bin, Over, Slots
  <2>8. Patience'
    BY <1>10, <2>2 DEF IInv, TypeOK, Terminate, StopSignal, MinDelay, MaxDelay,
         Goto, locals, flags, bin, Patience, Doubled, Delays
  <2>9. TableMatchesKernel'
    BY <1>10, <2>2 DEF IInv, TypeOK, Terminate, StopSignal, MinDelay, MaxDelay,
         Goto, locals, flags, bin, TableMatchesKernel, Slots
  <2>10. KillAfterGrace'
    BY <1>10, <2>2 DEF IInv, TypeOK, Terminate, StopSignal, MinDelay, MaxDelay,
         Goto, locals, flags, bin, KillAfterGrace, Patience, Doubled, Delays,
         Slots
  <2>11. UpgradeHandsOver'
    BY <1>10, <2>2 DEF IInv, TypeOK, Terminate, StopSignal, MinDelay, MaxDelay,
         Goto, locals, flags, bin, UpgradeHandsOver, Slots
  <2> QED  BY <2>4, <2>5, <2>6, <2>7, <2>8, <2>9, <2>10, <2>11 DEF IInv
<1>11. ASSUME Quit  PROVE IInv'
  <2>1. SignalChildren("QUIT") /\ "QUIT" \in {"TERM", "QUIT", "KILL"}
    BY <1>11 DEF Quit
  <2>2. /\ slots' \in Seq(SlotType) /\ DOMAIN slots' = Slots
        /\ \A t \in Slots :
             /\ slots'[t].os = slots[t].os /\ slots'[t].exited = slots[t].exited
             /\ slots'[t].detached = slots[t].detached
             /\ slots'[t].got \subseteq slots[t].got \cup {"QUIT"}
    BY <2>1, Signalled
  <2>3. slots = <<>> => slots' = <<>>
    BY <2>1 DEF SignalChildren, Slots
  <2>4. TypeOK'
    BY <1>11, <2>2 DEF IInv, TypeOK, Quit, Goto, locals, flags, bin
  <2>5. Begins'
    BY <1>11, <2>2, <2>3 DEF IInv, TypeOK, Quit, Goto, locals, flags, bin,
         Begins, Slots
  <2>6. LiveTells'
    BY <1>11, <2>2 DEF IInv, TypeOK, Quit, Goto, locals, flags, bin, LiveTells,
         Slots
  <2>7. Over'
    BY <1>11, <2>2, <2>3 DEF IInv, TypeOK, Quit, Goto, locals, flags, bin, Over,
         Slots
  <2>8. Patience'
    BY <1>11, <2>2 DEF IInv, TypeOK, Quit, Goto, locals, flags, bin, Patience,
         Doubled, Delays
  <2>9. TableMatchesKernel'
    BY <1>11, <2>2 DEF IInv, TypeOK, Quit, Goto, locals, flags, bin,
         TableMatchesKernel, Slots
  <2>10. KillAfterGrace'
    BY <1>11, <2>2 DEF IInv, TypeOK, Quit, Goto, locals, flags, bin,
         KillAfterGrace, Slots
  <2>11. UpgradeHandsOver'
    BY <1>11, <2>2 DEF IInv, TypeOK, Quit, Goto, locals, flags, bin,
         UpgradeHandsOver, Slots
  <2> QED  BY <2>4, <2>5, <2>6, <2>7, <2>8, <2>9, <2>10, <2>11 DEF IInv
<1> QED
  BY <1>1, <1>2, <1>3, <1>4, <1>5, <1>6, <1>7, <1>8, <1>9, <1>10, <1>11 DEF Main

\* The children, the timer and the senders of signals.
LEMMA EnvironmentIInv == IInv /\ Environment => IInv'
<1> SUFFICES ASSUME IInv, Environment  PROVE IInv'
  OBVIOUS
<1> USE DEF bounds
<1>1. ASSUME NEW s \in Slots, Child(s)  PROVE IInv'
  <2>1. /\ Up(s)
        /\ \E os \in {"zombie", "hung"} :
             /\ SetOs(s, os)
             /\ pending' = IF os = "zombie" THEN pending \cup {"CHLD"} ELSE pending
        /\ UNCHANGED <<pc, locals, flags, bin, timer, alarms>>
    BY <1>1 DEF Child, ChildCrashes, ChildStops, ChildHangs, ChildKilled,
                NewBinaryEnds, Dies, Up
  <2> QED  BY <2>1, ChildIInv DEF Environment
<1>2. CASE TimerFires
  BY <1>2, PendingIInv DEF TimerFires, Signals
<1>3. ASSUME NEW sig \in Sent, Send(sig)  PROVE IInv'
  BY <1>3, PendingIInv DEF Send, Signals, IInv, TypeOK
<1>4. CASE Hangup
  <2>1. /\ pc = "reap" /\ UNCHANGED <<pc, locals, flags, bin, timer, pending, alarms>>
        /\ GetStatus
    BY <1>4 DEF Hangup
  <2>2. /\ slots' \in Seq(SlotType) /\ DOMAIN slots' = Slots
        /\ \A t \in Slots :
             /\ slots[t].os = "zombie" => slots'[t].os = "reaped" /\ slots'[t].exited
             /\ slots[t].os # "zombie" => slots'[t] = slots[t]
             /\ slots'[t].detached = slots[t].detached
             /\ slots'[t].got = slots[t].got
             /\ slots[t].exited => slots'[t].exited
    BY <2>1, Waited
  <2>3. TypeOK'
    BY <2>1, <2>2 DEF IInv, TypeOK, locals, flags, bin
  <2>4. Begins'
    BY <2>1, <2>2 DEF IInv, TypeOK, locals, flags, bin, Begins, Slots
  <2>5. LiveTells'
    BY <2>1, <2>2 DEF IInv, TypeOK, locals, flags, bin, LiveTells, Slots
  <2>6. Over'
    BY <2>1, <2>2 DEF IInv, TypeOK, locals, flags, bin, Over, Slots
  <2>7. Patience'
    BY <2>1, <2>2
    DEF IInv, TypeOK, locals, flags, bin, Patience, Doubled, Delays
  <2>8. TableMatchesKernel'
    BY <2>1, <2>2
    DEF IInv, TypeOK, locals, flags, bin, TableMatchesKernel, Slots
  <2>9. KillAfterGrace'
    BY <2>1, <2>2 DEF IInv, TypeOK, locals, flags, bin, KillAfterGrace, Slots
  <2>10. UpgradeHandsOver'
    BY <2>1, <2>2 DEF IInv, TypeOK, locals, flags, bin, UpgradeHandsOver, Slots
  <2> QED  BY <2>3, <2>4, <2>5, <2>6, <2>7, <2>8, <2>9, <2>10 DEF IInv
<1> QED
  BY <1>1, <1>2, <1>3, <1>4 DEF Environment

LEMMA StepIInv == IInv /\ [Next]_vars => IInv'
<1> SUFFICES ASSUME IInv, UNCHANGED vars  PROVE IInv'
  BY MainIInv, EnvironmentIInv DEF Next
<1> QED
  BY
  DEF vars, locals, flags, bin, IInv, TypeOK, Begins, LiveTells, Over, Patience,
         Doubled, TableMatchesKernel, KillAfterGrace, UpgradeHandsOver, Slots

\* Types, table, loop exit, patience and hand-over: the invariant of the proofs
\* (clagent.c:717-844).
THEOREM MasterInvariant == Spec => []IInv
  BY InitIInv, StepIInv, PTL DEF Spec
-----------------------------------------------------------------------------
\* ca_processes and the kernel agree about every child, however deaths, merged
\* signals and the handler of SIGHUP interleave (clagent.c:1214-1287).
THEOREM TableTrue == Spec => []TableMatchesKernel
  BY MasterInvariant, PTL DEF IInv

\* The master leaves its loop (clagent.c:808-810) only when every child but a
\* new binary has been waited for.
THEOREM NobodyLeft == Spec => []ExitLeavesNoChild
<1>1. IInv => ExitLeavesNoChild
  BY DEF IInv, Over, LiveTells, TableMatchesKernel, ExitLeavesNoChild, Slots
<1> QED  BY <1>1, MasterInvariant, PTL

\* SIGKILL is sent only after five alarms (clagent.c:782-826).
THEOREM KillsLate == Spec => []KillAfterGrace
  BY MasterInvariant, PTL DEF IInv

\* Beside a new binary the old master quits (clagent.c:836-841).
THEOREM HandsOver == Spec => []UpgradeHandsOver
  BY MasterInvariant, PTL DEF IInv

\* While quitting, no step adds a slot or fills one that was given up.
LEMMA QuitStep ==
  ASSUME IInv, Next, quit
  PROVE  /\ Len(slots') = Len(slots)
         /\ \A s \in Slots : slots[s].os = "reaped" => slots'[s].os = "reaped"
<1> DEFINE Kept == /\ slots' \in Seq(SlotType) /\ DOMAIN slots' = Slots
                   /\ \A s \in Slots : slots[s].os = "reaped" => slots'[s].os = "reaped"
<1>1. UNCHANGED slots => Kept
  BY DEF IInv, TypeOK, Slots
<1>2. GetStatus => Kept
  BY Waited
<1>3. ASSUME NEW sig \in {"TERM", "QUIT", "KILL"}, SignalChildren(sig)  PROVE Kept
  BY <1>3, Signalled
<1>4. Main => Kept
  <2>1. ~Create /\ ~Upgrade /\ ~Idle /\ ~UpgradeFails
    BY DEF IInv, Begins, Create, Upgrade, Idle, UpgradeFails
  <2>2. OutOfMemory \/ Top \/ Exit => UNCHANGED slots
    BY DEF OutOfMemory, Top, Exit
  <2>3. Suspend => GetStatus \/ UNCHANGED slots
    BY DEF Suspend
  <2>4. Reap => UNCHANGED slots
    <3>1. \A s \in Slots : ~Due(s)
      BY DEF Due
    <3>2. slots = [s \in Slots |-> slots[s]]
      BY LenProperties DEF IInv, TypeOK, Slots
    <3> QED  BY <3>1, <3>2 DEF Reap
  <2>5. Terminate => \E sig \in {"TERM", "KILL"} : SignalChildren(sig)
    BY DEF Terminate, StopSignal
  <2>6. Quit => SignalChildren("QUIT")
    BY DEF Quit
  <2> QED
    BY <1>1, <1>2, <1>3, <2>1, <2>2, <2>3, <2>4, <2>5, <2>6 DEF Main
<1>5. Environment => Kept
  <2>1. ASSUME NEW s \in Slots, Child(s)  PROVE Kept
    <3>1. Up(s) /\ \E os \in {"zombie", "hung"} : slots' = [slots EXCEPT ![s].os = os]
      BY <2>1 DEF Child, ChildCrashes, ChildStops, ChildHangs, ChildKilled,
                  NewBinaryEnds, Dies, SetOs, Up
    <3>2. slots \in [Slots -> SlotType]
      BY LenProperties DEF IInv, TypeOK, Slots
    <3>3. slots' \in [Slots -> SlotType]
      BY <3>1, <3>2 DEF SlotType
    <3>4. slots' \in Seq(SlotType) /\ DOMAIN slots' = Slots
      BY <3>3, Refilled DEF IInv, TypeOK
    <3> QED  BY <3>1, <3>2, <3>4 DEF Up
  <2>2. TimerFires \/ (\E sig \in Sent : Send(sig)) => UNCHANGED slots
    BY DEF TimerFires, Send
  <2>3. Hangup => GetStatus
    BY DEF Hangup
  <2> QED  BY <1>1, <1>2, <2>1, <2>2, <2>3 DEF Environment
<1>6. Kept
  BY <1>4, <1>5 DEF Next
<1> QED  BY <1>6, LenProperties DEF IInv, TypeOK, Slots

\* Once ca_quit is set nothing is forked any more (clagent.c:596-606, 836).
THEOREM NothingSpawned == Spec => NoSpawnAfterQuit
<1> DEFINE Spawns == quit => /\ Len(slots') = Len(slots)
                             /\ \A s \in Slots : slots[s].os = "reaped"
                                                => slots'[s].os = "reaped"
<1>1. IInv /\ [Next]_vars => [Spawns]_vars
  BY QuitStep
<1> QED  BY <1>1, MasterInvariant, PTL DEF Spec, NoSpawnAfterQuit
-----------------------------------------------------------------------------
\* A child the master has to wait for.
Left(s) == ~slots[s].detached /\ ~slots[s].exited

\* Children have been waited for, and live does not know it yet.
Unread == pc = "reap" /\ reap

\* A terminating master sleeps with an alarm before it, and it knows how many
\* alarms there were: delay is doubled for each until it is past MaxDelay.
Alarmed == /\ term => /\ pc # "create"
                      /\ pc = "top" => delay # 0
                      /\ pc = "suspend" => timer \/ "ALRM" \in pending
           /\ delay = 0 => ~timer /\ "ALRM" \notin pending /\ alarms = 0
           /\ alrm => delay # 0 /\ pc \notin {"create", "suspend"}
           /\ alarms > Doubled(delay) + (IF alrm THEN 1 ELSE 0) => delay > MaxDelay

LEMMA AlarmedStep == IInv /\ Alarmed /\ [Next]_vars => Alarmed'
<1> SUFFICES ASSUME IInv, Alarmed, [Next]_vars  PROVE Alarmed'
  OBVIOUS
<1> USE DEF locals, flags, bin, Goto
<1>0. /\ delay \in Delays /\ alarms \in 0..6 /\ alrm \in BOOLEAN /\ term \in BOOLEAN
      /\ pending \in SUBSET Signals /\ timer \in BOOLEAN
  BY DEF IInv, TypeOK
<1>1. CASE OutOfMemory \/ Exit
  BY <1>0, <1>1 DEF OutOfMemory, Exit, Alarmed
<1>2. CASE Create
  BY <1>0, <1>2 DEF Create, Alarmed
<1>3. CASE Top
  <2>1. /\ term' = term /\ pc = "top" /\ pc' = "suspend" /\ pending' = pending
        /\ alarms' = alarms /\ timer' = (timer \/ delay # 0)
        /\ alrm' = (alrm /\ delay = 0)
        /\ delay' = IF alrm /\ delay <= 1000 THEN 2 * delay ELSE delay
    BY <1>3 DEF Top, Grows, MaxDelay
  <2>2. ~alrm'
    BY <2>1, <1>0 DEF Alarmed
  <2>3. delay' = 0 <=> delay = 0
    BY <2>1, <1>0 DEF Delays
  <2>4. alarms' > Doubled(delay') => delay' > 1000
    <3>1. CASE delay > 1000
      BY <3>1, <2>1, <1>0 DEF Delays
    <3>2. CASE delay <= 1000 /\ ~alrm
      BY <3>2, <2>1, <1>0 DEF Alarmed, Delays, Doubled, MaxDelay
    <3>3. CASE delay <= 1000 /\ alrm
      <4>1. delay' = 2 * delay /\ delay \in {50, 100, 200, 400, 800}
        BY <3>3, <2>1, <1>0 DEF Alarmed, Delays
      <4>2. Doubled(delay') = Doubled(delay) + 1 /\ Doubled(delay) \in Nat
        BY <4>1 DEF Doubled
      <4>3. ~(alarms > Doubled(delay) + 1)
        BY <3>3, <1>0 DEF Alarmed, MaxDelay, Delays
      <4> QED  BY <4>2, <4>3, <2>1
    <3> QED  BY <3>1, <3>2, <3>3, <1>0 DEF Delays
  <2>5. (term' => timer') /\ (delay' = 0 => ~timer')
    BY <2>1, <2>3 DEF Alarmed
  <2>6. delay' = 0 => "ALRM" \notin pending' /\ alarms' = 0
    BY <2>1, <2>3 DEF Alarmed
  <2>7. alarms' > Doubled(delay') + (IF alrm' THEN 1 ELSE 0)
          => alarms' > Doubled(delay')
    BY <2>2 DEF Doubled
  <2> QED  BY <2>1, <2>2, <2>4, <2>5, <2>6, <2>7 DEF Alarmed, MaxDelay
<1>4. CASE Suspend
  <2>1. /\ pc' = "reap" /\ pending' = {} /\ delay' = delay /\ timer' = timer
        /\ alrm' = (alrm \/ "ALRM" \in pending)
        /\ alarms' = IF "ALRM" \in pending /\ alarms < 6 THEN alarms + 1 ELSE alarms
    BY <1>4 DEF Suspend
  <2>2. ~alrm
    BY <1>4 DEF Suspend, Alarmed
  <2>3. alarms' > Doubled(delay) + (IF alrm' THEN 1 ELSE 0) => delay > MaxDelay
    <3>1. Doubled(delay) \in Nat
      BY DEF Doubled
    <3>2. CASE "ALRM" \in pending
      <4>1. alarms' <= alarms + 1
        BY <2>1, <1>0
      <4>3. alrm'
        BY <2>1, <3>2
      <4>2. alarms > Doubled(delay) => delay > MaxDelay
        BY <2>2, <3>1, <1>0 DEF Alarmed
      <4> QED  BY <4>1, <4>2, <4>3, <3>1, <2>1, <1>0
    <3>3. CASE "ALRM" \notin pending
      BY <2>1, <2>2, <3>1, <3>3, <1>0 DEF Alarmed
    <3> QED  BY <3>2, <3>3
  <2> QED  BY <2>1, <2>2, <2>3, <1>0 DEF Alarmed
<1>5. CASE Reap
  BY <1>0, <1>5 DEF Reap, Alarmed
<1>6. CASE Terminate
  <2>1. /\ pc' = "top" /\ delay' = (IF delay = 0 THEN 50 ELSE delay)
        /\ UNCHANGED <<term, alrm, timer, pending, alarms>>
    BY <1>6 DEF Terminate, MinDelay
  <2>2. CASE delay = 0
    BY <2>1, <2>2, <1>0 DEF Alarmed, Doubled, MaxDelay
  <2>3. CASE delay # 0
    BY <2>1, <2>3, <1>0, <1>6 DEF Alarmed, Doubled, Terminate
  <2> QED  BY <2>2, <2>3
<1>7. CASE Quit \/ Idle
  BY <1>0, <1>7 DEF Quit, Idle, Alarmed
<1>8. CASE Upgrade \/ UpgradeFails
  <2>1. /\ UNCHANGED <<delay, term, alrm, alarms, timer>> /\ ~term /\ pc' = "top"
        /\ "ALRM" \in pending' => "ALRM" \in pending
    BY <1>8 DEF Upgrade, StepsBack, UpgradeFails
  <2>2. alarms' > Doubled(delay') + (IF alrm' THEN 1 ELSE 0) => delay' > MaxDelay
    BY <2>1 DEF Alarmed
  <2> QED  BY <2>1, <2>2 DEF Alarmed
<1>9. CASE Environment
  <2>1. UNCHANGED <<pc, delay, term, alrm, alarms>>
    BY <1>9 DEF Environment, Child, ChildCrashes, ChildStops, ChildHangs,
         ChildKilled, NewBinaryEnds, TimerFires, Hangup, Send
  <2>2. \/ timer' = timer /\ pending \subseteq pending'
           /\ ("ALRM" \in pending' => "ALRM" \in pending)
        \/ timer /\ "ALRM" \in pending' /\ ~timer'
    BY <1>9 DEF Environment, Child, ChildCrashes, ChildStops, ChildHangs,
         ChildKilled, NewBinaryEnds, Dies, TimerFires, Hangup, Send, Sent
  <2>3. delay = 0 => ~timer' /\ "ALRM" \notin pending'
    BY <2>2 DEF Alarmed
  <2>4. term /\ pc = "suspend" => timer' \/ "ALRM" \in pending'
    BY <2>2 DEF Alarmed
  <2>5. alarms' > Doubled(delay') + (IF alrm' THEN 1 ELSE 0) => delay' > MaxDelay
    BY <2>1 DEF Alarmed
  <2> QED  BY <2>1, <2>3, <2>4, <2>5 DEF Alarmed
<1>10. CASE UNCHANGED vars
  BY <1>10 DEF vars, Alarmed
<1> QED
  BY <1>1, <1>2, <1>3, <1>4, <1>5, <1>6, <1>7, <1>8, <1>9, <1>10 DEF Next, Main

\* What the steps do to a slot that is there, and to one that comes in.
Marks(t) == <<slots[t].respawn, slots[t].detached, slots[t].exiting, slots[t].got>>

LEMMA Oses ==
  ASSUME IInv, NEW s \in Slots, NEW os \in {"zombie", "hung"}, SetOs(s, os)
  PROVE  /\ DOMAIN slots' = Slots
         /\ \A t \in Slots : Marks(t)' = Marks(t) /\ slots'[t].exited = slots[t].exited
<1>1. slots \in [Slots -> SlotType]
  BY LenProperties DEF IInv, TypeOK, Slots
<1>2. slots' = [slots EXCEPT ![s] = [slots[s] EXCEPT !.os = os]]
  BY DEF SetOs
<1>3. DOMAIN slots' = Slots
  BY <1>1, <1>2
<1>4. ASSUME NEW t \in Slots
      PROVE  Marks(t)' = Marks(t) /\ slots'[t].exited = slots[t].exited
  <2>1. slots'[t] = IF t = s THEN [slots[s] EXCEPT !.os = os] ELSE slots[t]
    BY <1>1, <1>2
  <2>2. slots[t] \in SlotType
    BY <1>1
  <2> QED  BY <2>1, <2>2 DEF SlotType, Marks
<1> QED  BY <1>3, <1>4

LEMMA Waits ==
  ASSUME IInv, GetStatus
  PROVE  /\ DOMAIN slots' = Slots
         /\ \A t \in Slots : Marks(t)' = Marks(t)
<1>1. \A t \in Slots : slots[t] \in SlotType
  BY DEF IInv, TypeOK, Slots
<1> QED  BY <1>1 DEF GetStatus, SlotType, Marks

LEMMA Asks ==
  ASSUME IInv, NEW sig \in {"TERM", "QUIT", "KILL"}, SignalChildren(sig)
  PROVE  /\ DOMAIN slots' = Slots
         /\ \A t \in Slots :
              /\ slots'[t].detached = slots[t].detached
              /\ slots'[t].exited = slots[t].exited
              /\ IF Skips(t, sig) THEN slots'[t] = slots[t]
                 ELSE sig \in slots'[t].got
<1>1. \A t \in Slots : slots[t] \in SlotType
  BY DEF IInv, TypeOK, Slots
<1> QED  BY <1>1 DEF SignalChildren, SlotType

\* A new slot stands for a child that runs and has not been told anything.
Grown == /\ DOMAIN slots' = Slots \cup {Len(slots) + 1}
         /\ \A t \in Slots : slots'[t] = slots[t]
         /\ \A t \in DOMAIN slots' : t \in Slots \/ /\ ~slots'[t].exited
                                                    /\ ~slots'[t].exiting

LEMMA Comes ==
  ASSUME IInv, Create \/ Idle \/ Upgrade \/ UpgradeFails
  PROVE  /\ UNCHANGED slots \/ Grown
         /\ UNCHANGED <<live, quit, term>> /\ ~Unread /\ ~Unread'
         /\ UNCHANGED slots \/ UNCHANGED nforkfails
<1> USE DEF locals, flags, bin, bounds, Goto
<1>1. /\ UNCHANGED slots
         \/ \E e : slots' = Append(slots, e) /\ ~e.exited /\ ~e.exiting
      /\ UNCHANGED slots \/ UNCHANGED nforkfails
  BY DEF Create, Idle, Upgrade, UpgradeFails, SpawnFails, SpawnNew, NewSlot
<1>2. UNCHANGED <<live, quit, term>> /\ ~Unread /\ ~Unread'
  BY DEF Create, Idle, Upgrade, UpgradeFails, Unread
<1>3. ASSUME NEW e, slots' = Append(slots, e), ~e.exited, ~e.exiting  PROVE Grown
  <2>1. slots \in Seq(SlotType)
    BY DEF IInv, TypeOK
  <2>2. Len(slots) \in Nat /\ Slots = 1..Len(slots) /\ DOMAIN slots' = 1..(Len(slots) + 1)
    BY <1>3, <2>1, LenProperties DEF Slots
  <2>3. \A t \in Slots : slots'[t] = slots[t]
    BY <1>3, <2>1, <2>2
  <2>4. slots'[Len(slots) + 1] = e
    BY <1>3, <2>1, <2>2
  <2> QED  BY <1>3, <2>2, <2>3, <2>4 DEF Grown
<1> QED  BY <1>1, <1>2, <1>3

\* The steps of others leave the master and the marks of its children alone;
\* a child is marked exited by the handler of SIGHUP only.
LEMMA Others ==
  ASSUME IInv, Environment
  PROVE  /\ UNCHANGED <<pc, live, reap, quit, term, nforkfails, alarms>>
         /\ DOMAIN slots' = Slots
         /\ \A t \in Slots : Marks(t)' = Marks(t)
         /\ ~Unread => \A t \in Slots : slots'[t].exited = slots[t].exited
<1> USE DEF locals, flags, bounds
<1>1. ASSUME NEW s \in Slots, Child(s)
      PROVE  /\ \E os \in {"zombie", "hung"} : SetOs(s, os)
             /\ UNCHANGED <<pc, live, reap, quit, term, nforkfails, alarms>>
  BY <1>1 DEF Child, ChildCrashes, ChildStops, ChildHangs, ChildKilled,
              NewBinaryEnds, Dies
<1>2. CASE TimerFires \/ \E sig \in Sent : Send(sig)
  BY <1>2 DEF TimerFires, Send, Slots, Marks
<1>3. CASE Hangup
  BY <1>3, Waits DEF Hangup, Unread
<1> QED  BY <1>1, <1>2, <1>3, Oses DEF Environment

\* Every child that is left when a stopping master sleeps has been asked to stop,
\* also one that was respawned while it was terminating.
Asked ==
  /\ \A s \in Slots : slots[s].exiting => slots[s].got # {}
  /\ pc \in {"top", "suspend"} /\ (quit \/ term) =>
       /\ live
       /\ \A s \in Slots : Left(s) =>
            /\ slots[s].got # {}
            /\ ~term => "QUIT" \in slots[s].got
            /\ term /\ alarms = 6 => "KILL" \in slots[s].got

LEMMA AskedStep == IInv /\ Alarmed /\ Asked /\ [Next]_vars => Asked'
<1> SUFFICES ASSUME IInv, Alarmed, Asked, [Next]_vars  PROVE Asked'
  OBVIOUS
<1> USE DEF locals, flags, bin, Goto
<1> DEFINE Stops == pc \in {"top", "suspend"} /\ (quit \/ term)
<1>0. pc = "create" => ~quit /\ ~term
  BY DEF IInv, Begins, Alarmed
<1>1. CASE OutOfMemory \/ Exit
  BY <1>1 DEF OutOfMemory, Exit, Asked, Slots
<1>2. CASE Create \/ Idle \/ Upgrade \/ UpgradeFails
  <2>1. ~Stops'
    BY <1>0, <1>2 DEF Create, Idle, Upgrade, UpgradeFails
  <2>2. CASE UNCHANGED slots
    BY <2>1, <2>2 DEF Asked, Slots
  <2>3. CASE Grown
    BY <2>1, <2>3 DEF Asked, Grown, Slots
  <2> QED  BY <1>2, <2>2, <2>3, Comes
<1>3. CASE Top
  BY <1>3 DEF Top, Asked, Slots, Left
<1>4. CASE Suspend
  <2>1. ~Stops' /\ (GetStatus \/ UNCHANGED slots)
    BY <1>4 DEF Suspend
  <2> QED  BY <2>1, Waits DEF Asked, Slots, Marks
<1>5. CASE Reap
  <2>1. ~Stops'
    BY <1>5 DEF Reap
  <2>2. \A s \in DOMAIN slots' : slots'[s].exiting => slots'[s].got # {}
    <3>1. CASE ~reap
      BY <1>5, <3>1 DEF Reap, Asked, Slots
    <3>2. CASE reap
      <4>1. PICK failed \in SUBSET {s \in Slots : Due(s)} :
              slots' = [s \in Slots |-> IF Due(s) /\ s \notin failed
                                        THEN Respawned(s) ELSE slots[s]]
        BY <1>5, <3>2 DEF Reap
      <4>2. ASSUME NEW s \in Slots, Due(s)  PROVE ~Respawned(s).exiting
        BY <4>2 DEF Due, Respawned, IInv, TypeOK, SlotType, Slots
      <4> QED  BY <4>1, <4>2 DEF Asked
    <3> QED  BY <3>1, <3>2
  <2> QED  BY <2>1, <2>2 DEF Asked, Slots
<1>6. CASE Terminate
  <2> DEFINE sig == StopSignal(delay')
  <2>1. /\ term' = term /\ term /\ live' = live /\ live /\ alarms' = alarms
        /\ SignalChildren(sig) /\ sig \in {"TERM", "QUIT", "KILL"}
    BY <1>6 DEF Terminate, StopSignal
  <2>2. alarms = 6 => sig = "KILL"
    <3>1. alarms = 6 => alarms > Doubled(delay) + (IF alrm THEN 1 ELSE 0)
                        \/ delay > MaxDelay
      BY DEF Doubled, IInv, TypeOK, Delays, MaxDelay
    <3>2. alarms = 6 => delay > MaxDelay
      BY <3>1 DEF Alarmed
    <3>3. delay > MaxDelay => delay' = delay
      BY <1>6 DEF Terminate, MaxDelay
    <3> QED  BY <3>2, <3>3 DEF StopSignal
  <2> HIDE DEF sig
  <2>3. ASSUME NEW s \in Slots
        PROVE  /\ slots'[s].exiting => slots'[s].got # {}
               /\ Left(s)' => /\ slots'[s].got # {}
                              /\ alarms = 6 => "KILL" \in slots'[s].got
    <3>1. CASE Skips(s, sig)
      <4>1. slots'[s] = slots[s]
        BY <2>1, <3>1, Asks
      <4>2. Left(s) => slots[s].exiting /\ sig = "TERM"
        BY <3>1 DEF Skips, Left
      <4> QED  BY <2>2, <4>1, <4>2 DEF Asked, Left
    <3>2. CASE ~Skips(s, sig)
      BY <2>1, <2>2, <3>2, Asks
    <3> QED  BY <3>1, <3>2
  <2>4. DOMAIN slots' = Slots
    BY <2>1, Asks
  <2> QED  BY <2>1, <2>3, <2>4 DEF Asked, Slots
<1>7. CASE Quit
  <2>1. /\ quit /\ ~term /\ ~term' /\ live' = live /\ live
        /\ SignalChildren("QUIT")
    BY <1>7 DEF Quit
  <2>2. ASSUME NEW s \in Slots
        PROVE  /\ slots'[s].exiting => slots'[s].got # {}
               /\ Left(s)' => "QUIT" \in slots'[s].got
    <3>1. CASE Skips(s, "QUIT")
      <4>1. slots'[s] = slots[s]
        BY <2>1, <3>1, Asks
      <4>2. ~Left(s)
        BY <3>1 DEF Skips, Left
      <4> QED  BY <4>1, <4>2 DEF Asked, Left
    <3>2. CASE ~Skips(s, "QUIT")
      BY <2>1, <3>2, Asks
    <3> QED  BY <3>1, <3>2
  <2>3. DOMAIN slots' = Slots
    BY <2>1, Asks
  <2> QED  BY <2>1, <2>2, <2>3 DEF Asked, Slots
<1>9. CASE Environment
  <2>1. /\ UNCHANGED <<pc, live, quit, term, alarms>> /\ DOMAIN slots' = Slots
        /\ \A t \in Slots : Marks(t)' = Marks(t)
        /\ ~Unread => \A t \in Slots : slots'[t].exited = slots[t].exited
    BY <1>9, Others
  <2>2. \A t \in Slots : /\ slots'[t].exiting = slots[t].exiting
                         /\ slots'[t].got = slots[t].got
                         /\ slots'[t].detached = slots[t].detached
    BY <2>1 DEF Marks
  <2>3. pc \in {"top", "suspend"} => \A t \in Slots : Left(t)' = Left(t)
    BY <2>1, <2>2 DEF Unread, Left
  <2> HIDE DEF Left
  <2> QED  BY <2>1, <2>2, <2>3 DEF Asked, Slots
<1>10. CASE UNCHANGED vars
  BY <1>10 DEF vars, Asked, Slots, Left
<1> QED
  BY <1>1, <1>2, <1>3, <1>4, <1>5, <1>6, <1>7, <1>9, <1>10 DEF Next, Main

\* live tells the truth once the deaths have been counted: when it is TRUE, a
\* child is left, or there has never been one.
Told == live /\ ~Unread => slots = <<>> \/ SomeLeft(slots)

LEMMA ToldStep == IInv /\ Told /\ [Next]_vars => Told'
<1> SUFFICES ASSUME IInv, Told, [Next]_vars, live', ~Unread'
    PROVE  slots' = <<>> \/ SomeLeft(slots')
  BY DEF Told
<1> USE DEF locals, flags, bin, Goto
<1>0. slots' = <<>> <=> DOMAIN slots' = {}
  BY StepIInv, LenProperties, EmptySeq DEF IInv, TypeOK
<1>1. ASSUME DOMAIN slots' = Slots, live, ~Unread,
             \A t \in Slots : slots'[t].exited = slots[t].exited
      PROVE  slots' = <<>> \/ SomeLeft(slots')
  BY <1>0, <1>1 DEF Told, SomeLeft, Slots
<1>2. CASE UNCHANGED slots /\ UNCHANGED live /\ ~Unread
  BY <1>2 DEF Told
<1>3. CASE OutOfMemory \/ Exit \/ Top
  BY <1>2, <1>3 DEF OutOfMemory, Exit, Top, Unread
<1>4. CASE Create \/ Idle \/ Upgrade \/ UpgradeFails
  <2>1. CASE UNCHANGED slots
    BY <1>2, <1>4, <2>1, Comes
  <2>2. CASE Grown
    <3>1. Len(slots) + 1 \in DOMAIN slots' /\ Len(slots) + 1 \notin Slots
      BY <2>2, LenProperties DEF Grown, IInv, TypeOK, Slots
    <3> QED  BY <2>2, <3>1 DEF Grown, SomeLeft
  <2> QED  BY <1>4, <2>1, <2>2, Comes
<1>5. CASE Suspend
  BY <1>2, <1>5 DEF Suspend, Unread
<1>6. CASE Reap
  BY <1>2, <1>6 DEF Reap, Unread
<1>7. CASE Terminate \/ Quit
  <2>1. /\ live' = live /\ pc = "decide"
        /\ \E sig \in {"TERM", "QUIT", "KILL"} : SignalChildren(sig)
    BY <1>7 DEF Terminate, Quit, StopSignal
  <2>2. PICK sig \in {"TERM", "QUIT", "KILL"} : SignalChildren(sig)
    BY <2>1
  <2>3. /\ DOMAIN slots' = Slots
        /\ \A t \in Slots : slots'[t].exited = slots[t].exited
    BY <2>2, Asks
  <2> QED  BY <1>1, <2>1, <2>3 DEF Unread
<1>8. CASE Environment
  <2>1. live /\ ~Unread
    <3>1. pc' = pc /\ reap' = reap /\ live' = live
      BY <1>8, Others
    <3> QED  BY <3>1 DEF Unread
  <2>2. /\ DOMAIN slots' = Slots
        /\ \A t \in Slots : slots'[t].exited = slots[t].exited
    BY <1>8, <2>1, Others
  <2> QED  BY <1>1, <2>1, <2>2
<1>9. CASE UNCHANGED vars
  BY <1>2, <1>9 DEF vars, Unread
<1> QED  BY <1>3, <1>4, <1>5, <1>6, <1>7, <1>8, <1>9 DEF Next, Main

\* A master that is not stopping has replaced the children it has waited for,
\* unless a fork has failed.
Replaced ==
  /\ nforkfails \in Nat
  /\ ~quit /\ ~term =>
       /\ \A s \in Slots : ~slots[s].exiting
       /\ ~Unread /\ nforkfails = 0 =>
            \A s \in Slots : slots[s].respawn => ~slots[s].exited

LEMMA ReplacedStep == IInv /\ Replaced /\ [Next]_vars => Replaced'
<1> SUFFICES ASSUME IInv, Replaced, [Next]_vars  PROVE Replaced'
  OBVIOUS
<1> USE DEF locals, flags, bin, bounds, Goto
<1>1. ASSUME UNCHANGED <<slots, quit, term>>, nforkfails' \in Nat,
             nforkfails' >= nforkfails, ~Unread
      PROVE  Replaced'
  BY <1>1 DEF Replaced, Slots
<1>2. CASE OutOfMemory \/ Exit \/ Top
  BY <1>1, <1>2 DEF OutOfMemory, Exit, Top, Unread, Replaced
<1>3. CASE Create \/ Idle \/ Upgrade \/ UpgradeFails
  <2>1. CASE UNCHANGED slots
    <3>1. nforkfails' = nforkfails \/ nforkfails' = nforkfails + 1
      BY <1>3 DEF Create, Idle, Upgrade, UpgradeFails, SpawnFails, SpawnNew
    <3> QED  BY <1>1, <1>3, <2>1, <3>1, Comes DEF Replaced
  <2>2. CASE Grown /\ UNCHANGED nforkfails
    BY <1>3, <2>2, Comes DEF Grown, Replaced, Slots
  <2> QED  BY <1>3, <2>1, <2>2, Comes
<1>5. CASE Suspend
  <2>1. /\ UNCHANGED nforkfails /\ (quit => quit') /\ (term => term') /\ ~Unread
        /\ \/ Unread' /\ GetStatus
           \/ UNCHANGED slots
    BY <1>5 DEF Suspend, Unread
  <2>2. CASE Unread' /\ GetStatus
    BY <2>1, <2>2, Waits DEF Replaced, Slots, Marks
  <2>3. CASE UNCHANGED slots
    BY <2>1, <2>3 DEF Replaced, Slots
  <2> QED  BY <2>1, <2>2, <2>3
<1>6. CASE Reap
  <2>1. CASE ~reap
    BY <1>1, <1>6, <2>1 DEF Reap, Unread, Replaced
  <2>2. CASE reap
    <3>1. PICK failed \in SUBSET {s \in Slots : Due(s)} :
            /\ nforkfails' = nforkfails + Cardinality(failed)
            /\ slots' = [s \in Slots |-> IF Due(s) /\ s \notin failed
                                         THEN Respawned(s) ELSE slots[s]]
      BY <1>6, <2>2 DEF Reap
    <3>2. IsFiniteSet(failed)
      <4>1. Slots = 1..Len(slots) /\ Len(slots) \in Nat
        BY LenProperties DEF IInv, TypeOK, Slots
      <4>2. IsFiniteSet(Slots) /\ failed \in SUBSET Slots
        BY <4>1, FS_Interval
      <4> QED  BY <4>2, FS_Subset
    <3>3. Cardinality(failed) \in Nat /\ (Cardinality(failed) = 0 => failed = {})
      BY <3>2, FS_CardinalityType, FS_EmptySet
    <3>4. nforkfails' \in Nat /\ (nforkfails' = 0 => failed = {} /\ nforkfails = 0)
      BY <3>1, <3>3 DEF Replaced
    <3>5. ASSUME NEW s \in Slots
          PROVE  /\ slots'[s].exiting = slots[s].exiting
                 /\ slots'[s].respawn = slots[s].respawn
                 /\ Due(s) /\ s \notin failed => ~slots'[s].exited
                 /\ ~Due(s) => slots'[s].exited = slots[s].exited
      <4>1. slots[s] \in SlotType
        BY DEF IInv, TypeOK, Slots
      <4>2. slots'[s] = IF Due(s) /\ s \notin failed THEN Respawned(s) ELSE slots[s]
        BY <3>1
      <4>3. s \in failed => Due(s)
        OBVIOUS
      <4>4. /\ Respawned(s).exiting = slots[s].exiting
            /\ Respawned(s).respawn = slots[s].respawn /\ ~Respawned(s).exited
        BY <4>1 DEF Respawned, SlotType
      <4> HIDE DEF Due
      <4> QED  BY <4>2, <4>3, <4>4
    <3>6. DOMAIN slots' = Slots /\ UNCHANGED <<quit, term>>
      BY <1>6, <3>1 DEF Reap
    <3>7. \A s \in Slots : slots[s].exited /\ slots[s].respawn /\ ~slots[s].exiting
                           /\ ~quit => Due(s)
      BY DEF Due
    <3> HIDE DEF Due
    <3> QED  BY <3>4, <3>5, <3>6, <3>7 DEF Replaced, Slots
  <2> QED  BY <2>1, <2>2
<1>7. CASE Terminate \/ Quit
  BY <1>7 DEF Terminate, Quit, Replaced
<1>8. CASE Environment
  BY <1>8, Others DEF Replaced, Unread, Marks, Slots
<1>9. CASE UNCHANGED vars
  BY <1>9 DEF vars, Replaced, Unread, Slots
<1> QED  BY <1>2, <1>3, <1>5, <1>6, <1>7, <1>8, <1>9 DEF Next, Main

LEMMA WakesInvariant == Spec => [](IInv /\ Alarmed /\ Asked /\ Told /\ Replaced)
<1>1. Init => Alarmed /\ Asked /\ Told /\ Replaced
  <2> SUFFICES ASSUME Init  PROVE Alarmed /\ Asked /\ Told /\ Replaced
    OBVIOUS
  <2>1. Slots = {}
    BY DEF Init, Slots
  <2>2. Alarmed
    BY DEF Init, Alarmed, Doubled
  <2> QED  BY <2>1, <2>2 DEF Init, Asked, Told, Replaced
<1> QED
  BY <1>1, InitIInv, StepIInv, AlarmedStep, AskedStep, ToldStep, ReplacedStep,
     PTL
     DEF Spec

\* When a stopping master goes to sleep, there is a child left to wait for (or
\* there has never been one); every one that is left has been asked to stop,
\* with SIGQUIT if that is the way; and while terminating an alarm is before it.
StoppingSleeps ==
  pc = "suspend" /\ (quit \/ term) =>
    /\ slots = <<>> \/ SomeLeft(slots)
    /\ \A s \in Slots : Left(s) =>
         /\ slots[s].got # {}
         /\ ~term => "QUIT" \in slots[s].got
    /\ term => timer \/ "ALRM" \in pending

\* The part of TerminateExits and QuitExits that is safety: no child escapes the
\* signals, also one that was respawned while the master was terminating, and
\* the master never sleeps for a child it has already waited for, nor without
\* an alarm while it terminates (clagent.c:782-826).
THEOREM NobodyForgotten == Spec => []StoppingSleeps
<1>1. Alarmed /\ Asked /\ Told => StoppingSleeps
  BY DEF Alarmed, Asked, Told, Unread, StoppingSleeps
<1> QED  BY <1>1, WakesInvariant, PTL

\* The counterpart of KillAfterGrace: after six alarms every child that is left
\* has been sent SIGKILL.
KillInTheEnd ==
  pc = "suspend" /\ term /\ alarms = 6 =>
    \A s \in Slots : Left(s) => "KILL" \in slots[s].got

\* SIGKILL is not put off: alarms that are handled together with other signals
\* count, and a child that comes late is killed with the others
\* (clagent.c:784-788, 816-826).
THEOREM KillsComplete == Spec => []KillInTheEnd
<1>1. Asked => KillInTheEnd
  BY DEF Asked, KillInTheEnd
<1> QED  BY <1>1, WakesInvariant, PTL

\* A master that goes to sleep and is not to stop has replaced every child it
\* has waited for, unless a fork has failed; of others that have died SIGCHLD
\* is pending.
SleepsWithChildren ==
  pc = "suspend" /\ ~quit /\ ~term /\ nforkfails = 0 =>
    \A s \in Slots : slots[s].respawn =>
      Up(s) \/ (slots[s].os = "zombie" /\ "CHLD" \in pending)

\* The part of DeadIsReplaced that is safety (clagent.c:575-633, 844-847).
THEOREM DeadReplaced == Spec => []SleepsWithChildren
<1>1. IInv /\ Replaced => SleepsWithChildren
  <2> SUFFICES ASSUME IInv, Replaced, pc = "suspend", ~quit, ~term, nforkfails = 0,
                      NEW s \in Slots, slots[s].respawn
               PROVE  Up(s) \/ (slots[s].os = "zombie" /\ "CHLD" \in pending)
    BY DEF SleepsWithChildren
  <2>1. slots[s].os \in {"alive", "hung", "zombie", "reaped"}
    <3>1. slots[s] \in SlotType
      BY DEF IInv, TypeOK, Slots
    <3> QED  BY <3>1 DEF SlotType
  <2>2. slots[s].os # "reaped"
    BY DEF IInv, TableMatchesKernel, Replaced, Unread
  <2> QED  BY <2>1, <2>2 DEF Up, IInv, TableMatchesKernel
<1> QED  BY <1>1, WakesInvariant, PTL

\* A child that was told to stop and has ended is not started again, whether the
\* master is quitting or terminating (clagent.c:596-606).
THEOREM AskedStayDown ==
  Spec => [][\A s \in Slots : slots[s].exiting /\ slots[s].os = "reaped"
                                => slots'[s] = slots[s]]_vars
<1> DEFINE Down(s) == slots[s].exiting /\ slots[s].os = "reaped"
           Stays == \A s \in Slots : Down(s) => slots'[s] = slots[s]
<1>1. ASSUME IInv, Next, NEW s \in Slots, Down(s)  PROVE slots'[s] = slots[s]
  <2>1. slots[s].exited
    BY <1>1 DEF IInv, TableMatchesKernel
  <2>2. CASE OutOfMemory \/ Top \/ Exit
    BY <2>2 DEF OutOfMemory, Top, Exit
  <2>3. CASE Create \/ Idle \/ Upgrade \/ UpgradeFails
    BY <1>1, <2>3, Comes DEF Grown
  <2>4. CASE Suspend \/ Hangup
    <3>1. GetStatus \/ UNCHANGED slots
      BY <2>4 DEF Suspend, Hangup
    <3> QED  BY <1>1, <3>1, Waited
  <2>5. CASE Reap
    <3>1. ~Due(s)
      BY <1>1 DEF Due
    <3> HIDE DEF Due
    <3> QED  BY <2>5, <3>1 DEF Reap
  <2>6. CASE Terminate \/ Quit
    <3>1. PICK sig \in {"TERM", "QUIT", "KILL"} : SignalChildren(sig)
      BY <2>6 DEF Terminate, Quit, StopSignal
    <3>2. Skips(s, sig)
      BY <2>1 DEF Skips
    <3> QED  BY <1>1, <3>1, <3>2, Asks
  <2>7. CASE TimerFires \/ \E sig \in Sent : Send(sig)
    BY <2>7 DEF TimerFires, Send
  <2>8. ASSUME NEW t \in Slots, Child(t)  PROVE slots'[s] = slots[s]
    <3>1. Up(t) /\ \E os \in {"zombie", "hung"} : slots' = [slots EXCEPT ![t].os = os]
      BY <2>8 DEF Child, ChildCrashes, ChildStops, ChildHangs, ChildKilled,
                  NewBinaryEnds, Dies, SetOs, Up
    <3>2. s # t
      BY <1>1, <3>1 DEF Up
    <3>3. slots \in [Slots -> SlotType]
      BY <1>1, LenProperties DEF IInv, TypeOK, Slots
    <3> QED  BY <3>1, <3>2, <3>3
  <2> QED  BY <1>1, <2>2, <2>3, <2>4, <2>5, <2>6, <2>7, <2>8
              DEF Next, Main, Environment
<1>2. IInv /\ [Next]_vars => [Stays]_vars
  BY <1>1
<1> QED  BY <1>2, MasterInvariant, PTL DEF Spec
=============================================================================
