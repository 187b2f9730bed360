--------------------------- MODULE Update_proofs ---------------------------
(***************************************************************************)
(* Proofs that the update process leaves no updater behind and starts none *)
(* that the comparison has refused, for any bodies, any number of signals  *)
(* and failed forks.                                                       *)
(*                                                                         *)
(* The argument: there is an updater exactly while the process waits for   *)
(* it.  A signal may move the process out of wait, but only to the test of *)
(* the flags, from which it waits again.                                   *)
(*                                                                         *)
(* What the comparison makes of a body is computed for bodies of any       *)
(* digits: the folds run over at most two elements, so that the function   *)
(* each one stands for can be written down (OneDigit and what follows).    *)
(***************************************************************************)
EXTENDS Update, SequenceTheorems, TLAPS

PCs      == {"begin", "top", "fetch", "compare", "spawn", "wait", "eintr", "next",
             "sleep", "hung", "gone"}
Children == {"none", "forked", "running", "zombie"}

Waiting == pc \in {"wait", "eintr"}

IInv == /\ pc \in PCs
        /\ child \in Children
        /\ Waiting <=> child # "none"
-----------------------------------------------------------------------------
LEMMA InitIInv == Init => IInv
  BY DEF Init, IInv, PCs, Children, Waiting

\* Spawn enters the wait with an updater, WaitReturns leaves it without one, and
\* no other step of the cycle passes between waiting and not waiting.
LEMMA CycleIInv == IInv /\ Cycle => IInv'
<1> SUFFICES ASSUME IInv, Cycle  PROVE IInv'
  OBVIOUS
<1> USE DEF IInv, PCs, Children, Waiting, Goto
<1>1. CASE Begin
  BY <1>1 DEF Begin
<1>2. CASE Top
  BY <1>2 DEF Top
<1>3. CASE Fetch
  BY <1>3 DEF Fetch
<1>4. CASE Compare
  BY <1>4 DEF Compare
<1>5. CASE Spawn
  BY <1>5 DEF Spawn
<1>6. CASE SpawnFails
  BY <1>6 DEF SpawnFails
<1>7. CASE WaitReturns
  BY <1>7 DEF WaitReturns
<1>8. CASE Interrupted
  BY <1>8 DEF Interrupted
<1>9. CASE NextCheck
  BY <1>9 DEF NextCheck
<1>10. CASE SleepEnds
  BY <1>10 DEF SleepEnds
<1> QED
  BY <1>1, <1>2, <1>3, <1>4, <1>5, <1>6, <1>7, <1>8, <1>9, <1>10 DEF Cycle

LEMMA StepIInv == IInv /\ [Next]_vars => IInv'
<1> SUFFICES ASSUME IInv, [Next]_vars  PROVE IInv'
  OBVIOUS
<1> USE DEF IInv, PCs, Children, Waiting
<1>1. CASE Cycle
  BY <1>1, CycleIInv
<1>2. CASE Signal
  BY <1>2 DEF Signal, Handles
<1>3. CASE Exec
  BY <1>3 DEF Exec
<1>4. CASE Dies
  BY <1>4 DEF Dies
<1>5. CASE UNCHANGED vars
  BY <1>5 DEF vars
<1> QED
  BY <1>1, <1>2, <1>3, <1>4, <1>5 DEF Next, Updater
-----------------------------------------------------------------------------
\* Whatever the server sends, however many signals come between any two steps
\* and whichever forks fail: when ca_update_process_cycle has ended, no updater
\* is left (ca_update.c:111-135).
THEOREM UpdaterReaped == Spec => []NoOrphan
<1>1. Init => IInv
  BY InitIInv
<1>2. IInv /\ [Next]_vars => IInv'
  BY StepIInv
<1>3. IInv => NoOrphan
  BY DEF IInv, Waiting, NoOrphan
<1> QED  BY <1>1, <1>2, <1>3, PTL DEF Spec
-----------------------------------------------------------------------------
\* What is compared is what is acted on.
SpawnIsNeeded == pc = "spawn" => NeedUpdate(served)

LEMMA NeededStep == SpawnIsNeeded /\ [Next]_vars => SpawnIsNeeded'
<1> SUFFICES ASSUME SpawnIsNeeded, [Next]_vars  PROVE SpawnIsNeeded'
  OBVIOUS
<1> USE DEF SpawnIsNeeded, Goto
<1>1. CASE Compare
  <2>1. /\ pc' = IF NeedUpdate(served) THEN "spawn" ELSE "next"
        /\ served' = served
    BY <1>1 DEF Compare
  <2> QED  BY <2>1
<1>2. CASE Signal
  BY <1>2 DEF Signal, Handles
<1>3. CASE Updater
  BY <1>3 DEF Updater, Exec, Dies
<1>4. CASE UNCHANGED vars
  BY <1>4 DEF vars
<1>5. CASE Cycle /\ ~Compare
  BY <1>5 DEF Cycle, Begin, Top, Fetch, Spawn, SpawnFails, WaitReturns,
              Interrupted, NextCheck, SleepEnds
<1> QED
  BY <1>1, <1>2, <1>3, <1>4, <1>5 DEF Next

\* An updater is started only for a body that the comparison has taken for newer,
\* whatever signals come in between (ca_update.c:84-132, 181-218).
THEOREM UpdateWasNeeded == Spec => []SpawnIsNeeded
<1>1. Init => SpawnIsNeeded
  BY DEF Init, SpawnIsNeeded
<1> QED  BY <1>1, NeededStep, PTL DEF Spec
-----------------------------------------------------------------------------
(***************************************************************************)
(* What ca_need_update computes.  A fold is a recursive function that is   *)
(* chosen; where a sequence has two elements at most, the function can be  *)
(* written down, and so there is one to choose.                            *)
(***************************************************************************)
LEMMA MaxOne == ASSUME NEW x \in Nat PROVE Max({x}) = x
  BY DEF Max
LEMMA MaxTwo == Max({1, 2}) = 2
<1>1. \A x \in {1,2} : (\A y \in {1,2} : x >= y) <=> x = 2
  OBVIOUS
<1> QED BY <1>1 DEF Max

LEMMA OneDigit == ASSUME NEW d
  PROVE HexToInt(<<d>>) = IF Wrap(0 * 16 + d) < 0 THEN CaError ELSE Wrap(0 * 16 + d)
<1> DEFINE s == <<d>>
           iter(t) == [u \in SUBSET {1} |->
                        IF u = {} THEN 0
                        ELSE LET x == Max(u) IN Wrap(t[u \ {x}] * 16 + s[x])]
           g == [u \in SUBSET {1} |-> IF u = {} THEN 0 ELSE Wrap(0 * 16 + d)]
           c == CHOOSE t : t = iter(t)
<1>1. DOMAIN s = {1} /\ s # <<>>
  OBVIOUS
<1>2. g = iter(g)
  <2>1. SUBSET {1} = {{}, {1}}
    OBVIOUS
  <2>2. \A u \in SUBSET {1} : g[u] = iter(g)[u]
    <3>1. g[{}] = iter(g)[{}]
      OBVIOUS
    <3>2. g[{1}] = iter(g)[{1}]
      BY MaxOne
    <3> QED BY <3>1, <3>2, <2>1
  <2> QED BY <2>2
<1>3. c = iter(c)
  <2> HIDE DEF iter, g
  <2> QED BY <1>2
<1>4. c[{1}] = Wrap(c[{}] * 16 + s[1])
  <2>1. Max({1}) = 1 BY MaxOne
  <2>2. {1} \ {1} = {} OBVIOUS
  <2>3. iter(c)[{1}] = Wrap(c[{}] * 16 + s[1]) BY <2>1, <2>2
  <2> HIDE DEF c, iter
  <2> QED BY <1>3, <2>3
<1>5. c[{}] = 0
  <2>1. iter(c)[{}] = 0 OBVIOUS
  <2> HIDE DEF c, iter
  <2> QED BY <2>1, <1>3
<1>6. HexToInt(s) = IF c[{1}] < 0 THEN CaError ELSE c[{1}]
  BY <1>1 DEF HexToInt, FoldLeft, MapThenFoldSet
<1> HIDE DEF c
<1> QED BY <1>4, <1>5, <1>6


\* The version of a body is that of the components before its last, of which
\* a valid body has two at most.
LEMMA VersionIs ==
  ASSUME NEW r, NEW s, s = Compared(r), NEW S, S = DOMAIN s,
         S \in {{}, {1}, {1, 2}}
  PROVE  /\ S = {} => Version(r) = 0
         /\ S = {1} => Version(r) = 0 * 256 + ca_hextoi(s[1])
         /\ S = {1, 2} =>
              Version(r) = (0 * 256 + ca_hextoi(s[1])) * 256 + ca_hextoi(s[2])
<1> DEFINE F(t, x, u) == t[u \ {x}] * 256 + ca_hextoi(s[x])
           iter(t) == [u \in SUBSET S |-> IF u = {} THEN 0
                                          ELSE LET x == Max(u) IN F(t, x, u)]
           one(i) == 0 * 256 + ca_hextoi(s[i])
           two == one(1) * 256 + ca_hextoi(s[2])
           g == [u \in SUBSET S |-> IF u = {} THEN 0 ELSE IF u = {1} THEN one(1)
                                    ELSE IF u = {2} THEN one(2) ELSE two]
           c == CHOOSE t : t = iter(t)
<1>1. /\ Max({1}) = 1 /\ Max({2}) = 2 /\ Max({1, 2}) = 2
      /\ {1} \ {1} = {} /\ {2} \ {2} = {} /\ {1, 2} \ {2} = {1}
      /\ {1} # {} /\ {2} # {} /\ {2} # {1} /\ {1, 2} # {} /\ {1, 2} # {1}
      /\ {1, 2} # {2}
  BY MaxOne, MaxTwo
<1>2. \A t : /\ iter(t)[{}] = 0
             /\ 1 \in S => iter(t)[{1}] = t[{}] * 256 + ca_hextoi(s[1])
             /\ 2 \in S => /\ iter(t)[{2}] = t[{}] * 256 + ca_hextoi(s[2])
                           /\ iter(t)[{1, 2}] = t[{1}] * 256 + ca_hextoi(s[2])
  <2> TAKE t
  <2>1. iter(t)[{}] = 0
    OBVIOUS
  <2>2. 1 \in S => iter(t)[{1}] = F(t, 1, {1})
    BY <1>1
  <2>3. ASSUME 2 \in S
        PROVE iter(t)[{2}] = F(t, 2, {2}) /\ iter(t)[{1, 2}] = F(t, 2, {1, 2})
    <3>1. {2} \in SUBSET S /\ {1, 2} \in SUBSET S
      BY <2>3
    <3> HIDE DEF F
    <3> QED  BY <3>1, <1>1
  <2> QED  BY <2>1, <2>2, <2>3, <1>1
<1>3. /\ g[{}] = 0 /\ (1 \in S => g[{1}] = one(1))
      /\ 2 \in S => g[{2}] = one(2) /\ g[{1, 2}] = two
  <2> HIDE DEF one, two
  <2> QED  BY <1>1
<1>4. g = iter(g)
  <2>1. \A u \in SUBSET S : \/ u = {}
                            \/ u = {1} /\ 1 \in S
                            \/ u \in {{2}, {1, 2}} /\ 2 \in S
    <3> TAKE u \in SUBSET S
    <3>1. \A i \in u : i = 1 \/ i = 2
      OBVIOUS
    <3>2. \A i \in S : i = 2 => 1 \in S
      OBVIOUS
    <3>3. CASE 1 \in u /\ 2 \in u
      BY <3>1, <3>3
    <3>4. CASE 1 \in u /\ 2 \notin u
      BY <3>1, <3>4
    <3>5. CASE 1 \notin u /\ 2 \in u
      BY <3>1, <3>5
    <3>6. CASE 1 \notin u /\ 2 \notin u
      BY <3>1, <3>6
    <3> QED  BY <3>3, <3>4, <3>5, <3>6
  <2>2. ASSUME NEW u \in SUBSET S  PROVE g[u] = iter(g)[u]
    <3> HIDE DEF g, iter
    <3>1. CASE u = {}
      BY <3>1, <1>2, <1>3
    <3>2. CASE u = {1} /\ 1 \in S
      BY <3>2, <1>2, <1>3
    <3>3. CASE u = {2} /\ 2 \in S
      BY <3>3, <1>2, <1>3
    <3>4. CASE u = {1, 2} /\ 2 \in S
      <4>1. 1 \in S
        BY <3>4
      <4> QED  BY <4>1, <3>4, <1>2, <1>3
    <3> QED  BY <2>1, <3>1, <3>2, <3>3, <3>4
  <2>3. /\ g = [u \in SUBSET S |-> g[u]]
        /\ iter(g) = [u \in SUBSET S |-> iter(g)[u]]
    OBVIOUS
  <2> HIDE DEF g, iter
  <2> QED  BY <2>2, <2>3
<1>5. c = iter(c)
  <2> HIDE DEF iter, g
  <2> QED  BY <1>4
<1>6. Version(r) = c[S]
  BY DEF Version, FoldLeft, MapThenFoldSet
<1> HIDE DEF c, iter
<1> QED  BY <1>2, <1>5, <1>6

\* What is compared of a body, and how much of it when it is valid.
LEMMA ComparedOf ==
  ASSUME NEW D, NEW r \in Seq(D)
  PROVE  /\ Len(r) \in Nat /\ DOMAIN Compared(r) = 1..(Len(r) - 1)
         /\ \A i \in 1..(Len(r) - 1) : Compared(r)[i] = r[i]
         /\ Len(r) <= 3 => DOMAIN Compared(r) \in {{}, {1}, {1, 2}}
<1>1. Len(r) \in Nat
  BY LenProperties
<1>2. /\ DOMAIN Compared(r) = 1..(Len(r) - 1)
      /\ \A i \in 1..(Len(r) - 1) : Compared(r)[i] = r[i]
  <2>1. CASE Len(r) = 0
    <3>1. r = <<>>
      BY <2>1, EmptySeq
    <3> QED  BY <1>1, <2>1, <3>1 DEF Compared
  <2>2. CASE Len(r) # 0
    <3>1. 1..(Len(r) - 1) \subseteq 1..Len(r) /\ Len(r) - 1 \in 0..Len(r)
      BY <1>1, <2>2
    <3> QED  BY <1>1, <3>1, SubSeqProperties DEF Compared
  <2> QED  BY <2>1, <2>2
<1>3. Len(r) <= 3 => 1..(Len(r) - 1) \in {{}, {1}, {1, 2}}
  <2>1. \A n \in Nat : n <= 3 => n = 0 \/ n = 1 \/ n = 2 \/ n = 3
    OBVIOUS
  <2>2. 1..(0 - 1) = {} /\ 1..(1 - 1) = {} /\ 1..(2 - 1) = {1}
        /\ 1..(3 - 1) = {1, 2}
    OBVIOUS
  <2> QED  BY <1>1, <2>1, <2>2
<1> QED  BY <1>1, <1>2, <1>3

\* Whatever a server sends: a body that is not refused has a version of two
\* bytes at most, so that the int in which ca_need_update adds up the
\* components cannot overflow (ca_update.c:181-218).
THEOREM VersionFits ==
  ASSUME NEW D, NEW r \in Seq(D), ~Invalid(r)
  PROVE  Version(r) \in 0..(256 * 256 - 1)
<1>1. /\ Len(r) \in Nat /\ DOMAIN Compared(r) = 1..(Len(r) - 1)
      /\ \A i \in 1..(Len(r) - 1) : Compared(r)[i] = r[i]
      /\ Len(r) <= 3 => DOMAIN Compared(r) \in {{}, {1}, {1, 2}}
  BY ComparedOf
<1>2. /\ DOMAIN Compared(r) \in {{}, {1}, {1, 2}}
      /\ \A i \in DOMAIN Compared(r) : ca_hextoi(Compared(r)[i]) \in 0..255
  <2>1. Len(r) <= 3 /\ \A i \in DOMAIN Compared(r) : ca_hextoi(r[i]) \in 0..255
    BY <1>1 DEF Invalid
  <2> QED  BY <1>1, <2>1
<1>3. CASE DOMAIN Compared(r) = {}
  <2>1. Version(r) = 0
    BY <1>3, VersionIs
  <2> QED  BY <2>1
<1>4. CASE DOMAIN Compared(r) = {1}
  <2>1. PICK a \in 0..255 : a = ca_hextoi(Compared(r)[1])
    BY <1>2, <1>4
  <2>2. Version(r) = 0 * 256 + a
    BY <1>4, <2>1, VersionIs
  <2> QED  BY <2>2
<1>5. CASE DOMAIN Compared(r) = {1, 2}
  <2>1. PICK a \in 0..255 : a = ca_hextoi(Compared(r)[1])
    BY <1>2, <1>5
  <2>2. PICK b \in 0..255 : b = ca_hextoi(Compared(r)[2])
    BY <1>2, <1>5
  <2>3. Version(r) = (0 * 256 + a) * 256 + b
    BY <1>5, <2>1, <2>2, VersionIs
  <2>4. 0 * 256 + a = a
    OBVIOUS
  <2>5. a * 256 + b \in 0..(256 * 256 - 1)
    <3>1. a \in Int /\ b \in Int /\ 0 <= a /\ a <= 255 /\ 0 <= b /\ b <= 255
      OBVIOUS
    <3>2. 256 * 256 - 1 = 255 * 256 + 255
      OBVIOUS
    <3>3. 0 <= a * 256 /\ a * 256 <= 255 * 256 /\ a * 256 \in Int
      BY <3>1
    <3> QED  BY <3>1, <3>2, <3>3
  <2> QED  BY <2>3, <2>4, <2>5
<1>6. \/ DOMAIN Compared(r) = {}
      \/ DOMAIN Compared(r) = {1}
      \/ DOMAIN Compared(r) = {1, 2}
  BY <1>2
<1> QED  BY <1>3, <1>4, <1>5, <1>6

\* CA_VERSION, 0.0.1 (clagent.h:25).
Released == <<<<0>>, <<0>>, <<1>>>>

\* The first two parts of the version are zero, which is never newer.
LEMMA OwnVersionIsNone ==
  CaVersion = Released => ~NeedUpdate(CaVersion)
<1> HAVE CaVersion = Released
<1> USE DEF Released
<1> DEFINE s == <<<<0>>, <<0>>>>
<1>1. Compared(CaVersion) = s
  <2>1. CaVersion \in Seq(Seq({0, 1})) /\ Len(CaVersion) = 3
    OBVIOUS
  <2>2. /\ DOMAIN Compared(CaVersion) = 1..2
        /\ \A i \in 1..2 : Compared(CaVersion)[i] = CaVersion[i]
    <3>1. 3 - 1 = 2
      OBVIOUS
    <3> QED  BY <2>1, <3>1, ComparedOf
  <2>3. Compared(CaVersion) \in Seq(Seq({0, 1}))
    BY <2>1, SubSeqProperties DEF Compared
  <2> QED  BY <2>2, <2>3
<1>2. Wrap(0 * 16 + 0) = 0
  <2>1. 0 % WordSize = 0
    BY BoundsAssumption
  <2> QED  BY <2>1, BoundsAssumption DEF Wrap
<1>3. ca_hextoi(<<0>>) \in {0, CaError}
  BY <1>2, OneDigit DEF ca_hextoi
<1>4. Version(CaVersion) = (0 * 256 + ca_hextoi(<<0>>)) * 256 + ca_hextoi(<<0>>)
  BY <1>1, VersionIs
<1>5. CASE ca_hextoi(<<0>>) = 0
  BY <1>4, <1>5 DEF NeedUpdate
<1>6. CASE ca_hextoi(<<0>>) = CaError
  <2>1. 1 \in DOMAIN Compared(CaVersion) /\ CaVersion[1] = <<0>>
    BY <1>1
  <2> QED  BY <1>6, <2>1 DEF NeedUpdate, Invalid, CaError
<1> QED  BY <1>3, <1>5, <1>6

\* With CA_VERSION as it is, a server that serves it starts no updater, whatever
\* it served before, whatever it takes for a hexadecimal digit, and whichever
\* signals come between the comparison and the fork (ca_update.c:105-109).
THEOREM OwnVersionRefused ==
  CaVersion = Released => (Spec => []NoSelfUpdate)
<1> HAVE CaVersion = Released
<1>1. SpawnIsNeeded => NoSelfUpdate
  BY OwnVersionIsNone DEF SpawnIsNeeded, NoSelfUpdate
<1> QED  BY <1>1, UpdateWasNeeded, PTL
-----------------------------------------------------------------------------
\* A stop that interrupts the wait for a running updater is passed on to it
\* before the process waits again, and is the last thing that happens in its
\* cycle: no other updater is started, no other body is fetched.
StopIsPassedOn ==
  heard => /\ pc \in {"eintr", "wait", "next", "gone"}
           /\ pc = "wait" /\ child = "running" => told

Heard == /\ heard => /\ Stopping
                     /\ pc \in {"eintr", "wait", "next", "gone"}
                     /\ child # "forked"
                     /\ child = "running" => told \/ pc = "eintr"
         /\ quit \in BOOLEAN /\ terminate \in BOOLEAN

LEMMA HeardStep == Heard /\ [Next]_vars => Heard'
<1> SUFFICES ASSUME Heard, [Next]_vars  PROVE Heard'
  OBVIOUS
<1> USE DEF Heard, Goto, Stopping
<1>1. CASE Interrupted
  BY <1>1 DEF Interrupted, PassOn
<1>2. CASE Signal
  <2>1. /\ pc' = pc \/ (pc = "wait" /\ pc' = "eintr") \/ (pc = "sleep" /\ pc' = "top")
        /\ heard' = (heard \/ (pc' = "eintr" /\ child = "running" /\ Stopping'))
        /\ child' = child /\ told' = told
    BY <1>2 DEF Signal, Handles
  <2>2. /\ quit' \in BOOLEAN /\ terminate' \in BOOLEAN
        /\ Stopping => Stopping'
    BY <1>2 DEF Signal, Handles
  <2>3. CASE heard
    BY <2>1, <2>2, <2>3
  <2>4. CASE ~heard
    BY <2>1, <2>2, <2>4
  <2> QED  BY <2>3, <2>4
<1>3. CASE Updater
  BY <1>3 DEF Updater, Exec, Dies
<1>4. CASE UNCHANGED vars
  BY <1>4 DEF vars
<1>5. CASE Begin \/ Top \/ Fetch \/ Compare
  BY <1>5 DEF Begin, Top, Fetch, Compare
<1>6. CASE Spawn \/ SpawnFails
  BY <1>6 DEF Spawn, SpawnFails
<1>7. CASE WaitReturns \/ NextCheck \/ SleepEnds
  BY <1>7 DEF WaitReturns, NextCheck, SleepEnds
<1> QED
  BY <1>1, <1>2, <1>3, <1>4, <1>5, <1>6, <1>7 DEF Next, Cycle

\* The part of StopEnds that is safety: a SIGTERM is not lost between an
\* interrupted wait and the next one, however the updater's exec and death and
\* other signals come between (ca_update.c:111-129).
THEOREM StopsArePassedOn == Spec => []StopIsPassedOn
<1>1. Init => Heard
  BY DEF Init, Heard, Stopping
<1>2. Heard => StopIsPassedOn
  BY DEF Heard, StopIsPassedOn
<1> QED  BY <1>1, <1>2, HeardStep, PTL DEF Spec
=============================================================================
