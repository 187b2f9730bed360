-------------------------- MODULE AcqProcess_proofs --------------------------
(***************************************************************************)
(* Theorems about AcqProcess, for every number of nodes and samples, every *)
(* max_nfree and every choice of the threads that receive signals.         *)
(***************************************************************************)
EXTENDS AcqProcess, SequenceTheorems, TLAPS

-----------------------------------------------------------------------------
(***************************************************************************)
(* Sequences without repetitions: what the queue operations of the code do *)
(* to the set of their elements.                                           *)
(***************************************************************************)

\* The elements of a sequence are the values at its positions.
LEMMA InRange ==
  ASSUME NEW S, NEW q \in Seq(S)
  PROVE  /\ Range(q) = {q[i] : i \in 1..Len(q)}
         /\ Range(q) \subseteq S
  BY DEF Range

\* The empty queue.
LEMMA EmptyQueue ==
  /\ Range(<<>>) = {} /\ Len(<<>>) = 0 /\ NoRepeats(<<>>)
  /\ \A S : <<>> \in Seq(S)
  BY EmptySeq DEF Range, NoRepeats

\* STAILQ_INSERT_TAIL adds one element, and no repetition if it was not there.
LEMMA AppendFacts ==
  ASSUME NEW S, NEW q \in Seq(S), NEW e \in S
  PROVE  /\ Append(q, e) \in Seq(S)
         /\ Len(Append(q, e)) = Len(q) + 1
         /\ Range(Append(q, e)) = Range(q) \cup {e}
         /\ NoRepeats(q) /\ e \notin Range(q) => NoRepeats(Append(q, e))
<1> DEFINE r == Append(q, e)
<1>1. /\ r \in Seq(S)
      /\ Len(r) = Len(q) + 1
      /\ \A i \in 1..Len(q) : r[i] = q[i]
      /\ r[Len(q) + 1] = e
  OBVIOUS
<1>2. Range(r) = {r[i] : i \in 1..Len(r)} /\ Range(q) = {q[i] : i \in 1..Len(q)}
  BY <1>1, InRange
<1>3. Range(r) = Range(q) \cup {e}
  <2> HIDE DEF r
  <2>1. Range(r) \subseteq Range(q) \cup {e}
    BY <1>1, <1>2
  <2>2. Range(q) \subseteq Range(r) /\ e \in Range(r)
    BY <1>1, <1>2
  <2>3. QED BY <2>1, <2>2
<1>4. ASSUME NoRepeats(q), e \notin Range(q) PROVE NoRepeats(r)
  <2> HIDE DEF r
  <2>1. QED BY <1>1, <1>2, <1>4 DEF NoRepeats
<1>5. QED BY <1>1, <1>3, <1>4

\* STAILQ_INSERT_HEAD, likewise.
LEMMA ConsFacts ==
  ASSUME NEW S, NEW q \in Seq(S), NEW e \in S
  PROVE  /\ <<e>> \o q \in Seq(S)
         /\ Len(<<e>> \o q) = Len(q) + 1
         /\ Range(<<e>> \o q) = Range(q) \cup {e}
         /\ NoRepeats(q) /\ e \notin Range(q) => NoRepeats(<<e>> \o q)
<1> DEFINE r == <<e>> \o q
<1>1. /\ r \in Seq(S)
      /\ Len(r) = Len(q) + 1
      /\ r[1] = e
      /\ \A i \in 2..Len(r) : r[i] = q[i - 1]
  <2>1. <<e>> \in Seq(S) /\ Len(<<e>>) = 1 /\ <<e>>[1] = e
    OBVIOUS
  <2>2. QED BY <2>1, ConcatProperties
<1>2. Range(r) = {r[i] : i \in 1..Len(r)} /\ Range(q) = {q[i] : i \in 1..Len(q)}
  BY <1>1, InRange
<1>3. Range(r) = Range(q) \cup {e}
  <2> HIDE DEF r
  <2>1. Range(r) \subseteq Range(q) \cup {e}
    <3> SUFFICES ASSUME NEW i \in 1..Len(r) PROVE r[i] \in Range(q) \cup {e}
      BY <1>2
    <3>1. CASE i = 1 BY <3>1, <1>1
    <3>2. CASE i # 1
      <4>1. i - 1 \in 1..Len(q) /\ r[i] = q[i - 1] BY <3>2, <1>1
      <4>2. QED BY <4>1, <1>2
    <3>3. QED BY <3>1, <3>2
  <2>2. Range(q) \subseteq Range(r)
    <3> SUFFICES ASSUME NEW i \in 1..Len(q) PROVE q[i] \in Range(r)
      BY <1>2
    <3>1. i + 1 \in 2..Len(r) /\ r[i + 1] = q[i] BY <1>1
    <3>2. QED BY <3>1, <1>2
  <2>3. e \in Range(r)
    <3>1. 1 \in 1..Len(r) BY <1>1
    <3>2. QED BY <3>1, <1>1, <1>2
  <2>4. QED BY <2>1, <2>2, <2>3
<1>4. ASSUME NoRepeats(q), e \notin Range(q) PROVE NoRepeats(r)
  <2> HIDE DEF r
  <2> SUFFICES ASSUME NEW i \in 1..Len(r), NEW j \in 1..Len(r), r[i] = r[j]
               PROVE  i = j
    BY DEF NoRepeats
  <2>1. \A k \in 2..Len(r) : /\ k - 1 \in 1..Len(q)
                             /\ r[k] = q[k - 1]
                             /\ r[k] # e
    BY <1>1, <1>2, <1>4
  <2>2. CASE i = 1 BY <2>1, <2>2, <1>1
  <2>3. CASE j = 1 BY <2>1, <2>3, <1>1
  <2>4. CASE i # 1 /\ j # 1
    <3>1. i - 1 \in 1..Len(q) /\ j - 1 \in 1..Len(q) /\ q[i - 1] = q[j - 1]
      BY <2>1, <2>4, <1>1
    <3>2. i - 1 = j - 1 BY <3>1, <1>4 DEF NoRepeats
    <3>3. QED BY <3>2
  <2>5. QED BY <2>2, <2>3, <2>4
<1>5. QED BY <1>1, <1>3, <1>4

\* STAILQ_REMOVE_HEAD takes the first element away, and only that.
LEMMA TailFacts ==
  ASSUME NEW S, NEW q \in Seq(S), q # <<>>, NoRepeats(q)
  PROVE  /\ Head(q) \in S /\ Head(q) \in Range(q) /\ Head(q) = q[1]
         /\ Tail(q) \in Seq(S)
         /\ Len(q) \in Nat \ {0} /\ Len(Tail(q)) = Len(q) - 1
         /\ \A i \in 1..Len(Tail(q)) : Tail(q)[i] = q[i + 1]
         /\ Range(Tail(q)) = Range(q) \ {Head(q)}
         /\ NoRepeats(Tail(q))
<1> DEFINE r == Tail(q)
<1>1. /\ r \in Seq(S)
      /\ Len(q) \in Nat \ {0}
      /\ Len(r) = Len(q) - 1
      /\ \A i \in 1..Len(r) : r[i] = q[i + 1]
      /\ Head(q) = q[1] /\ Head(q) \in S
  BY HeadTailProperties, EmptySeq
<1>2. Range(r) = {r[i] : i \in 1..Len(r)} /\ Range(q) = {q[i] : i \in 1..Len(q)}
  BY <1>1, InRange
<1>3. Head(q) \in Range(q)
  BY <1>1, <1>2
<1>4. Range(r) = Range(q) \ {Head(q)}
  <2> HIDE DEF r
  <2>1. Range(r) \subseteq Range(q) \ {Head(q)}
    <3> SUFFICES ASSUME NEW i \in 1..Len(r)
                 PROVE  r[i] \in Range(q) /\ r[i] # Head(q)
      BY <1>2
    <3>1. i + 1 \in 1..Len(q) /\ i + 1 # 1 /\ 1 \in 1..Len(q) /\ r[i] = q[i + 1]
      BY <1>1
    <3>2. QED BY <3>1, <1>1, <1>2 DEF NoRepeats
  <2>2. Range(q) \ {Head(q)} \subseteq Range(r)
    <3> SUFFICES ASSUME NEW i \in 1..Len(q), q[i] # Head(q)
                 PROVE  q[i] \in Range(r)
      BY <1>2
    <3>1. i - 1 \in 1..Len(r) /\ r[i - 1] = q[i] BY <1>1
    <3>2. QED BY <3>1, <1>2
  <2>3. QED BY <2>1, <2>2
<1>5. NoRepeats(r)
  <2> HIDE DEF r
  <2> SUFFICES ASSUME NEW i \in 1..Len(r), NEW j \in 1..Len(r), r[i] = r[j]
               PROVE  i = j
    BY DEF NoRepeats
  <2>1. /\ i + 1 \in 1..Len(q) /\ j + 1 \in 1..Len(q)
        /\ q[i + 1] = q[j + 1]
    BY <1>1
  <2>2. i + 1 = j + 1 BY <2>1 DEF NoRepeats
  <2>3. QED BY <2>2
<1>6. QED BY <1>1, <1>3, <1>4, <1>5
-----------------------------------------------------------------------------
(***************************************************************************)
(* The inductive invariant.  NodesConserved is not inductive by itself: it *)
(* also takes where the threads stand while they hold a node, what main    *)
(* has not started yet and whom it has joined.                             *)
(***************************************************************************)
Holding == {"submit", "spin", "release", "put"}

ThreadsPlaced ==
  /\ apc = "insert" <=> anode # NULL
  /\ spc \in Holding <=> snode # NULL
  /\ apc \in {"get", "insert"} => ajson # None
  /\ apc \in {"none", "start", "first_check", "check", "check2", "sleep",
              "over_unset", "done"} => ajson = None
  /\ apc = "insert" => json[anode] = ajson
  /\ mpc \in {"init", "unmask", "create_submit"} => spc = "none"
  /\ mpc \in {"init", "unmask", "create_submit", "create_acq"} => apc = "none"
  /\ mpc \in {"init", "exit"} =>
       freeq = <<>> /\ nfree = 0 /\ taskq = <<>> /\ ntask = 0
  /\ mpc \in {"join_acq", "deinit", "exit"} => spc = "done"
  /\ mpc \in {"deinit", "exit"} => apc = "done"
  /\ proc = "exited" <=> mpc = "exit"

Inv == TypeOK /\ NodesConserved /\ ThreadsPlaced

\* The invariant holds when the process starts.
LEMMA InvInit == Init => Inv
<1> SUFFICES ASSUME Init PROVE Inv
  OBVIOUS
<1> USE NodesAssumption, BoundsAssumption DEF Init
<1>1. TypeOK
  <2>1. json \in [Nodes -> Samples \cup {None}]
    BY DEF None
  <2>2. freeq \in Seq(Nodes) /\ taskq \in Seq(Nodes)
    BY EmptyQueue
  <2>3. /\ proc \in {"running", "exited", "crashed"}
        /\ mpc \in MainPCs /\ apc \in AcqPCs /\ spc \in SubPCs
    BY DEF MainPCs, AcqPCs, SubPCs
  <2>4. quit \in BOOLEAN /\ term \in BOOLEAN
    OBVIOUS
  <2>5. /\ pending \subseteq Signals /\ nsignals \in 0..MaxSignals
        /\ nfree \in Nat /\ ntask \in Nat
        /\ heap \subseteq Nodes /\ live \subseteq Samples
        /\ made \in 0..MaxSamples /\ last \in Samples \cup {0}
    OBVIOUS
  <2>6. /\ ajson \in Samples \cup {None}
        /\ anode \in Nodes \cup {NULL} /\ snode \in Nodes \cup {NULL}
    OBVIOUS
  <2>7. QED BY <2>1, <2>2, <2>3, <2>4, <2>5, <2>6 DEF TypeOK
<1>2. NodesConserved
  BY EmptyQueue DEF NodesConserved
<1>3. ThreadsPlaced
  BY DEF ThreadsPlaced, Holding, None
<1>4. QED BY <1>1, <1>2, <1>3 DEF Inv

\* Steps that touch neither queues, nodes nor JSON objects.
Quiet == UNCHANGED <<queues, memory, locals>>

\* Such a step keeps the nodes where they are.
LEMMA QuietKeepsNodes == NodesConserved /\ Quiet => NodesConserved'
  BY DEF NodesConserved, NoRepeats, Quiet, queues, memory, locals

\* The steps of the main thread but the teardown keep the invariant.
LEMMA MainStep ==
  ASSUME Inv, Main
  PROVE  Inv'
<1> USE DEF Inv, MainGoto, MainMoves, Running, queues, memory, locals, signals
<1>1. ASSUME MainInit PROVE Inv'
  <2>1. UNCHANGED <<freeq, nfree, taskq, ntask>>
    BY <1>1 DEF MainInit, DataInit, ThreadsPlaced
  <2>2. NodesConserved'
    BY <1>1, <2>1, QuietKeepsNodes DEF MainInit, Quiet
  <2>3. TypeOK' /\ ThreadsPlaced'
    BY <1>1, <2>1 DEF MainInit, TypeOK, MainPCs, ThreadsPlaced
  <2>4. QED BY <2>2, <2>3
<1>2. ASSUME \/ MainUnmask \/ MainCreateSubmit \/ MainCreateAcq \/ MainCheck
             \/ MainSuspend \/ MainKillSubmit \/ MainKillAcq
             \/ MainJoinSubmit \/ MainJoinAcq
      PROVE  Inv'
  <2> USE DEF MainUnmask, MainCreateSubmit, MainCreateAcq, MainCheck,
              MainSuspend, MainKillSubmit, MainKillAcq,
              MainJoinSubmit, MainJoinAcq
  <2>1. Quiet
    BY <1>2 DEF Quiet
  <2>2. NodesConserved'
    BY <2>1, QuietKeepsNodes
  <2>3. TypeOK'
    BY <1>2 DEF TypeOK, MainPCs, AcqPCs, SubPCs
  <2>4. ThreadsPlaced'
    BY <1>2 DEF ThreadsPlaced, Holding
  <2>5. QED BY <2>2, <2>3, <2>4
<1>3. ASSUME MainDeinit PROVE Inv'
  <2> USE <1>3 DEF MainDeinit, DataDeinit
  <2>1. anode = NULL /\ snode = NULL
    BY DEF ThreadsPlaced, Holding
  <2>2. heap' = {}
    BY <2>1 DEF NodesConserved
  <2>3. nfree' = 0 /\ ntask' = 0
    BY EmptySeq DEF NodesConserved, TypeOK
  <2>4. NodesConserved'
    BY <2>1, <2>2, <2>3, EmptyQueue DEF NodesConserved
  <2>5. TypeOK'
    BY <2>2, <2>3 DEF TypeOK, MainPCs
  <2>6. ThreadsPlaced'
    BY <2>3 DEF ThreadsPlaced
  <2>7. QED BY <2>4, <2>5, <2>6
<1>4. QED BY <1>1, <1>2, <1>3 DEF Main

\* What ca_acq_data_get hands out belongs to nobody any more.
LEMMA DataGetStep ==
  ASSUME NEW n \in Nodes, TypeOK, NodesConserved, DataGet(n), anode = NULL,
         UNCHANGED <<taskq, ntask, snode>>, anode' = n
  PROVE  /\ NodesConserved'
         /\ n \notin Range(taskq) /\ n # snode
         /\ freeq' \in Seq(Nodes) /\ nfree' \in Nat /\ heap' \subseteq Nodes
<1> USE NodesAssumption DEF TypeOK
<1>1. CASE /\ freeq # <<>> /\ n = Head(freeq)
           /\ nfree' = nfree - 1 /\ freeq' = Tail(freeq) /\ UNCHANGED heap
  <2>1. /\ n \in Range(freeq)
        /\ Tail(freeq) \in Seq(Nodes)
        /\ Len(freeq) \in Nat \ {0} /\ Len(Tail(freeq)) = Len(freeq) - 1
        /\ Range(Tail(freeq)) = Range(freeq) \ {n}
        /\ NoRepeats(Tail(freeq))
    BY <1>1, TailFacts DEF NodesConserved
  <2>2. n \notin Range(taskq) /\ n # snode
    BY <2>1 DEF NodesConserved
  <2>3. heap' = Range(freeq)' \cup Range(taskq)' \cup ({anode, snode}' \ {NULL})
    BY <1>1, <2>1 DEF NodesConserved
  <2>4. NodesConserved'
    BY <1>1, <2>1, <2>2, <2>3 DEF NodesConserved
  <2>5. QED BY <1>1, <2>1, <2>2, <2>4 DEF NodesConserved
<1>2. CASE /\ freeq = <<>> /\ n \in Nodes \ heap
           /\ heap' = heap \cup {n} /\ UNCHANGED <<freeq, nfree>>
  <2>1. n \notin Range(taskq) /\ n \notin Range(freeq) /\ n # snode
    BY <1>2 DEF NodesConserved
  <2>2. NodesConserved'
    BY <1>2, <2>1 DEF NodesConserved, NoRepeats
  <2>3. QED BY <1>2, <2>1, <2>2
<1>3. QED BY <1>1, <1>2 DEF DataGet

\* What ca_acq_data_put takes back is either reusable or freed.
LEMMA DataPutStep ==
  ASSUME NEW n \in Nodes, TypeOK, NodesConserved, DataPut(n), snode = n,
         UNCHANGED <<taskq, ntask, anode>>, snode' = NULL
  PROVE  /\ NodesConserved'
         /\ freeq' \in Seq(Nodes) /\ nfree' \in Nat /\ heap' \subseteq Nodes
<1> USE NodesAssumption DEF TypeOK
<1>0. n \notin Range(freeq) /\ n \notin Range(taskq) /\ n # anode
  BY DEF NodesConserved
<1>1. CASE heap' = heap \ {n} /\ UNCHANGED <<freeq, nfree>>
  <2>1. heap' = Range(freeq)' \cup Range(taskq)' \cup ({anode, snode}' \ {NULL})
    BY <1>0, <1>1, InRange DEF NodesConserved
  <2>2. QED BY <1>0, <1>1, <2>1 DEF NodesConserved, NoRepeats
<1>2. CASE nfree' = nfree + 1 /\ freeq' = <<n>> \o freeq /\ UNCHANGED heap
  <2>1. /\ freeq' \in Seq(Nodes)
        /\ Len(freeq') = Len(freeq) + 1
        /\ Range(freeq') = Range(freeq) \cup {n}
        /\ NoRepeats(freeq')
    BY <1>0, <1>2, ConsFacts DEF NodesConserved
  <2>2. heap' = Range(freeq)' \cup Range(taskq)' \cup ({anode, snode}' \ {NULL})
    BY <1>0, <1>2, <2>1 DEF NodesConserved
  <2>3. NodesConserved'
    BY <1>0, <1>2, <2>1, <2>2 DEF NodesConserved, NoRepeats
  <2>4. QED BY <1>2, <2>1, <2>3
<1>3. QED BY <1>1, <1>2 DEF DataPut, PoolFull

\* The steps of the acq thread keep the invariant.
LEMMA AcqStep ==
  ASSUME Inv, Acq
  PROVE  Inv'
<1> USE NodesAssumption
        DEF Inv, AcqGoto, AcqMoves, Running, queues, memory, locals, signals
<1>1. ASSUME \/ AcqStart \/ AcqFirstCheck \/ AcqCheck \/ AcqNothingDue
             \/ AcqGrowCheck \/ AcqCheck2 \/ AcqWake
      PROVE  Inv'
  <2> USE DEF AcqStart, AcqFirstCheck, AcqCheck, AcqNothingDue,
              AcqGrowCheck, AcqCheck2, AcqWake
  <2>1. Quiet
    BY <1>1 DEF Quiet
  <2>2. NodesConserved'
    BY <2>1, QuietKeepsNodes
  <2>3. TypeOK'
    BY <1>1 DEF TypeOK, AcqPCs
  <2>4. ThreadsPlaced'
    BY <1>1 DEF ThreadsPlaced
  <2>5. QED BY <2>2, <2>3, <2>4
<1>2. ASSUME AcqBuild \/ AcqGrowFails \/ AcqOver PROVE Inv'
  <2> USE DEF AcqBuild, AcqGrowFails, AcqOver
  <2>1. NodesConserved'
    BY <1>2 DEF NodesConserved, NoRepeats
  <2>2. /\ live' \subseteq Samples /\ made' \in 0..MaxSamples
        /\ ajson' \in Samples \cup {None}
    <3>1. CASE AcqOver
      BY <3>1 DEF TypeOK
    <3>2. CASE UNCHANGED <<made, live, ajson>>
      BY <3>2 DEF TypeOK
    <3>3. ASSUME NEW s \in Samples, Begin(s), ajson' = s
          PROVE  /\ live' \subseteq Samples /\ made' \in 0..MaxSamples
                 /\ ajson' \in Samples \cup {None}
      <4>1. /\ live \subseteq Samples /\ made \in 0..MaxSamples
            /\ s \in 0..MaxSamples
        BY DEF TypeOK, Samples
      <4>2. CASE UNCHANGED <<made, live>>
        BY <3>3, <4>1, <4>2
      <4>3. CASE made' = s /\ live' = live \cup {s}
        BY <3>3, <4>1, <4>3
      <4>4. QED BY <3>3, <4>2, <4>3 DEF Begin
    <3>4. QED BY <1>2, <3>1, <3>2, <3>3
  <2>3. TypeOK'
    BY <1>2, <2>2 DEF TypeOK, AcqPCs
  <2>4. apc' = "get" => ajson' # None
    BY <1>2 DEF Samples, None
  <2>5. ThreadsPlaced'
    BY <1>2, <2>4 DEF ThreadsPlaced
  <2>6. QED BY <2>1, <2>3, <2>5
<1>3. ASSUME AcqGet PROVE Inv'
  <2> USE <1>3 DEF AcqGet
  <2>1. anode = NULL
    BY DEF ThreadsPlaced
  <2>2. PICK n \in Nodes : /\ DataGet(n)
                           /\ anode' = n
                           /\ json' = [json EXCEPT ![n] = ajson]
    OBVIOUS
  <2>3. /\ NodesConserved'
        /\ freeq' \in Seq(Nodes) /\ nfree' \in Nat /\ heap' \subseteq Nodes
    BY <2>1, <2>2, DataGetStep
  <2>4. TypeOK'
    BY <2>2, <2>3 DEF TypeOK, AcqPCs
  <2>5. ThreadsPlaced'
    BY <2>2 DEF ThreadsPlaced, TypeOK
  <2>6. QED BY <2>3, <2>4, <2>5
<1>4. ASSUME AcqInsert PROVE Inv'
  <2> USE <1>4 DEF AcqInsert, TaskInsert
  <2>1. anode \in Nodes
    BY DEF ThreadsPlaced, TypeOK
  <2>2. anode \notin Range(taskq)
    BY DEF NodesConserved
  <2>3. /\ taskq' \in Seq(Nodes)
        /\ Len(taskq') = Len(taskq) + 1
        /\ Range(taskq') = Range(taskq) \cup {anode}
        /\ NoRepeats(taskq')
    BY <2>1, <2>2, AppendFacts DEF NodesConserved, TypeOK
  <2>4. heap' = Range(freeq)' \cup Range(taskq)' \cup ({anode, snode}' \ {NULL})
    <3>1. heap = Range(freeq) \cup Range(taskq) \cup ({anode, snode} \ {NULL})
      BY DEF NodesConserved
    <3>2. Range(freeq)' = Range(freeq) /\ heap' = heap
      OBVIOUS
    <3>3. {anode, snode}' \ {NULL} = {snode} \ {NULL}
      OBVIOUS
    <3>4. {anode, snode} \ {NULL} = {anode} \cup ({snode} \ {NULL})
      BY <2>1
    <3>5. QED BY <2>3, <3>1, <3>2, <3>3, <3>4
  <2>5. {anode, snode}' \cap (Range(freeq)' \cup Range(taskq)') = {}
    <3>1. NULL \notin Range(freeq)' /\ NULL \notin Range(taskq)'
      BY <2>3, InRange DEF TypeOK
    <3>2. snode \notin Range(freeq)' /\ snode \notin Range(taskq)'
      BY <2>1, <2>3 DEF NodesConserved
    <3>3. QED BY <3>1, <3>2
  <2>6. NodesConserved'
    BY <2>1, <2>2, <2>3, <2>4, <2>5 DEF NodesConserved, NoRepeats
  <2>7. TypeOK'
    BY <2>3 DEF TypeOK, AcqPCs
  <2>8. ThreadsPlaced'
    BY DEF ThreadsPlaced
  <2>9. QED BY <2>6, <2>7, <2>8
<1>5. ASSUME AcqGetFails PROVE Inv'
  <2> USE <1>5 DEF AcqGetFails, Crash, control
  <2>1. NodesConserved'
    BY QuietKeepsNodes DEF Quiet
  <2>2. TypeOK'
    BY DEF TypeOK
  <2>3. ThreadsPlaced'
    BY DEF ThreadsPlaced
  <2>4. QED BY <2>1, <2>2, <2>3
<1>6. ASSUME AcqOverUnset PROVE Inv'
  <2> USE <1>6 DEF AcqOverUnset, Crash, control
  <2>1. NodesConserved'
    BY QuietKeepsNodes DEF Quiet
  <2>2. TypeOK'
    BY DEF TypeOK, AcqPCs
  <2>3. ThreadsPlaced'
    BY DEF ThreadsPlaced
  <2>4. QED BY <2>1, <2>2, <2>3
<1>7. QED BY <1>1, <1>2, <1>3, <1>4, <1>5, <1>6 DEF Acq

\* The steps of the submit thread keep the invariant.
LEMMA SubmitStep ==
  ASSUME Inv, Submit
  PROVE  Inv'
<1> USE NodesAssumption
        DEF Inv, SubGoto, SubMoves, Running, queues, memory, locals, signals
<1>1. ASSUME \/ SubCheck \/ SubGetEmpty \/ SubEmpty \/ SubWake \/ SubSubmit
      PROVE  Inv'
  <2> USE DEF SubCheck, SubGetEmpty, SubEmpty, SubWake, SubSubmit
  <2>1. Quiet
    BY <1>1 DEF Quiet
  <2>2. NodesConserved'
    BY <2>1, QuietKeepsNodes
  <2>3. TypeOK'
    BY <1>1 DEF TypeOK, SubPCs
  <2>4. ThreadsPlaced'
    BY <1>1 DEF ThreadsPlaced, Holding
  <2>5. QED BY <2>2, <2>3, <2>4
<1>2. ASSUME SubGet PROVE Inv'
  <2> USE <1>2 DEF SubGet, TaskGet
  <2>1. snode = NULL
    BY DEF ThreadsPlaced, Holding
  <2>2. PICK n \in Nodes : TaskGet(n) /\ snode' = n /\ last' = json[n]
    OBVIOUS
  <2>3. /\ n \in Range(taskq)
        /\ Tail(taskq) \in Seq(Nodes)
        /\ Len(taskq) \in Nat \ {0} /\ Len(Tail(taskq)) = Len(taskq) - 1
        /\ Range(Tail(taskq)) = Range(taskq) \ {n}
        /\ NoRepeats(Tail(taskq))
    BY <2>2, TailFacts DEF NodesConserved, TypeOK
  <2>4. taskq' = Tail(taskq) /\ ntask' = ntask - 1
    BY <2>2
  <2>5. n \notin Range(freeq) /\ n # anode
    BY <2>3 DEF NodesConserved
  <2>6. heap' = Range(freeq)' \cup Range(taskq)' \cup ({anode, snode}' \ {NULL})
    BY <2>1, <2>2, <2>3, <2>4 DEF NodesConserved
  <2>7. NodesConserved'
    BY <2>1, <2>2, <2>3, <2>4, <2>5, <2>6 DEF NodesConserved, NoRepeats
  <2>8. TypeOK'
    BY <2>2, <2>3, <2>4 DEF TypeOK, SubPCs, NodesConserved, None
  <2>9. ThreadsPlaced'
    BY <2>2 DEF ThreadsPlaced, Holding
  <2>10. QED BY <2>7, <2>8, <2>9
<1>3. ASSUME SubRelease PROVE Inv'
  <2> USE <1>3 DEF SubRelease
  <2>1. NodesConserved'
    BY DEF NodesConserved, NoRepeats
  <2>2. TypeOK'
    BY DEF TypeOK, SubPCs
  <2>3. ThreadsPlaced'
    BY DEF ThreadsPlaced, Holding
  <2>4. QED BY <2>1, <2>2, <2>3
<1>4. ASSUME SubPut PROVE Inv'
  <2> USE <1>4 DEF SubPut
  <2>1. snode \in Nodes
    BY DEF ThreadsPlaced, Holding, TypeOK
  <2>2. /\ NodesConserved'
        /\ freeq' \in Seq(Nodes) /\ nfree' \in Nat /\ heap' \subseteq Nodes
    BY <2>1, DataPutStep
  <2>3. TypeOK'
    BY <2>2 DEF TypeOK, SubPCs
  <2>4. ThreadsPlaced'
    BY DEF ThreadsPlaced, Holding
  <2>5. QED BY <2>2, <2>3, <2>4
<1>5. QED BY <1>1, <1>2, <1>3, <1>4 DEF Submit

\* Sending and handling signals keeps the invariant.
LEMMA SignalStep ==
  ASSUME Inv,
         \/ \E sig \in Signals : Send(sig)
         \/ \E t \in Receivers : Deliver(t)
  PROVE  Inv'
<1> USE DEF Inv, Running, queues, memory, locals, control
<1>1. ASSUME NEW sig \in Signals, Send(sig) PROVE Inv'
  <2> USE <1>1 DEF Send
  <2>1. NodesConserved'
    BY QuietKeepsNodes DEF Quiet
  <2>2. TypeOK'
    BY BoundsAssumption DEF TypeOK
  <2>3. ThreadsPlaced'
    BY DEF ThreadsPlaced
  <2>4. QED BY <2>1, <2>2, <2>3
<1>2. ASSUME NEW t \in Receivers, Deliver(t) PROVE Inv'
  <2> USE <1>2 DEF Deliver, Handle
  <2>1. NodesConserved'
    BY QuietKeepsNodes DEF Quiet
  <2>2. quit' \in BOOLEAN /\ term' \in BOOLEAN
    BY DEF TypeOK
  <2>3. TypeOK'
    BY <2>2 DEF TypeOK, MainPCs
  <2>4. ThreadsPlaced'
    BY DEF ThreadsPlaced
  <2>5. QED BY <2>1, <2>3, <2>4
<1>3. QED BY <1>1, <1>2

\* Every step of the process keeps the invariant.
LEMMA InvStep == Inv /\ [Next]_vars => Inv'
<1> SUFFICES ASSUME Inv, [Next]_vars PROVE Inv'
  OBVIOUS
<1>1. CASE Main     BY <1>1, MainStep
<1>2. CASE Acq      BY <1>2, AcqStep
<1>3. CASE Submit   BY <1>3, SubmitStep
<1>4. CASE \/ \E sig \in Signals : Send(sig)
           \/ \E t \in Receivers : Deliver(t)
  BY <1>4, SignalStep
<1>5. CASE UNCHANGED vars
  BY <1>5 DEF Inv, TypeOK, NodesConserved, NoRepeats, ThreadsPlaced,
              vars, control, signals, queues, memory, locals
<1>6. QED BY <1>1, <1>2, <1>3, <1>4, <1>5 DEF Next

\* The inductive invariant holds throughout.
THEOREM Invariant == Spec => []Inv
<1>1. Init => Inv
  BY InvInit
<1>2. Inv /\ [Next]_vars => Inv'
  BY InvStep
<1>3. QED BY <1>1, <1>2, PTL DEF Spec

\* Types: in particular the unsigned counters nfree and ntask never wrap.
THEOREM TypeCorrect == Spec => []TypeOK
<1>1. Inv => TypeOK
  BY DEF Inv
<1>2. QED BY <1>1, Invariant, PTL

\* No node is ever leaked, in two lists, or in a list and a thread's hands.
THEOREM NodeConservation == Spec => []NodesConserved
<1>1. Inv => NodesConserved
  BY DEF Inv
<1>2. QED BY <1>1, Invariant, PTL

\* free_queue never exceeds max_nfree, or one node when that is 0.
THEOREM PoolBound == Spec => []PoolBounded
<1>1. Init => PoolBounded
  BY BoundsAssumption DEF Init, PoolBounded
<1>2. ASSUME Inv, PoolBounded, [Next]_vars PROVE PoolBounded'
  <2> USE <1>2, BoundsAssumption DEF PoolBounded, Inv
  <2>1. nfree \in Nat
    BY DEF TypeOK
  <2>2. CASE SubPut
    BY <2>1, <2>2 DEF SubPut, DataPut, PoolFull
  <2>3. CASE AcqGet
    BY <2>1, <2>3 DEF AcqGet, DataGet
  <2>4. CASE MainDeinit
    <3>1. nfree' = 0
      BY <2>1, <2>4 DEF MainDeinit, DataDeinit, NodesConserved
    <3>2. QED BY <3>1
  <2>5. CASE MainInit
    BY <2>5 DEF MainInit, DataInit
  <2>6. CASE nfree' = nfree
    BY <2>6
  <2>7. SubPut \/ AcqGet \/ MainDeinit \/ MainInit \/ nfree' = nfree
    <3> USE DEF queues, Crash, MainMoves, AcqMoves, SubMoves
    <3>1. CASE Main
      BY <3>1 DEF Main, MainUnmask, MainCreateSubmit, MainCreateAcq,
                  MainCheck, MainSuspend, MainKillSubmit, MainKillAcq,
                  MainJoinSubmit, MainJoinAcq
    <3>2. CASE Acq
      BY <3>2 DEF Acq, AcqStart, AcqFirstCheck, AcqCheck, AcqNothingDue,
                  AcqBuild, AcqGrowFails, AcqGrowCheck, AcqGetFails,
                  AcqInsert, AcqCheck2, AcqWake, AcqOver, AcqOverUnset
    <3>3. CASE Submit
      BY <3>3 DEF Submit, SubCheck, SubGet, SubGetEmpty, SubEmpty, SubWake,
                  SubSubmit, SubRelease
    <3>4. CASE \/ \E sig \in Signals : Send(sig)
               \/ \E t \in Receivers : Deliver(t)
      BY <3>4 DEF Send, Deliver
    <3>5. CASE UNCHANGED vars
      BY <3>5 DEF vars
    <3>6. QED BY <3>1, <3>2, <3>3, <3>4, <3>5 DEF Next
  <2>8. QED BY <2>2, <2>3, <2>4, <2>5, <2>6, <2>7
<1>3. QED BY <1>1, <1>2, Invariant, PTL DEF Spec
-----------------------------------------------------------------------------
(***************************************************************************)
(* The order of the samples.  Waiting is what the abstract channel holds.  *)
(***************************************************************************)
SamplesOrdered ==
  /\ \A i, j \in 1..Len(Waiting) : i < j => Waiting[i] < Waiting[j]
  /\ \A i \in 1..Len(Waiting) : last < Waiting[i] /\ Waiting[i] <= made
  /\ last <= made
  /\ ajson # None => /\ ajson = made /\ last < ajson
                     /\ \A i \in 1..Len(Waiting) : Waiting[i] < ajson
  /\ spc \in Sending => json[snode] = last

\* Waiting is as long as task_queue and holds sample numbers.
LEMMA WaitingType ==
  ASSUME TypeOK
  PROVE  /\ Waiting \in Seq(Samples \cup {None})
         /\ Len(Waiting) = Len(taskq) /\ Len(Waiting) \in Nat
         /\ \A i \in 1..Len(taskq) : /\ taskq[i] \in Nodes
                                     /\ Waiting[i] = json[taskq[i]]
                                     /\ Waiting[i] \in Nat
<1>1. Len(taskq) \in Nat /\ \A i \in 1..Len(taskq) : taskq[i] \in Nodes
  BY DEF TypeOK
<1>2. \A i \in 1..Len(taskq) : json[taskq[i]] \in Samples \cup {None}
  BY <1>1 DEF TypeOK
<1>3. \A i \in 1..Len(taskq) : json[taskq[i]] \in Nat
  BY <1>2, BoundsAssumption DEF Samples, None
<1>4. Waiting \in [1..Len(taskq) -> Samples \cup {None}]
  BY <1>2 DEF Waiting
<1>5. Waiting \in Seq(Samples \cup {None}) /\ Len(Waiting) = Len(taskq)
  BY <1>1, <1>4
<1>6. QED BY <1>1, <1>3, <1>5 DEF Waiting

\* Inserting a node appends its sample.
LEMMA WaitingInsert ==
  ASSUME TypeOK, anode \in Nodes, json[anode] = ajson,
         taskq' = Append(taskq, anode), json' = json
  PROVE  Waiting' = Append(Waiting, ajson)
<1>1. /\ Len(taskq') = Len(taskq) + 1 /\ Len(taskq) \in Nat
      /\ \A i \in 1..Len(taskq) : taskq'[i] = taskq[i]
      /\ taskq'[Len(taskq) + 1] = anode
  BY DEF TypeOK
<1>2. /\ Waiting \in Seq(Samples \cup {None}) /\ ajson \in Samples \cup {None}
      /\ Len(Waiting) = Len(taskq)
      /\ \A i \in 1..Len(taskq) : Waiting[i] = json[taskq[i]]
  BY WaitingType DEF TypeOK
<1> DEFINE r == Append(Waiting, ajson)
<1>3. /\ r \in Seq(Samples \cup {None}) /\ Len(r) = Len(taskq) + 1
      /\ \A i \in 1..Len(taskq) : r[i] = json[taskq[i]]
      /\ r[Len(taskq) + 1] = ajson
  BY <1>1, <1>2
<1>4. Waiting' = [i \in 1..(Len(taskq) + 1) |-> json[taskq'[i]]]
  BY <1>1 DEF Waiting
<1> HIDE DEF r
<1>5. \A i \in 1..(Len(taskq) + 1) : json[taskq'[i]] = r[i]
  BY <1>1, <1>3
<1>6. r = [i \in 1..(Len(taskq) + 1) |-> r[i]]
  BY <1>3, LenProperties
<1>7. Waiting' = r
  BY <1>4, <1>5, <1>6
<1>8. QED BY <1>7 DEF r

\* Removing the first node removes the first sample.
LEMMA WaitingRemove ==
  ASSUME TypeOK, NoRepeats(taskq), taskq # <<>>,
         taskq' = Tail(taskq), json' = json
  PROVE  /\ Waiting # <<>> /\ json[Head(taskq)] = Head(Waiting)
         /\ Waiting' = Tail(Waiting)
<1>1. /\ Head(taskq) = taskq[1]
      /\ Len(taskq) \in Nat \ {0} /\ Len(taskq') = Len(taskq) - 1
      /\ \A i \in 1..Len(taskq') : taskq'[i] = taskq[i + 1]
  BY TailFacts DEF TypeOK
<1>2. Waiting # <<>> /\ Head(Waiting) = Waiting[1]
  BY <1>1, WaitingType, EmptyQueue
<1>3. /\ Tail(Waiting) \in Seq(Samples \cup {None})
      /\ Len(Tail(Waiting)) = Len(taskq) - 1
      /\ \A i \in 1..(Len(taskq) - 1) : Tail(Waiting)[i] = Waiting[i + 1]
  BY <1>1, <1>2, WaitingType, HeadTailProperties
<1>4. Waiting' = [i \in 1..(Len(taskq) - 1) |-> json[taskq[i + 1]]]
  BY <1>1 DEF Waiting
<1>5. Tail(Waiting) = [i \in 1..(Len(taskq) - 1) |-> Tail(Waiting)[i]]
  BY <1>3, LenProperties
<1>6. \A i \in 1..(Len(taskq) - 1) : Tail(Waiting)[i] = json[taskq[i + 1]]
  BY <1>1, <1>3, WaitingType
<1>7. Waiting' = Tail(Waiting)
  BY <1>4, <1>5, <1>6
<1>8. QED BY <1>1, <1>2, <1>7, WaitingType

\* Giving another node a new sample changes nothing for those that wait.
LEMMA WaitingKept ==
  ASSUME TypeOK, NEW n \in Nodes, n \notin Range(taskq), NEW x,
         taskq' = taskq, json' = [json EXCEPT ![n] = x]
  PROVE  Waiting' = Waiting
<1>1. \A i \in 1..Len(taskq) : taskq[i] \in Nodes /\ taskq[i] # n
  BY InRange DEF TypeOK
<1>2. \A i \in 1..Len(taskq) : json'[taskq[i]] = json[taskq[i]]
  BY <1>1 DEF TypeOK
<1>3. QED BY <1>2 DEF Waiting

\* What every other step leaves alone.
Settled == /\ UNCHANGED <<taskq, json, last, made, ajson, live>>
           /\ spc' \in Sending <=> spc \in Sending
           /\ spc' \in Sending => snode' = snode
           /\ proc' = "exited" <=> proc = "exited"

\* The steps that matter to the order of the samples, and all the others.
LEMMA StepKinds ==
  ASSUME Inv, [Next]_vars
  PROVE  \/ AcqBuild \/ AcqGrowFails \/ AcqOver \/ AcqGet \/ AcqInsert
         \/ SubGet \/ SubRelease \/ MainDeinit \/ Settled
<1> USE DEF Inv, queues, memory, locals, signals, control, Running, Sending,
            Settled
<1>1. CASE MainInit
  BY <1>1 DEF MainInit, MainGoto, MainMoves, DataInit, ThreadsPlaced
<1>2. CASE \/ MainUnmask \/ MainCreateSubmit \/ MainCreateAcq \/ MainCheck
           \/ MainSuspend \/ MainKillSubmit \/ MainKillAcq
             \/ MainJoinSubmit \/ MainJoinAcq
  BY <1>2 DEF MainUnmask, MainCreateSubmit, MainCreateAcq, MainCheck,
              MainSuspend, MainKillSubmit, MainKillAcq,
              MainJoinSubmit, MainJoinAcq,
              MainGoto, MainMoves, ThreadsPlaced
<1>3. CASE \/ AcqStart \/ AcqFirstCheck \/ AcqCheck \/ AcqNothingDue
           \/ AcqGrowCheck \/ AcqCheck2 \/ AcqWake \/ AcqGetFails
           \/ AcqOverUnset
  BY <1>3 DEF AcqStart, AcqFirstCheck, AcqCheck, AcqNothingDue, AcqGrowCheck,
              AcqCheck2, AcqWake, AcqGetFails, AcqOverUnset, Crash,
              AcqMoves, AcqGoto
<1>4. CASE \/ SubCheck \/ SubGetEmpty \/ SubEmpty \/ SubWake \/ SubSubmit
           \/ SubPut
  BY <1>4 DEF SubCheck, SubGetEmpty, SubEmpty, SubWake, SubSubmit,
              SubPut, SubGoto, SubMoves
<1>5. CASE \/ \E sig \in Signals : Send(sig)
           \/ \E t \in Receivers : Deliver(t)
  BY <1>5 DEF Send, Deliver
<1>6. CASE UNCHANGED vars
  BY <1>6 DEF vars
<1>7. QED BY <1>1, <1>2, <1>3, <1>4, <1>5, <1>6 DEF Next, Main, Acq, Submit

\* Every step keeps the order and is a step, or no step, of the channel.
LEMMA ChannelStep ==
  ASSUME Inv, SamplesOrdered, [Next]_vars
  PROVE  SamplesOrdered' /\ [Channel!ChanNext]_(Channel!chanVars)
<1> USE DEF Inv, queues, memory, locals, AcqGoto, SubGoto, MainGoto,
           MainMoves, AcqMoves, SubMoves, Running,
            Sending, Channel!chanVars
<1>0. /\ Len(Waiting) = Len(taskq) /\ Len(Waiting) \in Nat
      /\ last \in Nat /\ made \in Nat /\ ajson \in Nat
      /\ \A i \in 1..Len(Waiting) : Waiting[i] \in Nat
  BY WaitingType, BoundsAssumption DEF TypeOK, Samples, None
<1>1. CASE Settled
  <2>1. Waiting' = Waiting
    BY <1>1 DEF Settled, Waiting
  <2>2. SamplesOrdered'
    BY <1>1, <2>1 DEF Settled, SamplesOrdered
  <2>3. QED BY <1>1, <2>1, <2>2 DEF Settled
<1>2. CASE AcqBuild \/ AcqGrowFails \/ AcqOver
  <2> USE <1>2 DEF AcqBuild, AcqGrowFails, AcqOver
  <2>1. Waiting' = Waiting /\ last' = last /\ proc' = proc
    BY DEF Waiting
  <2>2. \/ UNCHANGED <<made, ajson>>
        \/ made' = made /\ ajson' = None
        \/ made' = made + 1 /\ ajson' = made + 1
    BY DEF Begin
  <2>3. SamplesOrdered'
    <3>1. UNCHANGED <<spc, json, snode>>
      OBVIOUS
    <3>2. CASE UNCHANGED <<made, ajson>>
      BY <2>1, <3>1, <3>2 DEF SamplesOrdered, Sending
    <3>3. CASE made' = made /\ ajson' = None
      BY <2>1, <3>1, <3>3 DEF SamplesOrdered, Sending
    <3>4. CASE made' = made + 1 /\ ajson' = made + 1
      BY <1>0, <2>1, <3>1, <3>4 DEF SamplesOrdered, Sending
    <3>5. QED BY <2>2, <3>2, <3>3, <3>4
  <2>4. QED BY <2>1, <2>3
<1>3. CASE AcqGet
  <2>1. PICK n \in Nodes : /\ DataGet(n)
                           /\ anode' = n
                           /\ json' = [json EXCEPT ![n] = ajson]
    BY <1>3 DEF AcqGet
  <2>2. UNCHANGED <<taskq, last, made, ajson, spc, snode, proc>>
    BY <1>3 DEF AcqGet
  <2>3. n \notin Range(taskq) /\ n # snode
    <3>1. anode = NULL /\ UNCHANGED <<taskq, ntask, snode>>
      BY <1>3 DEF AcqGet, ThreadsPlaced
    <3>2. QED BY <2>1, <3>1, DataGetStep
  <2>4. Waiting' = Waiting
    BY <2>1, <2>2, <2>3, WaitingKept
  <2>5. spc \in Sending => json'[snode] = json[snode]
    BY <2>1, <2>3 DEF ThreadsPlaced, Holding, TypeOK
  <2>6. SamplesOrdered'
    BY <2>2, <2>4, <2>5 DEF SamplesOrdered, Sending
  <2>7. QED BY <2>2, <2>4, <2>6
<1>4. CASE AcqInsert
  <2>1. /\ anode \in Nodes /\ json[anode] = ajson /\ ajson # None
        /\ taskq' = Append(taskq, anode) /\ json' = json
    BY <1>4 DEF AcqInsert, TaskInsert, ThreadsPlaced, TypeOK
  <2>2. Waiting' = Append(Waiting, ajson)
    BY <2>1, WaitingInsert
  <2>3. UNCHANGED <<last, made, spc, snode, proc>> /\ ajson' = None
    BY <1>4 DEF AcqInsert
  <2>4. /\ Len(Waiting') = Len(Waiting) + 1
        /\ \A i \in 1..Len(Waiting) : Waiting'[i] = Waiting[i]
        /\ Waiting'[Len(Waiting) + 1] = ajson
    BY <2>2, WaitingType DEF TypeOK
  <2>5. /\ ajson = made /\ last < ajson
        /\ \A i \in 1..Len(Waiting) : Waiting[i] < ajson
    BY <2>1 DEF SamplesOrdered, Sending
  <2>6. SamplesOrdered'
    <3>1. \A i, j \in 1..Len(Waiting') : i < j => Waiting'[i] < Waiting'[j]
      BY <1>0, <2>4, <2>5 DEF SamplesOrdered, Sending
    <3>2. \A i \in 1..Len(Waiting') : last' < Waiting'[i] /\ Waiting'[i] <= made'
      BY <1>0, <2>3, <2>4, <2>5 DEF SamplesOrdered, Sending
    <3>3. QED BY <2>1, <2>3, <3>1, <3>2 DEF SamplesOrdered, Sending
  <2>7. Channel!Put(ajson) /\ ajson \in Samples
    <3>1. proc # "exited" /\ proc' # "exited"
      BY <1>4, <2>3 DEF AcqInsert
    <3>2. ajson \in Samples
      BY <2>1 DEF TypeOK
    <3>3. QED BY <1>0, <2>2, <2>3, <2>5, <3>1, <3>2 DEF Channel!Put
  <2>8. QED BY <2>6, <2>7 DEF Channel!ChanNext
<1>5. CASE SubGet
  <2>1. /\ taskq # <<>> /\ taskq' = Tail(taskq) /\ json' = json
        /\ snode' = Head(taskq) /\ last' = json[Head(taskq)]
        /\ UNCHANGED <<made, ajson, proc>> /\ proc = "running"
    BY <1>5 DEF SubGet, TaskGet
  <2>2. /\ Waiting # <<>> /\ json[Head(taskq)] = Head(Waiting)
        /\ Waiting' = Tail(Waiting)
    BY <2>1, WaitingRemove DEF NodesConserved
  <2>3. /\ Head(Waiting) = Waiting[1]
        /\ Len(Waiting) \in Nat \ {0} /\ Len(Waiting') = Len(Waiting) - 1
        /\ \A i \in 1..Len(Waiting') : Waiting'[i] = Waiting[i + 1]
    BY <2>2, WaitingType, HeadTailProperties, EmptySeq
  <2>4. last' = Waiting[1]
    BY <2>1, <2>2, <2>3
  <2>5. SamplesOrdered'
    <3>1. \A i, j \in 1..Len(Waiting') : i < j => Waiting'[i] < Waiting'[j]
      BY <1>0, <2>3 DEF SamplesOrdered, Sending
    <3>2. \A i \in 1..Len(Waiting') : last' < Waiting'[i] /\ Waiting'[i] <= made'
      BY <1>0, <2>1, <2>3, <2>4 DEF SamplesOrdered, Sending
    <3>3. last' <= made'
      BY <1>0, <2>1, <2>3, <2>4 DEF SamplesOrdered, Sending
    <3>4. ajson' # None =>
            /\ ajson' = made' /\ last' < ajson'
            /\ \A i \in 1..Len(Waiting') : Waiting'[i] < ajson'
      BY <1>0, <2>1, <2>3, <2>4 DEF SamplesOrdered, Sending
    <3>5. json'[snode'] = last'
      BY <2>1
    <3>6. QED BY <3>1, <3>2, <3>3, <3>4, <3>5 DEF SamplesOrdered, Sending
  <2>6. Channel!Take
    BY <2>1, <2>2 DEF Channel!Take
  <2>7. QED BY <2>5, <2>6 DEF Channel!ChanNext
<1>6. CASE MainDeinit
  <2>1. /\ taskq' = <<>> /\ spc = "done" /\ spc' = spc /\ apc = "done"
        /\ UNCHANGED <<last, made, ajson, json>>
        /\ proc = "running" /\ proc' = "exited"
    BY <1>6 DEF MainDeinit, DataDeinit, ThreadsPlaced
  <2>2. Waiting' = <<>>
    BY <2>1, EmptyQueue DEF Waiting
  <2>3. SamplesOrdered'
    <3>1. Len(Waiting') = 0
      BY <2>2, EmptyQueue
    <3>2. QED BY <1>0, <2>1, <3>1 DEF SamplesOrdered, Sending
  <2>4. Channel!Close
    BY <2>1, <2>2 DEF Channel!Close
  <2>5. QED BY <2>3, <2>4 DEF Channel!ChanNext
<1>7. CASE SubRelease
  <2>1. UNCHANGED <<taskq, json, last, made, ajson, snode, proc>> /\ spc = "release"
    BY <1>7 DEF SubRelease
  <2>2. Waiting' = Waiting
    BY <2>1 DEF Waiting
  <2>3. SamplesOrdered'
    BY <2>1, <2>2 DEF SamplesOrdered, Sending
  <2>4. QED BY <2>1, <2>2, <2>3
<1>8. QED BY <1>1, <1>2, <1>3, <1>4, <1>5, <1>6, <1>7, StepKinds

\* The process starts as an open, empty channel.
LEMMA ChannelInit == Init => SamplesOrdered /\ Channel!ChanInit
<1> SUFFICES ASSUME Init PROVE SamplesOrdered /\ Channel!ChanInit
  OBVIOUS
<1>1. Waiting = <<>> /\ Len(Waiting) = 0
  BY EmptyQueue DEF Init, Waiting
<1>2. SamplesOrdered
  BY <1>1 DEF Init, SamplesOrdered, Sending, None
<1>3. Channel!ChanInit
  BY <1>1 DEF Init, Channel!ChanInit
<1>4. QED BY <1>2, <1>3

\* The two queues implement the channel: samples are handed to the sender in
\* the order they were taken, each at most once, and never after teardown.
THEOREM ChannelImplemented == Spec => ChannelSpec
<1>1. Init => SamplesOrdered /\ Channel!ChanInit
  BY ChannelInit
<1>2. Inv /\ SamplesOrdered /\ [Next]_vars
        => SamplesOrdered' /\ [Channel!ChanNext]_(Channel!chanVars)
  BY ChannelStep
<1>3. QED
  BY <1>1, <1>2, Invariant, PTL DEF Spec, ChannelSpec, Channel!ChanSpec
-----------------------------------------------------------------------------
(***************************************************************************)
(* Who owns which JSON object.                                             *)
(***************************************************************************)
Queued == {json[n] : n \in Range(taskq)}

\* The three kinds of owners never share an object: the one being sent is
\* older than those that wait, the one being built is newer than all.
LEMMA OwnersApart ==
  ASSUME TypeOK, SamplesOrdered
  PROVE  /\ Queued \subseteq Nat
         /\ ajson # None => ajson \notin Queued
         /\ spc \in Sending =>
              /\ json[snode] \notin Queued
              /\ ajson # None => json[snode] # ajson
<1>1. /\ Len(Waiting) = Len(taskq)
      /\ last \in Nat /\ ajson \in Nat
      /\ \A i \in 1..Len(taskq) : Waiting[i] = json[taskq[i]] /\ Waiting[i] \in Nat
  BY WaitingType, BoundsAssumption DEF TypeOK, Samples, None
<1>2. Queued = {json[taskq[i]] : i \in 1..Len(taskq)}
  <2>1. Range(taskq) = {taskq[i] : i \in 1..Len(taskq)}
    BY InRange DEF TypeOK
  <2>2. QED BY <2>1 DEF Queued
<1>3. Queued = {Waiting[i] : i \in 1..Len(taskq)}
  BY <1>1, <1>2
<1>4. Queued \subseteq Nat
  BY <1>1, <1>3
<1>5. ASSUME ajson # None PROVE ajson \notin Queued
  BY <1>1, <1>3, <1>5 DEF SamplesOrdered, Sending
<1>6. ASSUME spc \in Sending
      PROVE  /\ json[snode] \notin Queued
             /\ ajson # None => json[snode] # ajson
  BY <1>1, <1>3, <1>6 DEF SamplesOrdered, Sending
<1>7. QED BY <1>4, <1>5, <1>6

\* Every step keeps the set of live objects equal to the set of owed ones.
LEMMA JsonStep ==
  ASSUME Inv, SamplesOrdered, JsonOwned, [Next]_vars
  PROVE  JsonOwned'
<1> USE DEF Inv, queues, memory, locals, AcqGoto, SubGoto, MainGoto,
           MainMoves, AcqMoves, SubMoves, JsonOwned
<1>0. Owed = Queued \cup ({ajson} \ {None})
             \cup (IF spc \in Sending THEN {json[snode]} ELSE {})
  BY DEF Owed, Sending, Queued
<1>1. CASE Settled
  <2>1. Queued' = Queued
    BY <1>1 DEF Settled, Queued
  <2>2. Owed' = Owed
    BY <1>1, <2>1 DEF Settled, Owed, Sending, Queued
  <2>3. QED BY <1>1, <2>2 DEF Settled
<1>2. CASE AcqBuild \/ AcqGrowFails
  <2> USE <1>2 DEF AcqBuild, AcqGrowFails
  <2>1. UNCHANGED <<Queued, spc, json, snode>>
    BY DEF Queued
  <2>2. \/ UNCHANGED <<live, ajson>>
        \/ /\ ajson = None /\ ajson' # None
           /\ live' = live \cup {ajson'}
    BY DEF Begin, None, Samples
  <2>3. QED BY <2>1, <2>2 DEF Owed, Sending, Queued
<1>3. CASE AcqOver
  <2> USE <1>3 DEF AcqOver
  <2>1. /\ UNCHANGED <<Queued, spc, json, snode>>
        /\ live' = live \ {ajson} /\ ajson' = None
    BY DEF Queued
  <2>2. CASE ajson = None
    <3>1. None \notin live
      BY DEF TypeOK, Samples, None
    <3>2. QED BY <2>1, <2>2, <3>1 DEF Owed, Sending, Queued
  <2>3. CASE ajson # None
    BY <1>0, <2>1, <2>3, OwnersApart DEF Owed, Sending, Queued
  <2>4. QED BY <2>2, <2>3
<1>4. CASE AcqGet
  <2>1. PICK n \in Nodes : /\ DataGet(n)
                           /\ anode' = n
                           /\ json' = [json EXCEPT ![n] = ajson]
    BY <1>4 DEF AcqGet
  <2>2. UNCHANGED <<taskq, ntask, live, ajson, spc, snode>>
    BY <1>4 DEF AcqGet
  <2>3. n \notin Range(taskq) /\ n # snode
    <3>1. anode = NULL
      BY <1>4 DEF AcqGet, ThreadsPlaced
    <3>2. QED BY <2>1, <2>2, <3>1, DataGetStep
  <2>4. Range(taskq) \subseteq Nodes
    BY InRange DEF TypeOK
  <2>5. \A m \in Range(taskq) : json'[m] = json[m]
    BY <2>1, <2>3, <2>4 DEF TypeOK
  <2>6. Queued' = Queued
    BY <2>2, <2>5 DEF Queued
  <2>7. spc \in Sending => json'[snode] = json[snode]
    BY <2>1, <2>3 DEF ThreadsPlaced, Holding, TypeOK
  <2>8. QED BY <2>2, <2>6, <2>7 DEF Owed, Sending, Queued
<1>5. CASE AcqInsert
  <2>1. /\ anode \in Nodes /\ json[anode] = ajson /\ ajson # None
        /\ taskq' = Append(taskq, anode)
        /\ ajson' = None /\ UNCHANGED <<live, json, spc, snode>>
    BY <1>5 DEF AcqInsert, TaskInsert, ThreadsPlaced, TypeOK
  <2>2. Range(taskq)' = Range(taskq) \cup {anode}
    BY <2>1, AppendFacts DEF TypeOK
  <2>3. Queued' = Queued \cup {ajson}
    BY <2>1, <2>2 DEF Queued
  <2>4. QED BY <2>1, <2>3 DEF Owed, Sending, Queued
<1>6. CASE SubGet
  <2>1. /\ taskq # <<>> /\ taskq' = Tail(taskq)
        /\ snode' = Head(taskq) /\ spc = "get" /\ spc' = "submit"
        /\ UNCHANGED <<live, json, ajson>>
    BY <1>6 DEF SubGet, TaskGet
  <2>2. /\ Head(taskq) \in Range(taskq)
        /\ Range(taskq)' = Range(taskq) \ {Head(taskq)}
    BY <2>1, TailFacts DEF TypeOK, NodesConserved
  <2>3. Queued = Queued' \cup {json[Head(taskq)]}
    BY <2>1, <2>2 DEF Queued
  <2>4. QED BY <2>1, <2>3 DEF Owed, Sending, Queued
<1>7. CASE SubRelease
  <2>1. /\ spc = "release" /\ spc' = "put" /\ live' = live \ {json[snode]}
        /\ UNCHANGED <<taskq, json, ajson>>
    BY <1>7 DEF SubRelease
  <2>2. Queued' = Queued
    BY <2>1 DEF Queued
  <2>3. json[snode] \notin Queued /\ (ajson # None => json[snode] # ajson)
    BY <2>1, OwnersApart DEF Sending
  <2>4. Owed' = Queued \cup ({ajson} \ {None})
    BY <2>1, <2>2 DEF Owed, Sending, Queued
  <2>5. QED BY <1>0, <2>1, <2>3, <2>4
<1>8. CASE MainDeinit
  <2>1. /\ taskq' = <<>> /\ live' = live \ Queued
        /\ spc = "done" /\ apc = "done"
        /\ UNCHANGED <<spc, ajson>>
    BY <1>8 DEF MainDeinit, DataDeinit, ThreadsPlaced, Queued
  <2>2. ajson = None
    BY <2>1 DEF ThreadsPlaced
  <2>3. Queued' = {}
    BY <2>1, EmptyQueue DEF Queued
  <2>4. QED BY <1>0, <2>1, <2>2, <2>3 DEF Owed, Sending, Queued
<1>9. QED
  BY <1>1, <1>2, <1>3, <1>4, <1>5, <1>6, <1>7, <1>8, StepKinds

\* Every sample is released exactly when its last owner is done with it.
THEOREM JsonOwnership == Spec => []JsonOwned
<1>1. Init => SamplesOrdered /\ JsonOwned
  <2>1. Init => JsonOwned
    BY EmptyQueue DEF Init, JsonOwned, Owed, Sending, None
  <2>2. QED BY <2>1, ChannelInit
<1>2. Inv /\ SamplesOrdered /\ JsonOwned /\ [Next]_vars
        => SamplesOrdered' /\ JsonOwned'
  BY ChannelStep, JsonStep
<1>3. QED BY <1>1, <1>2, Invariant, PTL DEF Spec

\* A process that exits has freed every node and released every sample.
THEOREM CleanExit == Spec => []NothingLeftAtExit
<1>1. ASSUME Inv, JsonOwned PROVE NothingLeftAtExit
  <2> SUFFICES ASSUME proc = "exited"
               PROVE  heap = {} /\ live = {} /\ nfree = 0 /\ ntask = 0
    BY DEF NothingLeftAtExit
  <2>1. /\ mpc = "exit" /\ apc = "done" /\ spc = "done"
        /\ freeq = <<>> /\ taskq = <<>> /\ nfree = 0 /\ ntask = 0
        /\ ajson = None
    BY <1>1 DEF Inv, ThreadsPlaced
  <2>2. anode = NULL /\ snode = NULL
    BY <1>1, <2>1 DEF Inv, ThreadsPlaced, Holding
  <2>3. heap = {}
    BY <1>1, <2>1, <2>2, EmptyQueue DEF Inv, NodesConserved
  <2>4. live = {}
    BY <1>1, <2>1, EmptyQueue DEF JsonOwned, Owed, Sending
  <2>5. QED BY <2>1, <2>3, <2>4
<1>2. QED BY <1>1, Invariant, JsonOwnership, PTL
-----------------------------------------------------------------------------
(***************************************************************************)
(* Crashes.  A thread that finds a stop flag at its first look has not     *)
(* built anything yet, and every other crash is one of a calloc that       *)
(* failed.  Nothing moves in a process that has crashed.                   *)
(***************************************************************************)
Fresh == apc \in {"none", "start", "first_check", "over_unset"} => live = {}

Harmless == Fresh /\ CrashLosesNothing

LEMMA HarmlessStep == Inv /\ Harmless /\ [Next]_vars => Harmless'
<1> SUFFICES ASSUME Inv, Harmless, [Next]_vars  PROVE Harmless'
  OBVIOUS
<1> USE DEF Harmless, Fresh, CrashLosesNothing, queues, memory, locals, control,
            signals, Running, MainGoto, MainMoves, AcqGoto, AcqMoves, SubGoto,
            SubMoves
<1>1. CASE Main
  BY <1>1 DEF Main, MainInit, MainUnmask, MainCreateSubmit, MainCreateAcq,
     MainCheck, MainSuspend, MainKillSubmit, MainKillAcq, MainJoinSubmit,
     MainJoinAcq, MainDeinit, DataInit, DataDeinit, Inv, ThreadsPlaced
<1>2. CASE Acq
  BY <1>2 DEF Acq, AcqStart, AcqFirstCheck, AcqCheck, AcqNothingDue, AcqBuild,
     AcqGrowFails, AcqGrowCheck, AcqGet, AcqGetFails, DataGetFails, AcqInsert,
     AcqCheck2, AcqWake, AcqOver, AcqOverUnset, Crash
<1>3. CASE Submit
  BY <1>3 DEF Submit, SubCheck, SubGet, SubGetEmpty, SubEmpty, SubWake,
     SubSubmit, SubRelease, SubPut
<1>4. CASE \/ \E sig \in Signals : Send(sig)
           \/ \E t \in Receivers : Deliver(t)
  BY <1>4 DEF Send, Deliver, Handle
<1>5. CASE UNCHANGED vars
  BY <1>5 DEF vars
<1> QED  BY <1>1, <1>2, <1>3, <1>4, <1>5 DEF Next

\* A process that crashes at the release of the unassigned json
\* (ca_acquisition.c:278, 374) has no sample to lose; otherwise it has used up
\* its memory (ca_acquisition.c:359-360).
THEOREM CrashIsHarmless == Spec => []CrashLosesNothing
<1>1. Init => Harmless
  BY DEF Init, Harmless, Fresh, CrashLosesNothing
<1>2. Harmless => CrashLosesNothing
  BY DEF Harmless
<1> QED  BY <1>1, <1>2, HarmlessStep, Invariant, PTL DEF Spec
-----------------------------------------------------------------------------
(***************************************************************************)
(* Winding down.  Every look at the flags lies on the way of every round,  *)
(* so that a stop flag leaves each thread a few steps.                     *)
(***************************************************************************)
\* The steps each thread can still take once a stop flag is set.
MainLeft(pc) == CASE pc = "init"          -> 10
                  [] pc = "unmask"        -> 9
                  [] pc = "create_submit" -> 8
                  [] pc = "create_acq"    -> 7
                  [] pc = "checked"       -> 8
                  [] pc = "suspend"       -> 7
                  [] pc = "check"         -> 6
                  [] pc = "kill_submit"   -> 5
                  [] pc = "kill_acq"      -> 4
                  [] pc = "join_submit"   -> 3
                  [] pc = "join_acq"      -> 2
                  [] pc = "deinit"        -> 1
                  [] OTHER                -> 0

AcqLeft(pc) == CASE pc = "build"                                  -> 5
                 [] pc \in {"none", "get"}                        -> 4
                 [] pc \in {"start", "insert", "sleep"}           -> 3
                 [] pc \in {"first_check", "check", "check2",
                            "grow", "grow_slept"}                 -> 2
                 [] pc \in {"over", "over_unset"}                 -> 1
                 [] OTHER                                         -> 0

SubLeft(pc) == CASE pc = "get"                       -> 5
                 [] pc = "submit"                    -> 4
                 [] pc = "release"                   -> 3
                 [] pc \in {"none", "sleep", "put"}  -> 2
                 [] pc \in {"check", "empty"}        -> 1
                 [] OTHER                            -> 0

StepsLeft == MainLeft(mpc) + AcqLeft(apc) + SubLeft(spc)

\* While a stop flag is set: the flag stays set; every step of a thread uses
\* one up or is a crash, and no signal adds any; no thread begins another
\* round, and the submit thread does not go for another sample.
WindsDown ==
  Stopping =>
    /\ Stopping'
    /\ Main \/ Acq \/ Submit => StepsLeft' < StepsLeft \/ proc' = "crashed"
    /\ StepsLeft' <= StepsLeft
    /\ apc' = "build" => apc = "build"
    /\ spc' = "get" => spc = "get"

\* The bound the steps of the threads count down from.
FewStepsLeft == StepsLeft \in 0..20

LEMMA LeftTypes ==
  MainLeft(mpc) \in 0..10 /\ AcqLeft(apc) \in 0..5 /\ SubLeft(spc) \in 0..5
BY DEF MainLeft, AcqLeft, SubLeft

LEMMA MainWindsDown ==
  ASSUME Inv, Stopping, Main
  PROVE  /\ Stopping' /\ MainLeft(mpc') < MainLeft(mpc)
         /\ AcqLeft(apc') <= AcqLeft(apc) /\ SubLeft(spc') <= SubLeft(spc)
         /\ apc' = "build" => apc = "build"
         /\ spc' = "get" => spc = "get"
<1> USE DEF Stopping, signals, MainGoto, MainMoves
<1>1. Stopping'
  BY DEF Main, MainInit, MainUnmask, MainCreateSubmit, MainCreateAcq,
     MainCheck, MainSuspend, MainKillSubmit, MainKillAcq, MainJoinSubmit,
     MainJoinAcq, MainDeinit
<1>2. MainLeft(mpc') < MainLeft(mpc)
  BY DEF Main, MainInit, MainUnmask, MainCreateSubmit, MainCreateAcq,
     MainCheck, MainSuspend, MainKillSubmit, MainKillAcq, MainJoinSubmit,
     MainJoinAcq, MainDeinit, MainLeft
<1>3. /\ apc' = apc \/ (apc = "none" /\ apc' = "start")
      /\ spc' = spc \/ (spc = "none" /\ spc' = "check")
  BY DEF Main, MainInit, MainUnmask, MainCreateSubmit, MainCreateAcq,
     MainCheck, MainSuspend, MainKillSubmit, MainKillAcq, MainJoinSubmit,
     MainJoinAcq, MainDeinit, Inv, ThreadsPlaced
<1>4. AcqLeft(apc') <= AcqLeft(apc) /\ SubLeft(spc') <= SubLeft(spc)
  BY <1>3 DEF AcqLeft, SubLeft
<1> QED  BY <1>1, <1>2, <1>3, <1>4

LEMMA AcqWindsDown ==
  ASSUME Inv, Stopping, Acq, proc' # "crashed"
  PROVE  /\ UNCHANGED <<quit, term, mpc, spc>> /\ AcqLeft(apc') < AcqLeft(apc)
         /\ apc' # "build"
<1> USE DEF signals, AcqGoto, AcqMoves, Running
<1>1. UNCHANGED <<quit, term, mpc, spc>>
  BY DEF Acq, AcqStart, AcqFirstCheck, AcqCheck, AcqNothingDue, AcqBuild,
     AcqGrowFails, AcqGrowCheck, AcqGet, AcqGetFails, AcqInsert,
     AcqCheck2, AcqWake, AcqOver, AcqOverUnset, Crash
<1>2. AcqLeft(apc') < AcqLeft(apc) /\ apc' # "build"
  BY DEF Acq, AcqStart, AcqFirstCheck, AcqCheck, AcqNothingDue, AcqBuild,
     AcqGrowFails, AcqGrowCheck, AcqGet, AcqGetFails, AcqInsert,
     AcqCheck2, AcqWake, AcqOver, AcqOverUnset, Crash, AcqLeft
<1> QED  BY <1>1, <1>2

LEMMA SubmitWindsDown ==
  ASSUME Inv, Stopping, Submit
  PROVE  /\ UNCHANGED <<quit, term, mpc, apc>> /\ SubLeft(spc') < SubLeft(spc)
         /\ spc' # "get"
<1> USE DEF signals, SubGoto, SubMoves
<1>1. UNCHANGED <<quit, term, mpc, apc>>
  BY DEF Submit, SubCheck, SubGet, SubGetEmpty, SubEmpty, SubWake,
     SubSubmit, SubRelease, SubPut
<1>2. SubLeft(spc') < SubLeft(spc) /\ spc' # "get"
  BY DEF Submit, SubCheck, SubGet, SubGetEmpty, SubEmpty, SubWake,
     SubSubmit, SubRelease, SubPut, SubLeft
<1> QED  BY <1>1, <1>2

LEMMA SignalWindsDown ==
  ASSUME Stopping,
         \/ \E sig \in Signals : Send(sig)
         \/ \E t \in Receivers : Deliver(t)
  PROVE  Stopping' /\ UNCHANGED <<apc, spc>> /\ MainLeft(mpc') <= MainLeft(mpc)
<1>1. Stopping'
  BY DEF Send, Deliver, Handle, Stopping
<1>2. UNCHANGED <<apc, spc>>
  BY DEF Send, Deliver, control
<1>3. mpc' = mpc \/ (mpc = "suspend" /\ mpc' = "check")
  BY DEF Send, Deliver, control
<1>4. MainLeft(mpc') <= MainLeft(mpc)
  BY <1>3 DEF MainLeft
<1> QED  BY <1>1, <1>2, <1>4

LEMMA WindsDownStep == Inv /\ [Next]_vars => WindsDown
<1> SUFFICES ASSUME Inv, [Next]_vars, Stopping
             PROVE  /\ Stopping'
                    /\ Main \/ Acq \/ Submit =>
                         StepsLeft' < StepsLeft \/ proc' = "crashed"
                    /\ StepsLeft' <= StepsLeft
                    /\ apc' = "build" => apc = "build"
                    /\ spc' = "get" => spc = "get"
  BY DEF WindsDown
<1>t. /\ MainLeft(mpc) \in Int /\ AcqLeft(apc) \in Int /\ SubLeft(spc) \in Int
      /\ MainLeft(mpc') \in Int /\ AcqLeft(apc') \in Int /\ SubLeft(spc') \in Int
  BY DEF MainLeft, AcqLeft, SubLeft
<1>s. /\ StepsLeft = MainLeft(mpc) + AcqLeft(apc) + SubLeft(spc)
      /\ StepsLeft' = MainLeft(mpc') + AcqLeft(apc') + SubLeft(spc')
  BY DEF StepsLeft
<1>1. ASSUME Main
      PROVE  /\ Stopping' /\ StepsLeft' < StepsLeft
             /\ apc' = "build" => apc = "build"
             /\ spc' = "get" => spc = "get"
  <2>1. /\ Stopping' /\ MainLeft(mpc') < MainLeft(mpc)
        /\ AcqLeft(apc') <= AcqLeft(apc) /\ SubLeft(spc') <= SubLeft(spc)
        /\ apc' = "build" => apc = "build"
        /\ spc' = "get" => spc = "get"
    BY <1>1, MainWindsDown
  <2>2. StepsLeft' < StepsLeft
    BY <2>1, <1>t, <1>s
  <2> QED  BY <2>1, <2>2
<1>2. ASSUME Acq, proc' # "crashed"
      PROVE  /\ Stopping' /\ StepsLeft' < StepsLeft
             /\ apc' # "build" /\ UNCHANGED spc
  <2>1. /\ UNCHANGED <<quit, term, mpc, spc>> /\ AcqLeft(apc') < AcqLeft(apc)
        /\ apc' # "build"
    BY <1>2, AcqWindsDown
  <2>2. MainLeft(mpc') = MainLeft(mpc) /\ SubLeft(spc') = SubLeft(spc)
    BY <2>1 DEF MainLeft, SubLeft
  <2>3. Stopping'
    BY <2>1 DEF Stopping
  <2>4. StepsLeft' < StepsLeft
    BY <2>1, <2>2, <1>t, <1>s
  <2> QED  BY <2>1, <2>3, <2>4
<1>3. ASSUME Submit
      PROVE  /\ Stopping' /\ StepsLeft' < StepsLeft
             /\ UNCHANGED apc /\ spc' # "get"
  <2>1. /\ UNCHANGED <<quit, term, mpc, apc>> /\ SubLeft(spc') < SubLeft(spc)
        /\ spc' # "get"
    BY <1>3, SubmitWindsDown
  <2>2. MainLeft(mpc') = MainLeft(mpc) /\ AcqLeft(apc') = AcqLeft(apc)
    BY <2>1 DEF MainLeft, AcqLeft
  <2>3. Stopping'
    BY <2>1 DEF Stopping
  <2>4. StepsLeft' < StepsLeft
    BY <2>1, <2>2, <1>t, <1>s
  <2> QED  BY <2>1, <2>3, <2>4
<1>4. ASSUME Acq, proc' = "crashed"
      PROVE  UNCHANGED <<quit, term, mpc, apc, spc>>
  BY <1>4 DEF Acq, AcqStart, AcqFirstCheck, AcqCheck, AcqNothingDue, AcqBuild,
     AcqGrowFails, AcqGrowCheck, AcqGet, AcqGetFails, AcqInsert, AcqCheck2,
     AcqWake, AcqOver, AcqOverUnset, AcqGoto, AcqMoves, Running, Crash,
     control, signals
<1>5. ASSUME UNCHANGED <<quit, term, mpc, apc, spc>>
      PROVE  Stopping' /\ StepsLeft' = StepsLeft /\ UNCHANGED <<apc, spc>>
  BY <1>5 DEF Stopping, StepsLeft, MainLeft, AcqLeft, SubLeft
<1>6. ASSUME \/ \E sig \in Signals : Send(sig)
             \/ \E t \in Receivers : Deliver(t)
      PROVE  Stopping' /\ StepsLeft' <= StepsLeft /\ UNCHANGED <<apc, spc>>
  <2>1. Stopping' /\ UNCHANGED <<apc, spc>> /\ MainLeft(mpc') <= MainLeft(mpc)
    BY <1>6, SignalWindsDown
  <2>2. AcqLeft(apc') = AcqLeft(apc) /\ SubLeft(spc') = SubLeft(spc)
    BY <2>1 DEF AcqLeft, SubLeft
  <2>3. StepsLeft' <= StepsLeft
    BY <2>1, <2>2, <1>t, <1>s
  <2> QED  BY <2>1, <2>3
<1>7. ASSUME UNCHANGED vars  PROVE UNCHANGED <<quit, term, mpc, apc, spc>>
  BY <1>7 DEF vars, control, signals
<1>8. StepsLeft \in Int /\ StepsLeft' \in Int
  BY <1>t, <1>s
<1>9. Main \/ Acq \/ Submit => StepsLeft' < StepsLeft \/ proc' = "crashed"
  BY <1>1, <1>2, <1>3
<1>10. Stopping'
  BY <1>1, <1>2, <1>3, <1>4, <1>5, <1>6, <1>7 DEF Next
<1>11. StepsLeft' <= StepsLeft
  BY <1>1, <1>2, <1>3, <1>4, <1>5, <1>6, <1>7, <1>8 DEF Next
<1>12. (apc' = "build" => apc = "build") /\ (spc' = "get" => spc = "get")
  BY <1>1, <1>2, <1>3, <1>4, <1>5, <1>6, <1>7 DEF Next
<1> QED  BY <1>9, <1>10, <1>11, <1>12

\* After a stop flag is set, by whichever thread ran the handler, the threads
\* take at most twenty steps more: the acq thread finishes the sample it is
\* building and starts no other, the submit thread sends the sample it has, or
\* one more, and nothing clears the flag (ca_acquisition.c:222-247, 277-382,
\* 395-426).  A call of ca_select_submit counts as one step, or as one without
\* end: a submit thread that spins on a closed connection (704-729) takes no
\* further step, and the main thread never gets past its join.
THEOREM StopIsSoon == Spec => []FewStepsLeft /\ [][WindsDown]_vars
<1>1. FewStepsLeft
  BY LeftTypes DEF FewStepsLeft, StepsLeft
<1>2. Spec => [][WindsDown]_vars
  BY WindsDownStep, Invariant, PTL DEF Spec
<1> QED  BY <1>1, <1>2, PTL
=============================================================================
