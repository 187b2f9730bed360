-------------------------- MODULE ThreadPool_proofs --------------------------
(***************************************************************************)
(* Proofs about ThreadPool, for any number of threads, callers and tasks.  *)
(***************************************************************************)
EXTENDS ThreadPool, FiniteSetTheorems, TLAPS

\* No task is in two places: queued, held by one thread, done or dropped; and
\* only a thread that is about to run a task holds one.
TasksApart ==
  /\ \A t \in Threads : task[t] # NoTask =>
       /\ pc[t] \in {"announce", "run"}
       /\ task[t] \notin queue \cup done \cup dropped
  /\ \A t, u \in Threads : task[t] = task[u] /\ task[t] # NoTask => t = u
  /\ queue \cap done = {} /\ queue \cap dropped = {} /\ done \cap dropped = {}

\* How far the counters are from what they count.
NumOff  == num - Cardinality(Counted)
IdleOff == idle - Cardinality(Counted \ Busy)

\* The counters are numbers, and right unless create's race spoilt them.
CountersOK == /\ idle \in Int /\ num \in Int
              /\ Kept("num")  => NumOff = 0 /\ num <= MaxThreads
              /\ Kept("idle") => IdleOff = 0

\* While create has a counter still to write and no thread has touched it, the
\* threads it counts are the first ones that were started.
CreateOK ==
  /\ \A t \in starting : pc[t] = "gone"
  /\ starting # {} => unset = Counters
  /\ "num"  \in unset \ spoilt => Counted = InitThreads \ starting
  /\ "idle" \in unset \ spoilt => Counted \ Busy = InitThreads \ starting

\* The pool is not used before create has returned.
NotCalledBefore == Created \/ \A c \in Callers : cpc[c] = "idle"

\* The inductive invariant.
Inv == /\ PlacesOK
       /\ CountersOK /\ CreateOK /\ NotCalledBefore
       /\ WaitersCovered
       /\ TasksApart

\* No step takes a variable out of its type, the counters apart.
LEMMA PlacesStep ==
  ASSUME PlacesOK, [Next]_vars
  PROVE  PlacesOK'
<1> USE DEF PlacesOK, callers, tasks, counters, creation
<1>1. ASSUME NEW t \in Threads, Thread(t) \/ TimeUp(t) \/ SpuriousWake(t)
      PROVE  PlacesOK'
  <2> USE DEF At, Goto, Moves
  <2>1. CASE Look(t) \/ EnterWait(t) \/ TimeUp(t) \/ SpuriousWake(t)
    BY <2>1 DEF Look, EnterWait, TimeUp, SpuriousWake
  <2>2. CASE Take(t)
    BY <2>2 DEF Take, Root, Changes, Counters
  <2>3. CASE Announce(t) \/ Farewell(t)
    BY <2>3 DEF Announce, Farewell, Wake
  <2>4. CASE Run(t)
    BY <2>4 DEF Run
  <2>5. CASE Back(t) \/ Leave(t)
    BY <2>5 DEF Back, Leave, Changes, Counters
  <2>6. QED BY <1>1, <2>1, <2>2, <2>3, <2>4, <2>5 DEF Thread
<1>2. ASSUME NEW c \in Callers, Call(c) \/ SpuriousCallWake(c)
      PROVE  PlacesOK'
  <2> USE DEF CallerAt, CallerGoto, CallMoves, Begins
  <2>1. CASE AddTask(c)
    BY <2>1 DEF AddTask, NewThread, Goto
  <2>2. CASE AddFails(c)
    BY <2>2 DEF AddFails, NewThread, Goto
  <2>3. CASE Clear(c) \/ Exit(c) \/ Destroy(c)
    BY <2>3 DEF Clear, Exit, Destroy
  <2>4. CASE Broadcast(c)
    BY <2>4 DEF Broadcast, Wake
  <2>5. CASE TaskOver(c) \/ DestroyWaits(c)
    BY <2>5 DEF TaskOver, DestroyWaits, CallWaits
  <2>6. CASE TaskOverWoken(c) \/ CallTimesOut(c) \/ SpuriousCallWake(c)
    BY <2>6 DEF TaskOverWoken, CallTimesOut, SpuriousCallWake
  <2>7. QED BY <1>2, <2>1, <2>2, <2>3, <2>4, <2>5, <2>6 DEF Call
<1>3. CASE Create
  BY <1>3 DEF Create, StartThread, WriteCounter, Goto
<1>4. CASE UNCHANGED vars
  BY <1>4 DEF vars
<1>5. QED BY <1>1, <1>2, <1>3, <1>4 DEF Next

\* No step makes tasks wait beside a sleeping thread without a broadcast.
LEMMA WaitersStep ==
  ASSUME PlacesOK, WaitersCovered, [Next]_vars
  PROVE  WaitersCovered'
<1> USE DEF PlacesOK, WaitersCovered, callers, tasks, counters, creation
<1>1. ASSUME NEW t \in Threads, Thread(t) \/ TimeUp(t) \/ SpuriousWake(t)
      PROVE  WaitersCovered'
  <2> USE DEF At, Goto, Moves
  <2>1. CASE Look(t) \/ TimeUp(t) \/ SpuriousWake(t)
    BY <2>1 DEF Look, TimeUp, SpuriousWake
  <2>2. CASE EnterWait(t)
    BY <2>2 DEF EnterWait
  <2>3. CASE Take(t)
    BY <2>3 DEF Take
  <2>4. CASE Announce(t) \/ Farewell(t)
    BY <2>4 DEF Announce, Farewell, Wake
  <2>5. CASE Run(t) \/ Back(t) \/ Leave(t)
    BY <2>5 DEF Run, Back, Leave
  <2>6. QED BY <1>1, <2>1, <2>2, <2>3, <2>4, <2>5 DEF Thread
<1>2. ASSUME NEW c \in Callers, Call(c) \/ SpuriousCallWake(c)
      PROVE  WaitersCovered'
  <2> USE DEF CallerAt, CallerGoto, CallMoves, Begins
  <2>1. CASE AddTask(c)
    <3>1. CASE queue = {}
      BY <2>1, <3>1 DEF AddTask, AddWakes
    <3>2. CASE queue # {}
      <4>1. \A t \in Threads : pc'[t] = "wait" => pc[t] = "wait"
        BY <2>1 DEF AddTask, NewThread, Goto
      <4>2. \A d \in Callers : cpc[d] = "broadcast" => cpc'[d] = "broadcast"
        BY <2>1 DEF AddTask
      <4>3. QED BY <2>1, <3>2, <4>1, <4>2 DEF AddTask
    <3>3. QED BY <3>1, <3>2
  <2>2. CASE AddFails(c)
    BY <2>2 DEF AddFails, NewThread, Goto
  <2>3. CASE Clear(c) \/ Exit(c) \/ Destroy(c)
    BY <2>3 DEF Clear, Exit, Destroy
  <2>4. CASE Broadcast(c)
    BY <2>4 DEF Broadcast, Wake
  <2>5. CASE TaskOver(c) \/ DestroyWaits(c)
    BY <2>5 DEF TaskOver, DestroyWaits, CallWaits
  <2>6. CASE TaskOverWoken(c) \/ CallTimesOut(c) \/ SpuriousCallWake(c)
    BY <2>6 DEF TaskOverWoken, CallTimesOut, SpuriousCallWake
  <2>7. QED BY <1>2, <2>1, <2>2, <2>3, <2>4, <2>5, <2>6 DEF Call
<1>3. CASE Create
  BY <1>3 DEF Create, StartThread, WriteCounter, Goto
<1>4. CASE UNCHANGED vars
  BY <1>4 DEF vars
<1>5. QED BY <1>1, <1>2, <1>3, <1>4 DEF Next

\* No step brings a task to a second place.
LEMMA ApartStep ==
  ASSUME PlacesOK, CreateOK, TasksApart, [Next]_vars
  PROVE  TasksApart'
<1> USE TasksAssumption
    DEF PlacesOK, TasksApart, callers, tasks, counters, creation
<1>1. ASSUME NEW t \in Threads, Thread(t) \/ TimeUp(t) \/ SpuriousWake(t)
      PROVE  TasksApart'
  <2> USE DEF At, Goto, Moves
  <2>1. CASE Look(t) \/ EnterWait(t) \/ TimeUp(t) \/ SpuriousWake(t)
    BY <2>1 DEF Look, EnterWait, TimeUp, SpuriousWake
  <2>2. CASE Take(t)
    <3>1. task[t] = NoTask
      BY <2>2 DEF Take
    <3>2. CASE queue = {}
      BY <2>2, <3>1, <3>2 DEF Take, Root
    <3>3. CASE queue # {}
      <4>1. PICK k \in Tasks : /\ k \in queue
                               /\ task' = [task EXCEPT ![t] = k]
                               /\ queue' = queue \ {k}
        BY <2>2, <3>3 DEF Take, Root
      <4>2. QED BY <2>2, <3>1, <4>1 DEF Take
    <3>4. QED BY <3>2, <3>3
  <2>3. CASE Announce(t) \/ Farewell(t) \/ Back(t) \/ Leave(t)
    BY <2>3 DEF Announce, Farewell, Back, Leave
  <2>4. CASE Run(t)
    BY <2>4 DEF Run
  <2>5. QED BY <1>1, <2>1, <2>2, <2>3, <2>4 DEF Thread
<1>2. ASSUME NEW c \in Callers, Call(c) \/ SpuriousCallWake(c)
      PROVE  TasksApart'
  <2> USE DEF CallerAt, CallerGoto, CallMoves, Begins
  <2>1. CASE AddTask(c)
    <3>1. PICK k \in Tasks : /\ k \notin queue \cup done \cup dropped
                             /\ \A t \in Threads : task[t] # k
                             /\ queue' = queue \cup {k}
      BY <2>1 DEF AddTask
    <3>2. \A t \in Threads : pc[t] # "gone" => pc'[t] = pc[t]
      BY <2>1 DEF AddTask, NewThread, Goto
    <3>3. QED BY <2>1, <3>1, <3>2 DEF AddTask
  <2>2. CASE AddFails(c)
    BY <2>2 DEF AddFails, NewThread, Goto
  <2>3. CASE Clear(c) \/ Exit(c) \/ Destroy(c)
    BY <2>3 DEF Clear, Exit, Destroy
  <2>4. CASE Broadcast(c)
    BY <2>4 DEF Broadcast, Wake
  <2>5. CASE TaskOver(c) \/ DestroyWaits(c)
    BY <2>5 DEF TaskOver, DestroyWaits, CallWaits
  <2>6. CASE TaskOverWoken(c) \/ CallTimesOut(c) \/ SpuriousCallWake(c)
    BY <2>6 DEF TaskOverWoken, CallTimesOut, SpuriousCallWake
  <2>7. QED BY <1>2, <2>1, <2>2, <2>3, <2>4, <2>5, <2>6 DEF Call
<1>3. CASE Create
  BY <1>3 DEF Create, StartThread, WriteCounter, Goto, CreateOK
<1>4. CASE UNCHANGED vars
  BY <1>4 DEF vars
<1>5. QED BY <1>1, <1>2, <1>3, <1>4 DEF Next

\* The counters count two sets, one within the other.
LEMMA CountsOfThreads ==
  /\ IsFiniteSet(Counted) /\ IsFiniteSet(Counted \ Busy)
  /\ Cardinality(Counted) \in Nat /\ Cardinality(Counted \ Busy) \in Nat
  /\ Cardinality(Counted \ Busy) <= Cardinality(Counted)
<1>1. Counted \in SUBSET Threads /\ Counted \ Busy \in SUBSET Counted
  BY DEF Counted
<1>2. IsFiniteSet(Counted)
  BY <1>1, FS_Subset, ThreadsAssumption
<1>3. IsFiniteSet(Counted \ Busy) /\ Cardinality(Counted \ Busy) <= Cardinality(Counted)
  BY <1>1, <1>2, FS_Subset
<1>4. QED BY <1>2, <1>3, FS_CardinalityType

\* What a thread's change of counters that may not be written yet leaves true.
LEMMA ChangesKeep ==
  ASSUME NEW cs, Changes(cs)
  PROVE  /\ \A c : Kept(c)' <=> Kept(c)
         /\ \A c : c \in (unset \ spoilt)' => c \in unset \ spoilt /\ c \notin cs
         /\ starting # {} => unset' = unset
         /\ unset = {} => unset' = {}
BY DEF Changes, Kept

\* A step that leaves the counters and both sets alone.
LEMMA OffsKept ==
  ASSUME UNCHANGED counters, Counted' = Counted, Busy' = Busy
  PROVE  NumOff' = NumOff /\ IdleOff' = IdleOff
BY DEF NumOff, IdleOff, counters

\* A new thread enters both sets.
LEMMA OffsNewThread ==
  ASSUME PlacesOK, idle \in Int, num \in Int, NEW t \in Threads,
         pc[t] = "gone", NewThread(t)
  PROVE  NumOff' = NumOff /\ IdleOff' = IdleOff
<1> USE DEF PlacesOK, NewThread, Goto
<1>1. t \notin Counted
  BY DEF Counted
<1>2. Counted' = Counted \cup {t}
  BY DEF Counted
<1>3. (Counted \ Busy)' = (Counted \ Busy) \cup {t}
  BY <1>2, <1>1 DEF Busy
<1>4. /\ Cardinality(Counted \cup {t}) = Cardinality(Counted) + 1
      /\ Cardinality((Counted \ Busy) \cup {t}) = Cardinality(Counted \ Busy) + 1
  BY <1>1, FS_AddElement, CountsOfThreads
<1>5. num' = num + 1 /\ idle' = idle + 1
  OBVIOUS
<1>6. /\ Cardinality(Counted)' = Cardinality(Counted) + 1
      /\ Cardinality(Counted \ Busy)' = Cardinality(Counted \ Busy) + 1
  BY <1>2, <1>3, <1>4
<1>7. QED BY <1>5, <1>6, CountsOfThreads DEF NumOff, IdleOff

\* A thread that takes a task leaves the idle ones.
LEMMA OffsTake ==
  ASSUME PlacesOK, idle \in Int, num \in Int, NEW t \in Threads, Take(t)
  PROVE  NumOff' = NumOff /\ IdleOff' = IdleOff /\ Counted' = Counted
<1> USE DEF PlacesOK, Take, At, Goto
<1>1. t \in Counted \ Busy
  BY DEF Counted, Busy
<1>2. PICK place \in {"announce", "run"} : pc' = [pc EXCEPT ![t] = place]
  OBVIOUS
<1>3. Counted' = Counted
  BY <1>1, <1>2 DEF Counted
<1>4. Busy' = Busy \cup {t}
  BY <1>2 DEF Busy
<1>5. (Counted \ Busy)' = (Counted \ Busy) \ {t}
  BY <1>3, <1>4
<1>6. Cardinality((Counted \ Busy) \ {t}) = Cardinality(Counted \ Busy) - 1
  BY <1>1, FS_RemoveElement, CountsOfThreads
<1>7. /\ Cardinality(Counted)' = Cardinality(Counted)
      /\ Cardinality(Counted \ Busy)' = Cardinality(Counted \ Busy) - 1
  BY <1>3, <1>5, <1>6
<1>8. QED BY <1>3, <1>7, CountsOfThreads DEF NumOff, IdleOff

\* A thread that comes back is idle again.
LEMMA OffsBack ==
  ASSUME PlacesOK, idle \in Int, num \in Int, NEW t \in Threads, Back(t)
  PROVE  NumOff' = NumOff /\ IdleOff' = IdleOff /\ Counted' = Counted
<1> USE DEF PlacesOK, Back, At, Goto
<1>1. t \in Counted /\ t \in Busy
  BY DEF Counted, Busy
<1>2. Counted' = Counted
  BY DEF Counted
<1>3. Busy' = Busy \ {t}
  BY DEF Busy
<1>4. (Counted \ Busy)' = (Counted \ Busy) \cup {t}
  BY <1>1, <1>2, <1>3
<1>5. Cardinality((Counted \ Busy) \cup {t}) = Cardinality(Counted \ Busy) + 1
  BY <1>1, FS_AddElement, CountsOfThreads
<1>6. /\ Cardinality(Counted)' = Cardinality(Counted)
      /\ Cardinality(Counted \ Busy)' = Cardinality(Counted \ Busy) + 1
  BY <1>2, <1>4, <1>5
<1>7. QED BY <1>2, <1>6, CountsOfThreads DEF NumOff, IdleOff

\* A thread that leaves is counted by neither.
LEMMA OffsLeave ==
  ASSUME PlacesOK, idle \in Int, num \in Int, NEW t \in Threads, Leave(t)
  PROVE  NumOff' = NumOff /\ IdleOff' = IdleOff /\ num' = num - 1
<1> USE DEF PlacesOK, Leave, At, Goto, LeaveCounts
<1>1. t \in Counted /\ t \notin Busy
  BY DEF Counted, Busy
<1>2. PICK place \in {"farewell", "gone"} : pc' = [pc EXCEPT ![t] = place]
  OBVIOUS
<1>3. Counted' = Counted \ {t}
  BY <1>2 DEF Counted
<1>4. Busy' = Busy
  BY <1>1, <1>2 DEF Busy
<1>5. (Counted \ Busy)' = (Counted \ Busy) \ {t}
  BY <1>3, <1>4
<1>6. /\ Cardinality(Counted \ {t}) = Cardinality(Counted) - 1
      /\ Cardinality((Counted \ Busy) \ {t}) = Cardinality(Counted \ Busy) - 1
  BY <1>1, FS_RemoveElement, CountsOfThreads
<1>7. /\ Cardinality(Counted)' = Cardinality(Counted) - 1
      /\ Cardinality(Counted \ Busy)' = Cardinality(Counted \ Busy) - 1
  BY <1>3, <1>5, <1>6
<1>8. QED BY <1>7, CountsOfThreads DEF NumOff, IdleOff

\* What every step outside create does to the counters: it keeps them as far
\* from what they count as they were.
Followed ==
  /\ idle' \in Int /\ num' \in Int
  /\ NumOff' = NumOff /\ IdleOff' = IdleOff
  /\ \A c : Kept(c)' <=> Kept(c)
  /\ num' <= num \/ num' <= MaxThreads
  /\ Created => Created'

\* A step that only moves threads and callers.
LEMMA FollowedIdly ==
  ASSUME idle \in Int, num \in Int, UNCHANGED counters, UNCHANGED creation,
         Counted' = Counted, Busy' = Busy
  PROVE  Followed
<1>1. \A c : Kept(c)' <=> Kept(c)
  BY DEF Kept, creation
<1>2. QED BY <1>1, OffsKept DEF Followed, Created, counters, creation

LEMMA ThreadFollowed ==
  ASSUME PlacesOK, CountersOK, CreateOK, NEW t \in Threads,
         Thread(t) \/ TimeUp(t) \/ SpuriousWake(t)
  PROVE  Followed /\ CreateOK'
<1> USE DEF PlacesOK, At, Goto, CountersOK
<1>0. /\ pc[t] # "gone" /\ pc \in [Threads -> {pc[u] : u \in Threads}]
      /\ \E p : pc' = [pc EXCEPT ![t] = p]
      /\ starting' = starting
  <2>1. CASE Look(t) \/ EnterWait(t) \/ TimeUp(t) \/ SpuriousWake(t)
    BY <2>1 DEF Look, EnterWait, TimeUp, SpuriousWake, Moves, creation
  <2>2. CASE Take(t) \/ Back(t) \/ Leave(t)
    BY <2>2 DEF Take, Back, Leave
  <2>3. CASE Announce(t) \/ Run(t) \/ Farewell(t)
    BY <2>3 DEF Announce, Run, Farewell, creation
  <2>4. QED BY <2>1, <2>2, <2>3 DEF Thread
<1>00. \A u \in starting : pc'[u] = "gone"
  BY <1>0, SizesAssumption DEF CreateOK
<1>1. CASE Look(t) \/ EnterWait(t) \/ TimeUp(t) \/ SpuriousWake(t)
           \/ Announce(t) \/ Run(t) \/ Farewell(t)
  <2>1. UNCHANGED counters /\ UNCHANGED creation
    BY <1>1 DEF Look, EnterWait, TimeUp, SpuriousWake, Moves, Announce, Run, Farewell
  <2>2. Counted' = Counted /\ Busy' = Busy
    BY <1>1 DEF Look, EnterWait, TimeUp, SpuriousWake, Moves, Announce, Run,
                Farewell, Counted, Busy
  <2>3. Followed
    BY <2>1, <2>2, FollowedIdly
  <2>4. CreateOK'
    BY <1>00, <2>1, <2>2 DEF CreateOK, creation
  <2>5. QED BY <2>3, <2>4
<1>2. CASE Take(t)
  <2>1. Changes({"idle"}) /\ idle' = idle - 1 /\ num' = num
    BY <1>2 DEF Take
  <2>2. NumOff' = NumOff /\ IdleOff' = IdleOff /\ Counted' = Counted
    BY <1>2, OffsTake
  <2>3. Followed
    BY <1>0, <2>1, <2>2, ChangesKeep DEF Followed, Created
  <2>4. "idle" \notin (unset \ spoilt)'
    BY <2>1, ChangesKeep
  <2>5. "num" \in (unset \ spoilt)' => "num" \in unset \ spoilt
    BY <2>1, ChangesKeep
  <2>6. starting # {} => unset' = Counters
    BY <2>1, ChangesKeep DEF CreateOK
  <2>7. CreateOK'
    BY <1>0, <1>00, <2>2, <2>4, <2>5, <2>6 DEF CreateOK
  <2>8. QED BY <2>3, <2>7
<1>3. CASE Back(t)
  <2>1. Changes({"idle"}) /\ idle' = idle + 1 /\ num' = num
    BY <1>3 DEF Back
  <2>2. NumOff' = NumOff /\ IdleOff' = IdleOff /\ Counted' = Counted
    BY <1>3, OffsBack
  <2>3. Followed
    BY <1>0, <2>1, <2>2, ChangesKeep DEF Followed, Created
  <2>4. "idle" \notin (unset \ spoilt)'
    BY <2>1, ChangesKeep
  <2>5. "num" \in (unset \ spoilt)' => "num" \in unset \ spoilt
    BY <2>1, ChangesKeep
  <2>6. starting # {} => unset' = Counters
    BY <2>1, ChangesKeep DEF CreateOK
  <2>7. CreateOK'
    BY <1>0, <1>00, <2>2, <2>4, <2>5, <2>6 DEF CreateOK
  <2>8. QED BY <2>3, <2>7
<1>4. CASE Leave(t)
  <2>1. Changes(Counters) /\ idle' = idle - 1 /\ num' = num - 1
    BY <1>4 DEF Leave, LeaveCounts
  <2>2. Followed
    <3>1. NumOff' = NumOff /\ IdleOff' = IdleOff
      BY <1>4, OffsLeave
    <3>2. QED BY <1>0, <2>1, <3>1, ChangesKeep DEF Followed, Created
  <2>3. "num" \notin (unset \ spoilt)' /\ "idle" \notin (unset \ spoilt)'
    BY <2>1, ChangesKeep DEF Counters
  <2>4. starting # {} => unset' = Counters
    BY <2>1, ChangesKeep DEF CreateOK
  <2>5. CreateOK'
    BY <1>0, <1>00, <2>3, <2>4 DEF CreateOK
  <2>6. QED BY <2>2, <2>5
<1>5. QED BY <1>1, <1>2, <1>3, <1>4 DEF Thread

LEMMA CallFollowed ==
  ASSUME PlacesOK, CountersOK, CreateOK, NEW c \in Callers,
         Call(c) \/ SpuriousCallWake(c)
  PROVE  Followed /\ CreateOK'
<1> USE DEF PlacesOK, CountersOK
<1>0. ASSUME UNCHANGED counters, UNCHANGED creation, Counted' = Counted, Busy' = Busy,
             \A t \in starting : pc'[t] = pc[t]
      PROVE  Followed /\ CreateOK'
  BY <1>0, FollowedIdly DEF CreateOK, creation
<1>1. CASE (AddTask(c) \/ AddFails(c)) /\ AddCreates
  <2>1. Created /\ UNCHANGED creation
    BY <1>1 DEF AddTask, AddFails, Begins
  <2>2. PICK t \in Threads : pc[t] = "gone" /\ NewThread(t)
    BY <1>1 DEF AddTask, AddFails
  <2>3. NumOff' = NumOff /\ IdleOff' = IdleOff
    BY <2>2, OffsNewThread
  <2>4. /\ idle' \in Int /\ num' \in Int
        /\ num' <= MaxThreads
    BY <1>1, <2>2, SizesAssumption DEF NewThread, AddCreates
  <2>5. QED BY <2>1, <2>3, <2>4 DEF Followed, Created, CreateOK, Kept, creation
<1>2. CASE AddTask(c) /\ ~AddCreates
  BY <1>2, <1>0 DEF AddTask, Counted, Busy
<1>3. CASE Clear(c) \/ Exit(c) \/ Destroy(c)
  BY <1>3, <1>0 DEF Clear, Exit, Destroy, Counted, Busy
<1>4. CASE Broadcast(c)
  <2>1. \A t \in Threads : \/ pc'[t] = pc[t]
                           \/ pc[t] = "wait" /\ pc'[t] = "woken"
    <3>1. pc' = [x \in Threads |-> IF pc[x] = "wait" THEN "woken" ELSE pc[x]]
      BY <1>4 DEF Broadcast, Wake
    <3>2. QED BY <3>1
  <2>2. Counted' = Counted /\ Busy' = Busy
    BY <2>1 DEF Counted, Busy
  <2>3. \A t \in starting : pc'[t] = pc[t]
    BY <2>1, SizesAssumption DEF CreateOK
  <2>4. QED BY <1>4, <1>0, <2>2, <2>3 DEF Broadcast
<1>5. CASE TaskOver(c) \/ DestroyWaits(c)
  BY <1>5, <1>0 DEF TaskOver, DestroyWaits, CallWaits, Counted, Busy
<1>6. CASE TaskOverWoken(c) \/ CallTimesOut(c) \/ SpuriousCallWake(c)
  BY <1>6, <1>0
     DEF TaskOverWoken, CallTimesOut, SpuriousCallWake, CallMoves, Counted, Busy
<1>7. AddFails(c) => AddCreates
  BY DEF AddFails
<1>8. QED BY <1>1, <1>2, <1>3, <1>4, <1>5, <1>6, <1>7 DEF Call

\* Create: the first threads start before any counter is written, and what it
\* writes is their number, which is right while no thread has touched it.
LEMMA CreateStep ==
  ASSUME PlacesOK, CountersOK, CreateOK, Create
  PROVE  CountersOK' /\ CreateOK'
<1> USE DEF PlacesOK, CountersOK
<1>1. ASSUME NEW t \in Threads, StartThread(t)
      PROVE  CountersOK' /\ CreateOK'
  <2> USE DEF StartThread, Goto
  <2>1. unset' = Counters /\ unset = Counters
    BY <1>1 DEF CreateOK
  <2>2. CountersOK'
    BY <1>1, <2>1 DEF Kept, Counters, counters
  <2>3. /\ pc' = [pc EXCEPT ![t] = "loop"] /\ pc[t] = "gone"
        /\ t \in InitThreads /\ t \in starting /\ starting' = starting \ {t}
        /\ spoilt' = spoilt
    BY <1>1 DEF CreateOK
  <2>4. Counted' = Counted \cup {t} /\ Busy' = Busy /\ t \notin Busy
    BY <2>3 DEF Counted, Busy
  <2>5. \A u \in starting' : pc'[u] = "gone"
    BY <2>3, SizesAssumption DEF CreateOK
  <2>6. QED BY <2>1, <2>2, <2>3, <2>4, <2>5 DEF CreateOK
<1>2. ASSUME NEW c \in Counters, WriteCounter(c)
      PROVE  CountersOK' /\ CreateOK'
  <2> USE DEF WriteCounter
  <2>1. Cardinality(InitThreads) \in Int /\ Cardinality(InitThreads) <= MaxThreads
    BY SizesAssumption
  <2>2. starting = {} /\ starting' = {} /\ pc' = pc /\ spoilt' = spoilt
        /\ c \in unset /\ unset' = unset \ {c}
    BY <1>2
  <2>3. Counted' = Counted /\ Busy' = Busy
    BY <2>2 DEF Counted, Busy
  <2>4. CreateOK'
    BY <2>2, <2>3 DEF CreateOK
  <2>5. CASE c = "num"
    <3>1. num' = Cardinality(InitThreads) /\ idle' = idle
      BY <1>2, <2>5
    <3>2. Kept("num")' => NumOff' = 0
      BY <2>2, <2>3, <2>5, <3>1, <2>1 DEF Kept, CreateOK, NumOff
    <3>3. Kept("idle")' => IdleOff' = 0
      BY <2>2, <2>3, <2>5, <3>1 DEF Kept, IdleOff
    <3>4. QED BY <2>1, <2>4, <3>1, <3>2, <3>3
  <2>6. CASE c = "idle"
    <3>1. idle' = Cardinality(InitThreads) /\ num' = num
      BY <1>2, <2>6
    <3>2. Kept("idle")' => IdleOff' = 0
      <4>1. Kept("idle")' => "idle" \in unset \ spoilt
        BY <2>2, <2>6 DEF Kept
      <4>2. Kept("idle")' => Counted \ Busy = InitThreads
        BY <4>1, <2>2 DEF CreateOK
      <4>3. Kept("idle")' => Cardinality(Counted \ Busy)' = Cardinality(InitThreads)
        BY <4>2, <2>3
      <4>4. QED BY <2>1, <3>1, <4>3 DEF IdleOff
    <3>3. Kept("num")' => NumOff' = 0 /\ num' <= MaxThreads
      BY <2>2, <2>3, <2>6, <3>1 DEF Kept, NumOff
    <3>4. QED BY <2>1, <2>4, <3>1, <3>2, <3>3
  <2>7. QED BY <1>2, <2>5, <2>6 DEF Counters
<1>3. QED BY <1>1, <1>2 DEF Create

\* Every step that create has no part in.
LEMMA StepFollowed ==
  ASSUME PlacesOK, CountersOK, CreateOK, [Next]_vars, ~Create
  PROVE  Followed /\ CreateOK'
<1>1. CASE UNCHANGED vars
  BY <1>1, FollowedIdly DEF vars, creation, Counted, Busy, CountersOK, CreateOK
<1>2. QED BY <1>1, ThreadFollowed, CallFollowed DEF Next

LEMMA NotCalledStep ==
  ASSUME PlacesOK, CountersOK, CreateOK, NotCalledBefore, [Next]_vars
  PROVE  NotCalledBefore'
<1> USE DEF NotCalledBefore
<1>1. CASE Create
  BY <1>1 DEF Create, StartThread, WriteCounter, Created, callers
<1>2. CASE ~Create /\ Created
  BY <1>2, StepFollowed DEF Followed
<1>3. CASE ~Create /\ ~Created
  <2>1. \A c \in Callers : cpc[c] = "idle"
    BY <1>3
  <2>2. ASSUME NEW c \in Callers, Call(c) \/ SpuriousCallWake(c)
        PROVE  FALSE
    BY <1>3, <2>1, <2>2
       DEF Call, SpuriousCallWake, AddTask, AddFails, Clear, Exit, Broadcast,
           TaskOver, TaskOverWoken, DestroyWaits, Destroy, CallTimesOut,
           CallWaits, CallMoves, Begins, CallerAt
  <2>3. ASSUME NEW t \in Threads, Thread(t) \/ TimeUp(t) \/ SpuriousWake(t)
        PROVE  \A c \in Callers : cpc'[c] = "idle"
    <3>1. CASE Announce(t) \/ Farewell(t)
      BY <2>1, <3>1 DEF Announce, Farewell, Wake, PlacesOK
    <3>2. cpc' = cpc \/ Announce(t) \/ Farewell(t)
      BY <2>3 DEF Thread, Look, EnterWait, TimeUp, SpuriousWake, Moves, Take,
                  Run, Back, Leave, callers
    <3>3. QED BY <2>1, <3>1, <3>2
  <2>4. CASE UNCHANGED vars
    BY <2>1, <2>4 DEF vars, callers
  <2>5. QED BY <1>3, <2>2, <2>3, <2>4 DEF Next
<1>4. QED BY <1>1, <1>2, <1>3

LEMMA CountersStep ==
  ASSUME PlacesOK, CountersOK, CreateOK, [Next]_vars
  PROVE  CountersOK' /\ CreateOK'
<1>1. CASE Create
  BY <1>1, CreateStep
<1>2. CASE ~Create
  <2>1. Followed /\ CreateOK'
    BY <1>2, StepFollowed
  <2>2. MaxThreads \in Int
    BY SizesAssumption
  <2>3. QED BY <2>1, <2>2 DEF Followed, CountersOK
<1>3. QED BY <1>1, <1>2

LEMMA InitInv == Init => Inv
<1> SUFFICES ASSUME Init PROVE Inv
  OBVIOUS
<1> USE DEF Init
<1>1. PlacesOK
  BY DEF PlacesOK
<1>2. Counted = {}
  BY DEF Counted
<1>3. CountersOK /\ CreateOK
  BY <1>2, SizesAssumption DEF CountersOK, CreateOK, Kept, Counters
<1>4. WaitersCovered /\ TasksApart /\ NotCalledBefore
  BY DEF WaitersCovered, TasksApart, NotCalledBefore
<1>5. QED BY <1>1, <1>3, <1>4 DEF Inv

\* The invariant is inductive.
LEMMA StepInv == Inv /\ [Next]_vars => Inv'
BY PlacesStep, CountersStep, NotCalledStep, WaitersStep, ApartStep DEF Inv

LEMMA Invariant == Spec => []Inv
BY InitInv, StepInv, PTL DEF Spec

LEMMA CountersRight == ASSUME CountersOK PROVE CountersMatch
BY CountsOfThreads DEF CountersOK, CountersMatch, NumOff, IdleOff

\* The counters of ca_threadpool.c, signed there, stay between 0 and
\* threads_max, threads_idle never above threads_num, unless a thread changed
\* them before ca_threadpool_create wrote them (ca_threadpool.c:143-149); and
\* every other variable keeps its type.
THEOREM PoolTypeCorrect == Spec => []TypeOK
<1>1. Inv => TypeOK
  BY CountersRight, CountsOfThreads, SizesAssumption
     DEF Inv, CountersOK, CountersMatch, TypeOK
<1>2. QED BY Invariant, <1>1, PTL

\* threads_num and threads_idle are the numbers of the threads that have not
\* left and of those that run nothing, what add_task and destroy decide by,
\* unless a thread changed them before ca_threadpool_create wrote them.
THEOREM CountersTrue == Spec => []CountersMatch
<1>1. Inv => CountersMatch
  BY CountersRight DEF Inv
<1>2. QED BY Invariant, <1>1, PTL

\* Once ca_threadpool_create has returned, no step brings a counter nearer to
\* or farther from what it counts: what the race of create has spoilt is never
\* repaired, and nothing else spoils it.
THEOREM CountersFollow ==
  Spec => [][Created => Created' /\ NumOff' = NumOff /\ IdleOff' = IdleOff]_vars
<1>1. Inv /\ [Next]_vars
        => [Created => Created' /\ NumOff' = NumOff /\ IdleOff' = IdleOff]_vars
  <2>1. Created => ~Create
    BY DEF Created, Create, StartThread, WriteCounter
  <2>2. QED BY <2>1, StepFollowed DEF Inv, Followed
<1>2. QED BY <1>1, Invariant, PTL DEF Spec

\* A broadcast for each insertion into an empty queue is enough: no thread
\* sleeps through tasks unless a broadcast is under way.
THEOREM NoLostWakeup == Spec => []WaitersCovered
<1>1. Inv => WaitersCovered
  BY DEF Inv
<1>2. QED BY Invariant, <1>1, PTL

-----------------------------------------------------------------------------
(***************************************************************************)
(* The promise to those who add tasks.                                     *)
(***************************************************************************)
\* Where a task stands, case by case: the cases exclude one another.
LEMMA StandingIs ==
  ASSUME PlacesOK, TasksApart, NEW k \in Tasks
  PROVE  /\ (Standing[k] = "waiting") <=> (k \in queue)
         /\ (Standing[k] = "done") <=> (k \in done)
         /\ (Standing[k] = "dropped") <=> (k \in dropped)
         /\ (Standing[k] = "running") <=> \E t \in Threads : task[t] = k
         /\ Standing[k] \in {"waiting", "done", "dropped", "running", "new"}
<1> USE TasksAssumption DEF PlacesOK, TasksApart
<1>1. CASE k \in queue
  BY <1>1 DEF Standing
<1>2. CASE k \in done
  BY <1>2 DEF Standing
<1>3. CASE k \in dropped
  BY <1>3 DEF Standing
<1>4. CASE \E t \in Threads : task[t] = k
  BY <1>4 DEF Standing
<1>5. CASE k \notin queue \cup done \cup dropped /\ ~ \E t \in Threads : task[t] = k
  BY <1>5 DEF Standing
<1>6. QED BY <1>1, <1>2, <1>3, <1>4, <1>5

\* What every step does to the tasks is a step of the board.
LEMMA BoardStep ==
  ASSUME PlacesOK, TasksApart, PlacesOK', TasksApart', [Next]_vars
  PROVE  [Board!BoardNext]_Standing
<1> USE DEF Board!BoardNext, Board!Moves
<1>0. ASSUME UNCHANGED <<task, tasks>>
      PROVE  Standing' = Standing
  BY <1>0 DEF Standing, tasks
<1>1. ASSUME NEW k \in Tasks, NEW to, Standing'[k] = to,
             \A j \in Tasks \ {k} : Standing'[j] = Standing[j]
      PROVE  Standing' = [Standing EXCEPT ![k] = to]
  <2>1. /\ Standing = [j \in Tasks |-> Standing[j]]
        /\ Standing' = [j \in Tasks |-> Standing'[j]]
    BY DEF Standing
  <2>2. QED BY <1>1, <2>1
<1>2. ASSUME NEW t \in Threads, Thread(t) \/ TimeUp(t) \/ SpuriousWake(t)
      PROVE  [Board!BoardNext]_Standing
  <2> USE DEF At, Goto, Moves
  <2>1. CASE Look(t) \/ EnterWait(t) \/ TimeUp(t) \/ SpuriousWake(t)
    BY <2>1, <1>0 DEF Look, EnterWait, TimeUp, SpuriousWake
  <2>2. CASE Take(t)
    <3>1. task[t] = NoTask
      BY <2>2 DEF Take, TasksApart, PlacesOK
    <3>2. ASSUME NEW k \in Tasks, Root(k), task' = [task EXCEPT ![t] = k],
                 queue' = queue \ {k}
          PROVE  Board!Start(k)
      <4>1. Standing[k] = "waiting" /\ Standing'[k] = "running"
        <5>1. task'[t] = k
          BY <3>2 DEF PlacesOK
        <5>2. QED BY <3>2, <5>1, StandingIs DEF Root, Standing, TasksApart, PlacesOK
      <4>2. \A j \in Tasks \ {k} : Standing'[j] = Standing[j]
        <5>1. TAKE j \in Tasks \ {k}
        <5>2. \A u \in Threads : task'[u] = j <=> task[u] = j
          BY <3>1, <3>2, TasksAssumption DEF PlacesOK
        <5>3. QED BY <2>2, <3>2, <5>2 DEF Take, Standing
      <4>3. \A j \in Board!Waiting : Priority[k] <= Priority[j]
        BY <3>2, StandingIs DEF Root, Board!Waiting
      <4>4. QED BY <1>1, <4>1, <4>2, <4>3 DEF Board!Start
    <3>3. CASE queue = {}
      BY <2>2, <3>3, <1>0 DEF Take, Root, tasks
    <3>4. QED BY <2>2, <3>2, <3>3 DEF Take
  <2>3. CASE Announce(t) \/ Back(t) \/ Leave(t) \/ Farewell(t)
    BY <2>3, <1>0 DEF Announce, Back, Leave, Farewell
  <2>4. CASE Run(t)
    <3>1. CASE task[t] = NoTask
      <4>1. task' = task
        BY <2>4, <3>1 DEF Run, PlacesOK
      <4>2. done' = done
        BY <2>4, <3>1 DEF Run
      <4>3. QED BY <2>4, <4>1, <4>2, <1>0 DEF Run, tasks
    <3>2. CASE task[t] # NoTask
      <4> DEFINE k == task[t]
      <4>1. k \in Tasks /\ done' = done \cup {k}
        BY <2>4, <3>2 DEF Run, PlacesOK
      <4>2. Standing[k] = "running"
        BY <4>1, StandingIs
      <4>3. k \in done'
        BY <4>1
      <4>4. k \notin queue'
        BY <4>3 DEF TasksApart
      <4>5. Standing'[k] = "done"
        BY <4>1, <4>3, <4>4, TasksAssumption DEF Standing, TasksApart
      <4>6. \A j \in Tasks \ {k} : Standing'[j] = Standing[j]
        <5>1. TAKE j \in Tasks \ {k}
        <5>2. \A u \in Threads : task'[u] = j <=> task[u] = j
          BY <2>4, TasksAssumption DEF Run, PlacesOK
        <5>3. QED BY <2>4, <4>1, <5>2 DEF Run, Standing
      <4>7. QED BY <1>1, <4>1, <4>2, <4>5, <4>6
    <3>3. QED BY <3>1, <3>2
  <2>5. QED BY <1>2, <2>1, <2>2, <2>3, <2>4 DEF Thread
<1>3. ASSUME NEW c \in Callers, Call(c) \/ SpuriousCallWake(c)
      PROVE  [Board!BoardNext]_Standing
  <2> USE DEF CallerAt, CallerGoto, CallMoves, Begins
  <2>1. CASE AddTask(c)
    <3>1. PICK k \in Tasks : /\ k \notin queue \cup done \cup dropped
                             /\ ~ \E t \in Threads : task[t] = k
                             /\ queue' = queue \cup {k}
      BY <2>1 DEF AddTask
    <3>2. UNCHANGED <<task, done, dropped>>
      BY <2>1 DEF AddTask
    <3>3. Standing[k] = "new"
      BY <3>1, StandingIs
    <3>4. Standing'[k] = "waiting"
      BY <3>1, <3>2 DEF Standing
    <3>5. \A j \in Tasks \ {k} : Standing'[j] = Standing[j]
      BY <3>1, <3>2 DEF Standing
    <3>6. QED BY <1>1, <3>3, <3>4, <3>5
  <2>2. CASE Clear(c) \/ Destroy(c)
    <3>1. /\ queue' = {} /\ dropped' = dropped \cup queue
          /\ UNCHANGED <<task, done>>
      BY <2>2 DEF Clear, Destroy
    <3>2. \A k \in Tasks : k \in Board!Waiting <=> k \in queue
      BY StandingIs DEF Board!Waiting
    <3>3. ASSUME NEW k \in Tasks
          PROVE  Standing'[k] = IF k \in Board!Waiting THEN "dropped" ELSE Standing[k]
      <4>1. CASE k \in queue
        BY <3>1, <3>2, <4>1, TasksAssumption DEF Standing, TasksApart, PlacesOK
      <4>2. CASE k \notin queue
        BY <3>1, <3>2, <4>2 DEF Standing
      <4>3. QED BY <4>1, <4>2
    <3>4. Board!Drop
      <4>1. Standing' = [k \in Tasks |-> Standing'[k]]
        BY DEF Standing
      <4>2. QED BY <3>3, <4>1 DEF Board!Drop
    <3>5. QED BY <3>4
  <2>3. CASE AddFails(c) \/ Exit(c) \/ Broadcast(c)
    BY <2>3, <1>0 DEF AddFails, Exit, Broadcast
  <2>4. CASE TaskOver(c) \/ DestroyWaits(c)
    BY <2>4, <1>0 DEF TaskOver, DestroyWaits, CallWaits
  <2>5. CASE TaskOverWoken(c) \/ CallTimesOut(c) \/ SpuriousCallWake(c)
    BY <2>5, <1>0 DEF TaskOverWoken, CallTimesOut, SpuriousCallWake
  <2>6. QED BY <1>3, <2>1, <2>2, <2>3, <2>4, <2>5 DEF Call
<1>4. CASE Create
  BY <1>4, <1>0 DEF Create, StartThread, WriteCounter
<1>5. CASE UNCHANGED vars
  BY <1>5, <1>0 DEF vars
<1>6. QED BY <1>2, <1>3, <1>4, <1>5 DEF Next

\* Whatever the threads, the wake-ups and the time-outs do, a task that was
\* accepted is run at most once, the most urgent first, or is dropped before
\* it was started (ca_thread_loop, ca_threadpool_add_task).
THEOREM BoardImplemented == Spec => BoardSpec
<1>1. Init => Board!BoardInit
  <2> SUFFICES ASSUME Init PROVE Board!BoardInit
    OBVIOUS
  <2>1. \A t \in Threads : task[t] \notin Tasks
    BY TasksAssumption DEF Init
  <2>2. QED BY <2>1 DEF Init, Board!BoardInit, Standing
<1>2. Inv /\ Inv' /\ [Next]_vars => [Board!BoardNext]_Standing
  BY BoardStep DEF Inv
<1>3. QED BY <1>1, <1>2, Invariant, PTL DEF Spec, BoardSpec, Board!BoardSpec
-----------------------------------------------------------------------------
(***************************************************************************)
(* The end of the pool.                                                    *)
(***************************************************************************)
\* Somebody blocked in ca_threadpool_destroy can still be woken: a thread is
\* counted, or has counted itself out and has yet to broadcast.  Not so when
\* create's race has spoilt threads_num.
DestroyCovered ==
  ~freed /\ Kept("num") /\ (\E c \in Callers : cpc[c] = "destroy_wait") =>
    exit /\ \E t \in Threads : pc[t] # "gone"

LEMMA SomebodyCounted ==
  ASSUME CountersMatch, Kept("num"), num # 0
  PROVE  \E t \in Threads : pc[t] # "gone"
<1>1. CASE Counted = {}
  BY <1>1, FS_EmptySet DEF CountersMatch
<1>2. CASE Counted # {}
  BY <1>2 DEF Counted
<1> QED  BY <1>1, <1>2

LEMMA DestroyCoveredStep ==
  ASSUME PlacesOK, CountersOK, CreateOK, NotCalledBefore, CountersOK',
         DestroyCovered, [Next]_vars
  PROVE  DestroyCovered'
<1> USE DEF PlacesOK, DestroyCovered, callers, tasks, counters, creation
<1>0. ~Create => (Kept("num")' <=> Kept("num"))
  BY StepFollowed DEF Followed
<1>1. ASSUME NEW t \in Threads, ~Create, Thread(t) \/ TimeUp(t) \/ SpuriousWake(t)
      PROVE  DestroyCovered'
  <2> USE DEF At, Goto, Moves
  <2>1. CASE Look(t) \/ EnterWait(t) \/ TimeUp(t) \/ SpuriousWake(t)
    BY <1>0, <1>1, <2>1 DEF Look, EnterWait, TimeUp, SpuriousWake
  <2>2. CASE Take(t) \/ Run(t) \/ Back(t)
    BY <1>0, <1>1, <2>2 DEF Take, Run, Back
  <2>3. CASE Announce(t)
    BY <1>0, <1>1, <2>3 DEF Announce, Wake
  <2>4. CASE Leave(t)
    <3>1. CASE num' = 0
      BY <1>0, <1>1, <2>4, <3>1 DEF Leave, Last
    <3>2. CASE num' # 0 /\ Kept("num")'
      <4>1. Counted' # {}
        BY <3>2, FS_EmptySet DEF CountersOK, NumOff
      <4>2. \E u \in Threads : pc'[u] # "gone"
        BY <4>1 DEF Counted
      <4> QED  BY <1>0, <1>1, <2>4, <4>2 DEF Leave
    <3> QED  BY <3>1, <3>2
  <2>5. CASE Farewell(t)
    BY <1>0, <1>1, <2>5 DEF Farewell, Wake
  <2> QED  BY <1>1, <2>1, <2>2, <2>3, <2>4, <2>5 DEF Thread
<1>2. ASSUME NEW c \in Callers, ~Create, Call(c) \/ SpuriousCallWake(c)
      PROVE  DestroyCovered'
  <2> USE DEF CallerAt, CallerGoto, CallMoves, Begins
  <2>1. CASE AddTask(c) \/ AddFails(c)
    BY <1>0, <1>2, <2>1 DEF AddTask, AddFails, Destroying
  <2>2. CASE Clear(c) \/ Exit(c) \/ Destroy(c)
    BY <1>0, <1>2, <2>2 DEF Clear, Exit, Destroy
  <2>3. CASE Broadcast(c)
    BY <1>0, <1>2, <2>3 DEF Broadcast, Wake
  <2>4. CASE TaskOver(c)
    BY <1>0, <1>2, <2>4 DEF TaskOver, CallWaits
  <2>5. CASE DestroyWaits(c)
    <3>1. exit' /\ num # 0 /\ pc' = pc
      BY <2>5 DEF DestroyWaits, CallWaits
    <3>2. Kept("num") => \E t \in Threads : pc[t] # "gone"
      BY <3>1, SomebodyCounted, CountersRight
    <3> QED  BY <1>0, <1>2, <3>1, <3>2
  <2>6. CASE TaskOverWoken(c) \/ CallTimesOut(c) \/ SpuriousCallWake(c)
    <3>1. /\ UNCHANGED <<pc, exit, freed>>
          /\ \A d \in Callers : cpc'[d] = "destroy_wait" => cpc[d] = "destroy_wait"
      BY <2>6 DEF TaskOverWoken, CallTimesOut, SpuriousCallWake
    <3> QED  BY <1>0, <1>2, <3>1
  <2> QED  BY <1>2, <2>1, <2>2, <2>3, <2>4, <2>5, <2>6 DEF Call
<1>3. CASE Create
  BY <1>3 DEF Create, StartThread, WriteCounter, NotCalledBefore, Created
<1>4. CASE UNCHANGED vars
  BY <1>4 DEF vars, Kept
<1> QED  BY <1>1, <1>2, <1>3, <1>4 DEF Next

\* The wake-up of a blocked ca_threadpool_destroy is never lost: between its
\* look at threads_num and the broadcast of the last thread there is always a
\* thread to come (ca_threadpool.c:78-88, 254-280), unless a thread changed
\* threads_num before ca_threadpool_create wrote it.
THEOREM DestroyIsWoken == Spec => []DestroyCovered
<1>1. Init => DestroyCovered
  BY DEF Init, DestroyCovered
<1>2. Inv /\ Inv' /\ DestroyCovered /\ [Next]_vars => DestroyCovered'
  BY DestroyCoveredStep DEF Inv
<1> QED  BY <1>1, <1>2, Invariant, PTL DEF Spec

\* The steps a thread can still take once the pool is told to exit.
Left(place) == CASE place = "enter"                       -> 7
                 [] place = "announce"                    -> 6
                 [] place = "run"                         -> 5
                 [] place = "back"                        -> 4
                 [] place \in {"loop", "wait"}            -> 3
                 [] place \in {"leave", "woken", "late"}  -> 2
                 [] place = "farewell"                    -> 1
                 [] OTHER                                 -> 0

\* While exit is set: it stays set; every step of a thread brings it nearer to
\* its end, no other step takes it back, and none that has not yet gone for a
\* task goes for one; only a thread that is created has its way before it.
ExitHeeded ==
  exit =>
    /\ exit'
    /\ \A t \in Threads :
         /\ Thread(t) => Left(pc'[t]) < Left(pc[t])
         /\ Left(pc'[t]) <= Left(pc[t]) \/ (pc[t] = "gone" /\ pc'[t] = "loop")
         /\ pc'[t] \in {"enter", "announce"} => pc[t] \in {"enter", "announce"}

LEMMA ThreadsDecline ==
  ASSUME PlacesOK, exit, NEW t \in Threads, Thread(t) \/ TimeUp(t) \/ SpuriousWake(t)
  PROVE  /\ exit' = exit
         /\ Left(pc'[t]) < Left(pc[t])
         /\ pc'[t] \in {"enter", "announce"} => pc[t] = "enter"
         /\ \A u \in Threads \ {t} : pc'[u] = pc[u]
<1> USE DEF PlacesOK, At, Goto, Moves, tasks
<1>1. exit' = exit /\ \A u \in Threads \ {t} : pc'[u] = pc[u]
  BY DEF Thread, Look, EnterWait, TimeUp, SpuriousWake, Take, Announce, Run,
     Back, Leave, Farewell
<1>2. CASE Look(t) \/ EnterWait(t) \/ TimeUp(t) \/ SpuriousWake(t)
  <2>1. \/ pc[t] = "loop" /\ pc'[t] = "leave"
        \/ pc[t] = "enter" /\ pc'[t] = "wait"
        \/ pc[t] = "wait" /\ pc'[t] \in {"woken", "late"}
    BY <1>2 DEF Look, EnterWait, TimeUp, SpuriousWake
  <2> QED  BY <1>1, <2>1 DEF Left
<1>3. CASE Take(t)
  <2>1. pc[t] = "enter" /\ pc'[t] \in {"announce", "run"}
    BY <1>3 DEF Take
  <2> QED  BY <1>1, <2>1 DEF Left
<1>4. CASE Announce(t) \/ Run(t) \/ Back(t)
  <2>1. \/ pc[t] = "announce" /\ pc'[t] = "run"
        \/ pc[t] = "run" /\ pc'[t] = "back"
        \/ pc[t] = "back" /\ pc'[t] = "loop"
    BY <1>4 DEF Announce, Run, Back
  <2> QED  BY <1>1, <2>1 DEF Left
<1>5. CASE Leave(t) \/ Farewell(t)
  <2>1. \/ pc[t] \in {"leave", "late", "woken"} /\ pc'[t] \in {"farewell", "gone"}
        \/ pc[t] = "farewell" /\ pc'[t] = "gone"
    BY <1>5 DEF Leave, Farewell
  <2> QED  BY <1>1, <2>1 DEF Left
<1> QED  BY <1>2, <1>3, <1>4, <1>5 DEF Thread

LEMMA CallersDecline ==
  ASSUME PlacesOK, exit, NEW c \in Callers, Call(c) \/ SpuriousCallWake(c)
  PROVE  /\ exit'
         /\ \A t \in Threads : \/ pc'[t] = pc[t]
                               \/ pc[t] = "gone" /\ pc'[t] = "loop"
                               \/ pc[t] = "wait" /\ pc'[t] = "woken"
<1> USE DEF PlacesOK, CallerAt, CallerGoto, CallMoves, Begins
<1>1. CASE AddTask(c) \/ AddFails(c)
  BY <1>1 DEF AddTask, AddFails, NewThread, Goto
<1>2. CASE Clear(c) \/ Exit(c) \/ Destroy(c)
  BY <1>2 DEF Clear, Exit, Destroy
<1>3. CASE Broadcast(c)
  BY <1>3 DEF Broadcast, Wake
<1>4. CASE TaskOver(c) \/ DestroyWaits(c)
  BY <1>4 DEF TaskOver, DestroyWaits, CallWaits
<1>5. CASE TaskOverWoken(c) \/ CallTimesOut(c) \/ SpuriousCallWake(c)
  BY <1>5 DEF TaskOverWoken, CallTimesOut, SpuriousCallWake
<1> QED  BY <1>1, <1>2, <1>3, <1>4, <1>5 DEF Call

LEMMA ExitHeededStep == PlacesOK /\ CreateOK /\ [Next]_vars => ExitHeeded
<1> SUFFICES ASSUME PlacesOK, CreateOK, [Next]_vars, exit
             PROVE  /\ exit'
                    /\ \A t \in Threads :
                         /\ Thread(t) => Left(pc'[t]) < Left(pc[t])
                         /\ \/ Left(pc'[t]) <= Left(pc[t])
                            \/ pc[t] = "gone" /\ pc'[t] = "loop"
                         /\ pc'[t] \in {"enter", "announce"} =>
                              pc[t] \in {"enter", "announce"}
  BY DEF ExitHeeded
<1>0. \A p : Left(p) \in Int /\ Left(p) <= Left(p)
  BY DEF Left
<1>1. ASSUME NEW u \in Threads, Thread(u) \/ TimeUp(u) \/ SpuriousWake(u)
      PROVE  /\ exit'
             /\ \A t \in Threads :
                  /\ Left(pc'[t]) <= Left(pc[t])
                  /\ pc'[t] \in {"enter", "announce"} =>
                       pc[t] \in {"enter", "announce"}
  <2>1. /\ exit' = exit
        /\ Left(pc'[u]) < Left(pc[u])
        /\ pc'[u] \in {"enter", "announce"} => pc[u] = "enter"
        /\ \A t \in Threads \ {u} : pc'[t] = pc[t]
    BY <1>1, ThreadsDecline
  <2>2. Left(pc'[u]) <= Left(pc[u])
    BY <2>1, <1>0
  <2> QED  BY <2>1, <2>2, <1>0
<1>2. ASSUME NEW c \in Callers, Call(c) \/ SpuriousCallWake(c)
      PROVE  /\ exit'
             /\ \A t \in Threads :
                  /\ \/ Left(pc'[t]) <= Left(pc[t])
                     \/ pc[t] = "gone" /\ pc'[t] = "loop"
                  /\ pc'[t] \in {"enter", "announce"} =>
                       pc[t] \in {"enter", "announce"}
  <2>1. Left("woken") <= Left("wait")
    BY DEF Left
  <2> QED  BY <1>2, CallersDecline, <2>1, <1>0
<1>3. ASSUME Create
      PROVE  /\ exit'
             /\ \A t \in Threads : \/ pc'[t] = pc[t]
                                   \/ pc[t] = "gone" /\ pc'[t] = "loop"
  BY <1>3 DEF Create, StartThread, WriteCounter, Goto, PlacesOK, CreateOK
<1>4. ASSUME UNCHANGED vars  PROVE exit' = exit /\ pc' = pc
  BY <1>4 DEF vars
<1>5. \A t \in Threads : Thread(t) => Left(pc'[t]) < Left(pc[t])
  BY ThreadsDecline
<1> QED  BY <1>0, <1>1, <1>2, <1>3, <1>4, <1>5 DEF Next

\* Once the pool is told to exit, a thread takes at most seven steps more and
\* at most one task, which it was about to take; a thread that add_task still
\* creates takes none (ca_threadpool.c:41-88).
THEOREM ExitIsHeeded == Spec => [][ExitHeeded]_vars
<1>1. Inv => PlacesOK /\ CreateOK
  BY DEF Inv
<1> QED  BY <1>1, ExitHeededStep, Invariant, PTL DEF Spec
=============================================================================
