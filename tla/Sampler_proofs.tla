--------------------------- MODULE Sampler_proofs ---------------------------
(***************************************************************************)
(* Proofs about the samplers, for any frequencies, any time and any number *)
(* of set-backs of the clock and files that fail.                          *)
(*                                                                         *)
(* The argument about the gaps: the real time is what the clock shows and   *)
(* what it was set back by (clock + behind); it never falls.  An item says *)
(* nothing, although it was measured, only if it is due while the record   *)
(* looks fresh, and it is due only freq seconds after the last time, or    *)
(* once more because the clock was set back.  So gaps take time (Owed),    *)
(* and the record does not look fresh for longer than freq seconds and     *)
(* those the clock was set back by.  The argument about whole rounds:      *)
(* items of one frequency are due in the same rounds, the first one        *)
(* refreshes and the others find the record fresh.                         *)
(***************************************************************************)
EXTENDS Sampler, SequenceTheorems, TLAPS

TypeOK == /\ sampler \in Samplers
          /\ freq \in [Items -> Freqs]
          /\ accessed \in [Items -> Nat]
          /\ field \in [Items -> Int] /\ DOMAIN since = Items
          /\ updated \in Nat /\ seen \in BOOLEAN
          /\ clock \in Nat /\ now \in Nat /\ time1 \in Nat
          /\ pc \in {"sleep", "item", "open", "read", "report"}
          /\ idx \in 1..(Len(Order) + 1)
          /\ pc \in {"open", "read", "report"} => idx <= Len(Order)
          /\ opened \in BOOLEAN
          /\ nsteps \in Nat /\ nfails \in Nat
          /\ fed \subseteq Items
          /\ gaps \in [Items -> Nat] /\ behind \in Nat

\* What the last refresh left has been reported.
Emptied(i) == field[i] < 0 /\ i \in fed /\ opened

\* The real time before which the item cannot have had its gaps.
Owed(i) == updated + (gaps[i] - nsteps) * freq[i]

Ready(i) == \/ now - accessed[i] >= freq[i]
            \/ now < accessed[i]
            \/ accessed[i] = 0

Healing(i) ==
  /\ clock + behind >= Owed(i) - freq[i]
  /\ clock < accessed[i] \/ accessed[i] = 0 => (clock + behind >= Owed(i))
  /\ gaps[i] > 0 /\ accessed[i] # 0 => (accessed[i] + behind >= Owed(i) - freq[i])
  /\ pc # "sleep" /\ Ready(i)
       => /\ now + behind >= Owed(i)
          /\ clock + behind >= Owed(i)
          /\ now > clock => (clock + behind >= Owed(i) + freq[i])

Few(i) == gaps[i] * freq[i] < behind + (2 + nsteps) * freq[i]

Clocks == /\ clock >= Start
          /\ pc # "sleep" => now >= Start
          /\ updated <= clock + behind
          /\ time1 <= clock + behind

\* The item at whose turn the thread is.
Turn == /\ pc \in {"open", "read", "report"} => Interval >= freq[Item]
        /\ pc = "report" /\ Emptied(Item) => (now < updated + freq[Item])

OwedFacts == \A i \in Items :
  /\ Owed(i) \in Int
  /\ gaps[i] = 0 => (Owed(i) <= updated)
  /\ Few(i) <=> (Owed(i) < updated + behind + freq[i] + freq[i])

GapsBounded == \A i \in Items :
                 freq[i] > 0 => Few(i) /\ (Emptied(i) => Healing(i))

\* All items have the frequency f, and neither clock nor files made trouble.
Even(f) == /\ nsteps = 0 /\ nfails = 0
           /\ \A i \in Items : freq[i] = f

Places  == 1..Len(Order)
Last(k) == accessed[Order[k]]

Sleeps == \A i \in Items : /\ field[i] = NoValue /\ accessed[i] <= clock
                           /\ \A j \in Items : accessed[i] = accessed[j]

\* A round in which no item is due, and one in which all are.
Idle(f) == /\ pc = "item"
           /\ \A i \in Items : /\ field[i] = NoValue
                               /\ now >= accessed[i] /\ now - accessed[i] < f
                               /\ \A j \in Items : accessed[i] = accessed[j]

Busy(f) == /\ \A k \in idx..Len(Order) : now - Last(k) >= f
           /\ \A k \in 1..(idx - 1) : Last(k) = now /\ field[Order[k]] = NoValue
           /\ pc \in {"open", "read"} => idx = 1
           /\ pc = "read" => time1 >= now
           /\ pc = "report" \/ idx > 1 => updated + f > now \/ Len(Order) = 1

InRound(f) ==
  /\ now <= clock /\ time1 <= clock
  /\ IF pc = "sleep" THEN Sleeps /\ idx = 1 ELSE Idle(f) \/ Busy(f)

Rounds == \A f \in Freqs \ {0} : Even(f) => InRound(f)
-----------------------------------------------------------------------------
USE FreqsAssumption, MeasuresAssumption, BoundsAssumption

\* Every sampler has its items once each.
LEMMA OrderFacts ==
  ASSUME sampler \in Samplers
  PROVE  /\ Len(Order) \in Nat \ {0} /\ DOMAIN Order = Places
         /\ Items = {Order[k] : k \in Places}
         /\ \A k, l \in Places : Order[k] = Order[l] => k = l
         /\ sampler \in {"disk_io", "disk_urate"} => Len(Order) = 1
<1>1. sampler \in {"memory", "cpu", "loadavg", "disk_io", "disk_urate",
                   "net_flow"}
  BY DEF Samplers, ItemsOf
<1>2. CASE sampler = "memory"
  BY <1>2 DEF Order, ItemsOf, Items, Places
<1>3. CASE sampler = "cpu"
  BY <1>3 DEF Order, ItemsOf, Items, Places
<1>4. CASE sampler = "loadavg"
  BY <1>4 DEF Order, ItemsOf, Items, Places
<1>5. CASE sampler = "disk_io"
  BY <1>5 DEF Order, ItemsOf, Items, Places
<1>6. CASE sampler = "disk_urate"
  BY <1>6 DEF Order, ItemsOf, Items, Places
<1>7. CASE sampler = "net_flow"
  BY <1>7 DEF Order, ItemsOf, Items, Places
<1> QED  BY <1>1, <1>2, <1>3, <1>4, <1>5, <1>6, <1>7

\* What the refreshes have in common: the fields stay numbers, the items that
\* have one are fed, and the record's time is one that was read during it.
LEMMA Refreshed ==
  ASSUME TypeOK, Refresh
  PROVE  /\ pc = "read" /\ pc' = "report" /\ opened' = TRUE /\ time1' = 0
         /\ UNCHANGED <<config, accessed, idx, now, world, gaps, behind>>
         /\ seen' \in BOOLEAN
         /\ field' \in [Items -> Int] /\ DOMAIN since' = Items
         /\ fed' = {i \in Items : field'[i] >= 0}
         /\ \/ updated' \in {clock, time1}
            \/ updated' = updated /\ Len(Order) = 1
<1>1. ASSUME NEW S \in SUBSET Items, NEW m \in [S -> Measures],
             Measure(m, Newest) \/ Measure(m, Largest)
      PROVE  field' \in [Items -> Int] /\ DOMAIN since' = Items
  <2>1. \A i \in S : m[i] \in Int
    OBVIOUS
  <2>2. \A i \in Items : field[i] \in Int
    BY DEF TypeOK
  <2>3. CASE Measure(m, Newest)
    BY <2>1, <2>2, <2>3 DEF Measure, Newest
  <2>4. CASE Measure(m, Largest)
    BY <2>1, <2>2, <2>4 DEF Measure, Largest
  <2> QED  BY <1>1, <2>3, <2>4
<1>2. ASSUME NEW t, Read(t)
      PROVE  /\ pc = "read" /\ pc' = "report" /\ updated' = t
             /\ opened' = TRUE /\ time1' = 0
             /\ UNCHANGED <<config, accessed, idx, now, world, gaps, behind>>
             /\ fed' = {i \in Items : field'[i] >= 0}
  BY <1>2 DEF Read, Goto
<1>3. Values \subseteq Measures
  BY DEF Values
<1>4. CASE ReadMemory
  <2>1. Order = <<"mem", "swap_urate">>
    BY <1>4 DEF ReadMemory, Order, ItemsOf
  <2>2. {"mem"} \in SUBSET Items
    BY <2>1 DEF Items
  <2>3. PICK S \in SUBSET Items : \E m \in [S -> Values] : Measure(m, Newest)
    BY <1>4, <2>2 DEF ReadMemory, MeasuresMemory
  <2>4. PICK m \in [S -> Measures] : Measure(m, Newest)
    BY <1>3, <2>3
  <2> QED  BY <1>1, <1>2, <1>4, <2>4 DEF ReadMemory, TypeOK
<1>5. CASE ReadCpu
  <2>1. Order = <<"cpu_user", "procs_running">>
    BY <1>5 DEF ReadCpu, Order, ItemsOf
  <2>2. {"procs_running"} \in SUBSET Items
    BY <2>1 DEF Items
  <2>3. PICK S \in SUBSET Items : \E m \in [S -> Measures] : Measure(m, Newest)
    BY <1>5, <2>2 DEF ReadCpu
  <2> QED  BY <1>1, <1>2, <1>5, <2>3 DEF ReadCpu, TypeOK
<1>6. CASE ReadLoadavg
  <2>1. PICK m \in [Items -> Measures] : Measure(m, Newest)
    BY <1>3, <1>6 DEF ReadLoadavg
  <2> QED  BY <1>1, <1>2, <1>6, <2>1 DEF ReadLoadavg, TypeOK
<1>7. CASE ReadDiskUrate
  <2>1. sampler = "disk_urate" /\ UNCHANGED seen /\ Len(Order) = 1
    BY <1>7, OrderFacts DEF ReadDiskUrate, TypeOK
  <2>2. CASE UNCHANGED <<field, since>> /\ Read(updated)
    BY <1>2, <2>1, <2>2 DEF TypeOK
  <2>3. CASE \E S \in {{}, Items} : \E m \in [S -> Values] :
               Measure(m, Largest) /\ Read(clock)
    <3>1. PICK S \in SUBSET Items : \E m \in [S -> Values] :
                 Measure(m, Largest) /\ Read(clock)
      BY <2>3
    <3>2. PICK m \in [S -> Measures] : Measure(m, Largest) /\ Read(clock)
      BY <1>3, <3>1
    <3> QED  BY <1>1, <1>2, <2>1, <3>2 DEF TypeOK
  <2> QED  BY <1>7, <2>2, <2>3 DEF ReadDiskUrate
<1>8. CASE ReadDiskIo
  <2>1. PICK S \in SUBSET Items : \E m \in [S -> Measures] : Measure(m, Largest)
    BY <1>8 DEF ReadDiskIo
  <2> QED  BY <1>1, <1>2, <1>8, <2>1 DEF ReadDiskIo, TypeOK
<1>9. CASE ReadNetFlow
  <2>1. ASSUME NEW f \in [Items -> Int], NEW a \in Eths
        PROVE  Flow(f, a) \in [Items -> Int]
    <3>1. a.avg \in Int
      BY DEF Eths
    <3>2. \A i \in Items : Share(a, i) \in Int
      BY <3>1 DEF Share
    <3>3. \A i \in Items : (IF f[i] < 0 THEN 0 ELSE f[i]) + Share(a, i) \in Int
      BY <3>2
    <3> QED  BY <3>3 DEF Flow
  <2>2. Read(time1) /\ seen' = TRUE
    BY <1>9 DEF ReadNetFlow
  <2>3. CASE UNCHANGED <<field, since>>
    BY <1>2, <2>2, <2>3 DEF TypeOK
  <2>4. CASE \E a \in Eths :
               /\ field' = Flow(field, a)
               /\ since' = [i \in Items |-> Append(since[i], Share(a, i))]
    <3>1. field \in [Items -> Int]
      BY DEF TypeOK
    <3>2. field' \in [Items -> Int] /\ DOMAIN since' = Items
      BY <2>1, <2>4, <3>1
    <3> QED  BY <1>2, <2>2, <3>2
  <2>5. CASE \E a, b \in Eths :
               /\ field' = Flow(Flow(field, a), b)
               /\ since' = [i \in Items |->
                              since[i] \o <<Share(a, i), Share(b, i)>>]
    <3>1. PICK a, b \in Eths :
            /\ field' = Flow(Flow(field, a), b)
            /\ since' = [i \in Items |->
                           since[i] \o <<Share(a, i), Share(b, i)>>]
      BY <2>5
    <3>2. Flow(field, a) \in [Items -> Int]
      BY <2>1 DEF TypeOK
    <3>3. field' \in [Items -> Int] /\ DOMAIN since' = Items
      BY <2>1, <3>1, <3>2
    <3> QED  BY <1>2, <2>2, <3>3
  <2> QED  BY <1>9, <2>3, <2>4, <2>5 DEF ReadNetFlow
<1> QED
  BY <1>4, <1>5, <1>6, <1>7, <1>8, <1>9 DEF Refresh

\* Every handler prints and resets the field of its own item.
LEMMA GetReports == Get => Report(Item, Item, Item)
BY DEF Get, Report, GetMemory, GetSwapUrate, GetCpuUser, GetProcsRunning,
   GetLoadavg1, GetLoadavg5, GetDiskUrate, GetDiskIo, GetIntranetFlow,
   GetExtranetFlow, GetTotalFlow

\* The configuration never changes.
LEMMA ConfigStep ==
  ASSUME TypeOK, [Next]_vars
  PROVE  /\ sampler' = sampler /\ freq' = freq
         /\ Order' = Order /\ Items' = Items
<1>1. UNCHANGED config
  <2>1. CASE Refresh
    BY <2>1, Refreshed
  <2>2. CASE Get
    BY <2>2, GetReports DEF Report
  <2> QED
    BY <2>1, <2>2
    DEF Next, Tick, SetBack, Round, Due, Skip, RoundEnds, Open, vars
<1> QED
  BY <1>1 DEF config, Order, Items

LEMMA OrderIn ==
  ASSUME TypeOK
  PROVE  /\ Len(Order) \in Nat /\ Len(Order) >= 1
         /\ idx <= Len(Order) => Item \in Items
BY OrderFacts DEF TypeOK, Item, Places
-----------------------------------------------------------------------------
LEMMA TypeStep == TypeOK /\ [Next]_vars => TypeOK'
<1> SUFFICES ASSUME TypeOK, [Next]_vars  PROVE TypeOK'
  OBVIOUS
<1> USE ConfigStep DEF config, record, locals, world, history
<1>1. CASE Tick
  BY <1>1, OrderIn DEF Tick, TypeOK
<1>2. CASE SetBack
  BY <1>2, OrderIn DEF SetBack, TypeOK
<1>3. CASE Round
  BY <1>3, OrderIn DEF Round, Goto, TypeOK
<1>4. CASE RoundEnds
  BY <1>4, OrderIn DEF RoundEnds, Goto, TypeOK
<1>5. CASE Due
  BY <1>5, OrderIn DEF Due, Goto, TypeOK
<1>6. CASE Skip
  BY <1>6, OrderIn DEF Skip, Goto, TypeOK
<1>7. CASE Open
  <2>1. /\ pc = "open" /\ pc' \in {"read", "report"}
        /\ UNCHANGED <<accessed, field, seen, idx, now, clock, nsteps, since, fed,
                       gaps, behind>>
    BY <1>7 DEF Open
  <2>2. updated' \in Nat /\ time1' \in Nat
    BY <1>7 DEF Open, TypeOK
  <2>3. opened' = opened \/ opened' = FALSE
    BY <1>7 DEF Open
  <2>4. opened' \in BOOLEAN
    BY <2>3, Zenon DEF TypeOK
  <2>5. nfails' \in Nat
    BY <1>7 DEF Open, TypeOK
  <2> QED  BY <2>1, <2>2, <2>4, <2>5 DEF TypeOK
<1>8. CASE Refresh
  <2>1. /\ pc = "read" /\ pc' = "report" /\ opened' = TRUE /\ time1' = 0
        /\ UNCHANGED <<accessed, idx, now, clock, nsteps, nfails, gaps, behind>>
        /\ seen' \in BOOLEAN /\ fed' \subseteq Items
        /\ field' \in [Items -> Int] /\ DOMAIN since' = Items
    BY <1>8, Refreshed
  <2>2. updated' \in Nat
    BY <1>8, Refreshed DEF TypeOK
  <2> QED  BY <2>1, <2>2 DEF TypeOK
<1>9. CASE Get
  <2>1. /\ Report(Item, Item, Item)
        /\ pc = "report" /\ Item \in Items
    BY <1>9, GetReports, OrderIn DEF Report, Goto, TypeOK
  <2>2. PICK n \in {0, gaps[Item], gaps[Item] + 1} :
          gaps' = [gaps EXCEPT ![Item] = n]
    BY <2>1 DEF Report
  <2>3. gaps' \in [Items -> Nat]
    <3>1. gaps \in [Items -> Nat] /\ gaps[Item] \in Nat
      BY <2>1 DEF TypeOK
    <3>2. n \in Nat
      BY <2>2, <3>1
    <3> HIDE ConfigStep
    <3> QED  BY <2>2, <3>1, <3>2
  <2>4. /\ accessed' \in [Items -> Nat] /\ field' \in [Items -> Int]
        /\ DOMAIN since' = Items
    BY <2>1 DEF Report, NoValue, TypeOK
  <2> QED
    BY <2>1, <2>3, <2>4, OrderIn DEF Report, Goto, TypeOK
<1>10. CASE UNCHANGED vars
  BY <1>10 DEF vars, TypeOK
<1> QED
  BY <1>1, <1>2, <1>3, <1>4, <1>5, <1>6, <1>7, <1>8, <1>9, <1>10 DEF Next

LEMMA ClocksStep == TypeOK /\ TypeOK' /\ Clocks /\ [Next]_vars => Clocks'
<1> SUFFICES ASSUME TypeOK, TypeOK', Clocks, [Next]_vars  PROVE Clocks'
  OBVIOUS
<1> USE DEF config, record, locals, world, history
<1>1. CASE Tick
  BY <1>1 DEF Tick, Clocks, TypeOK
<1>2. CASE SetBack
  BY <1>2 DEF SetBack, Clocks, TypeOK
<1>3. CASE Round \/ Due \/ Skip \/ RoundEnds
  BY <1>3 DEF Round, Due, Skip, RoundEnds, Goto, Clocks, TypeOK
<1>4. CASE Open
  BY <1>4 DEF Open, Clocks, TypeOK
<1>5. CASE Refresh
  <2>1. /\ UNCHANGED <<clock, behind, now>> /\ time1' = 0 /\ pc = "read"
        /\ updated' \in {clock, time1, updated}
    BY <1>5, Refreshed
  <2>2. clock \in Nat /\ behind \in Nat
    BY DEF TypeOK
  <2> HIDE DEF config, record, locals, world, history
  <2> QED  BY <2>1, <2>2 DEF Clocks
<1>6. CASE Get
  BY <1>6, GetReports DEF Report, Goto, Clocks, TypeOK
<1>7. CASE UNCHANGED vars
  BY <1>7 DEF vars, Clocks
<1> QED
  BY <1>1, <1>2, <1>3, <1>4, <1>5, <1>6, <1>7 DEF Next

LEMMA TurnStep == TypeOK /\ TypeOK' /\ Turn /\ [Next]_vars => Turn'
<1> SUFFICES ASSUME TypeOK, TypeOK', Turn, [Next]_vars  PROVE Turn'
  OBVIOUS
<1> USE ConfigStep DEF config, record, locals, world, history
<1>1. CASE Tick \/ SetBack
  BY <1>1 DEF Tick, SetBack, Turn, Interval, Item, Emptied
<1>2. CASE Round \/ Skip \/ RoundEnds
  BY <1>2 DEF Round, Skip, RoundEnds, Goto, Turn
<1>3. CASE Due
  <2>1. /\ UNCHANGED <<accessed, field, fed, opened, updated, idx, now>>
        /\ Interval >= freq[Item]
        /\ \/ pc' = "open"
           \/ pc' = "report" /\ ~(updated + freq[Item] <= now)
    BY <1>3 DEF Due, Goto, Stale
  <2>2. /\ Item' = Item /\ Interval' = Interval
        /\ freq[Item] \in Nat
    BY <1>3, <2>1, OrderIn DEF Item, Interval, TypeOK, Due
  <2>3. updated \in Nat /\ now \in Nat /\ freq' = freq
    BY DEF TypeOK
  <2> HIDE ConfigStep
  <2> QED  BY <2>1, <2>2, <2>3 DEF Turn
<1>4. CASE Open
  BY <1>4 DEF Open, Turn, Interval, Item, Emptied
<1>5. CASE Refresh
  <2>1. /\ UNCHANGED <<accessed, idx, now>>
        /\ pc = "read" /\ pc' = "report"
        /\ fed' = {i \in Items : field'[i] >= 0}
    BY <1>5, Refreshed
  <2>2. ~Emptied(Item)'
    <3>1. \A i \in Items : field'[i] \in Int
      BY ConfigStep DEF TypeOK
    <3> QED  BY <2>1, <3>1 DEF Emptied
  <2> QED  BY <2>1, <2>2 DEF Turn, Interval, Item
<1>6. CASE Get
  BY <1>6, GetReports DEF Report, Goto, Turn
<1>7. CASE UNCHANGED vars
  BY <1>7 DEF vars, Turn, Interval, Item, Emptied
<1> QED
  BY <1>1, <1>2, <1>3, <1>4, <1>5, <1>6, <1>7 DEF Next
-----------------------------------------------------------------------------
\* What has to be known of multiplication.
LEMMA Multiples ==
  ASSUME NEW k \in Int, NEW f \in Nat
  PROVE  /\ k * f \in Int
         /\ (k + 1) * f = k * f + f
         /\ (k - 1) * f = k * f - f
         /\ k <= 0 => k * f <= 0
         /\ k >= 0 => k * f >= 0
         /\ k > 0 /\ f > 0 => k * f > 0
OBVIOUS

\* Few, said of what is owed.
LEMMA FewIsOwed == TypeOK => OwedFacts
<1> SUFFICES ASSUME TypeOK, NEW i \in Items
             PROVE  /\ Owed(i) \in Int
                    /\ gaps[i] = 0 => (Owed(i) <= updated)
                    /\ Few(i) <=> (Owed(i) < updated + behind + freq[i] + freq[i])
  BY DEF OwedFacts
<1>1. /\ freq[i] \in Nat /\ accessed[i] \in Nat /\ gaps[i] \in Nat
      /\ nsteps \in Nat /\ behind \in Nat /\ updated \in Nat
  BY DEF TypeOK
<1> DEFINE f == freq[i]
           g == gaps[i]
<1>2. (g - nsteps) * f \in Int /\ (g <= nsteps => (g - nsteps) * f <= 0)
  BY <1>1, Multiples
<1>3. (2 + nsteps) * f = nsteps * f + f + f
  <2>1. nsteps \in Int /\ nsteps + 1 \in Int /\ 2 + nsteps = (nsteps + 1) + 1
    BY <1>1
  <2>2. (nsteps + 1) * f = nsteps * f + f
    BY <1>1, <2>1, Multiples
  <2>3. ((nsteps + 1) + 1) * f = (nsteps + 1) * f + f
    BY <1>1, <2>1, Multiples
  <2> QED  BY <2>1, <2>2, <2>3
<1>4. (g - nsteps) * f = g * f - nsteps * f
  BY <1>1
<1>5. g * f \in Int /\ nsteps * f \in Int
  BY <1>1, Multiples
<1> QED
  BY <1>1, <1>2, <1>3, <1>4, <1>5 DEF Owed, Few

\* The item's own numbers stay, and real time does not fall.
LEMMA GapsKept ==
  ASSUME TypeOK, TypeOK', GapsBounded, [Next]_vars, NEW i \in Items,
         freq[i] > 0,
         UNCHANGED <<accessed[i], field[i], updated, fed, gaps[i], opened,
                     nsteps, behind>>,
         clock' >= clock,
         pc' # "sleep" => pc # "sleep" /\ now' = now
  PROVE  Few(i)' /\ (Emptied(i)' => Healing(i)')
<1> USE ConfigStep
<1>1. Owed(i)' = Owed(i) /\ Owed(i) \in Int
  BY FewIsOwed DEF Owed, OwedFacts
<1>2. Few(i) /\ (Emptied(i) => Healing(i))
  BY DEF GapsBounded
<1>3. Few(i)'
  BY <1>2 DEF Few
<1>4. ASSUME Emptied(i)'  PROVE Healing(i)'
  <2>1. Healing(i)
    BY <1>2, <1>4 DEF Emptied
  <2>2. /\ clock \in Nat /\ clock' \in Nat /\ behind \in Nat
        /\ freq[i] \in Nat /\ accessed[i] \in Nat /\ now \in Nat
    BY DEF TypeOK
  <2>3. Ready(i)' /\ pc' # "sleep" => Ready(i)
    BY DEF Ready
  <2> QED
    BY <1>1, <2>1, <2>2, <2>3 DEF Healing
<1> QED  BY <1>3, <1>4

LEMMA GapsStep ==
  TypeOK /\ TypeOK' /\ Clocks /\ Turn /\ GapsBounded /\ [Next]_vars
    => GapsBounded'
<1> SUFFICES ASSUME TypeOK, TypeOK', Clocks, Turn, GapsBounded, [Next]_vars,
                    NEW i \in Items, freq[i] > 0
             PROVE  Few(i)' /\ (Emptied(i)' => Healing(i)')
  BY ConfigStep DEF GapsBounded
<1> USE DEF config, record, locals, world, history
<1>a. /\ Owed(i) \in Int
      /\ freq[i] \in Nat /\ accessed[i] \in Nat /\ gaps[i] \in Nat
      /\ clock \in Nat /\ behind \in Nat /\ now \in Nat /\ updated \in Nat
      /\ nsteps \in Nat /\ Start \in Nat
      /\ freq' = freq /\ Items' = Items
  BY FewIsOwed, ConfigStep DEF OwedFacts, TypeOK
<1>c. OwedFacts'
  <2>1. TypeOK'
    OBVIOUS
  <2> QED  BY <2>1, FewIsOwed, PTL
<1>b. Few(i) /\ (Emptied(i) => Healing(i))
  BY DEF GapsBounded
<1>1. CASE Tick
  BY <1>1, <1>a, GapsKept DEF Tick
<1>2. CASE SetBack
  <2>1. /\ UNCHANGED <<accessed, field, updated, fed, gaps, opened, pc, now>>
        /\ nsteps' = nsteps + 1
        /\ clock' + behind' = clock + behind
        /\ behind' >= behind /\ clock' \in Nat /\ behind' \in Nat
    BY <1>2, <1>a DEF SetBack, TypeOK
  <2>2. Owed(i)' = Owed(i) - freq[i]
    <3>1. (gaps[i] - (nsteps + 1)) * freq[i]
            = (gaps[i] - nsteps) * freq[i] - freq[i]
      <4>1. gaps[i] - nsteps \in Int /\ gaps[i] - (nsteps + 1) = (gaps[i] - nsteps) - 1
        BY <1>a
      <4> QED  BY <1>a, <4>1, Multiples
    <3>2. (gaps[i] - nsteps) * freq[i] \in Int
      BY <1>a, Multiples
    <3> QED  BY <1>a, <2>1, <3>1, <3>2 DEF Owed
  <2>3. Few(i)'
    <3>1. (2 + nsteps') * freq[i] = (2 + nsteps) * freq[i] + freq[i]
      BY <1>a, <2>1, Multiples
    <3>2. (2 + nsteps) * freq[i] \in Int /\ gaps[i] * freq[i] \in Int
      BY <1>a, Multiples
    <3> QED  BY <1>a, <1>b, <2>1, <3>1, <3>2 DEF Few
  <2>4. ASSUME Emptied(i)'  PROVE Healing(i)'
    <3>1. Healing(i)
      BY <1>b, <2>1, <2>4 DEF Emptied
    <3>2. Ready(i)' <=> Ready(i)
      BY <1>a, <2>1 DEF Ready
    <3>3. UNCHANGED <<gaps[i], accessed[i], freq[i], pc, now>>
      BY <1>a, <2>1
    <3>4. (clock + behind >= Owed(i))' <=> (clock + behind >= Owed(i) - freq[i])
      BY <1>a, <2>1, <2>2
    <3>5. pc # "sleep" /\ Ready(i)
            => /\ now' + behind' >= Owed(i)'
               /\ clock' + behind' >= Owed(i)' + freq[i]'
      <4>1. pc # "sleep" /\ Ready(i)
              => now + behind >= Owed(i) /\ clock + behind >= Owed(i)
        BY <3>1 DEF Healing
      <4>2. now' = now /\ freq'[i] = freq[i]
        BY <1>a, <2>1
      <4>3. now + behind >= Owed(i) => now + behind' >= Owed(i) - freq[i]
        BY <1>a, <2>1
      <4>4. Owed(i)' + freq'[i] = Owed(i)
        BY <1>a, <2>2, <4>2
      <4>5. clock' + behind' = clock + behind
        BY <2>1
      <4> QED  BY <2>2, <4>1, <4>2, <4>3, <4>4, <4>5
    <3> QED  BY <1>a, <2>1, <2>2, <3>1, <3>2, <3>3, <3>4, <3>5 DEF Healing
  <2> QED  BY <2>3, <2>4
<1>3. CASE Round
  <2>1. /\ UNCHANGED <<accessed, field, updated, fed, gaps, opened, clock,
                       behind, nsteps>>
        /\ now' = clock
    BY <1>3 DEF Round
  <2>2. Owed(i)' = Owed(i) /\ Few(i)' /\ (Emptied(i)' <=> Emptied(i))
    BY <1>a, <1>b, <2>1 DEF Owed, Few, Emptied
  <2>3. ASSUME Emptied(i)  PROVE Healing(i)'
    <3>1. Healing(i)
      BY <1>b, <2>3
    <3>2. CASE gaps[i] = 0
      <4>1. Owed(i) <= updated /\ updated <= clock + behind
        BY <3>2, FewIsOwed DEF OwedFacts, Clocks
      <4> QED  BY <1>a, <2>1, <2>2, <3>1, <3>2, <4>1 DEF Healing
    <3>3. CASE gaps[i] > 0
      <4>1. Ready(i)' => (clock + behind >= Owed(i))
        BY <1>a, <2>1, <3>1, <3>3 DEF Healing, Ready
      <4> QED  BY <1>a, <2>1, <2>2, <3>1, <4>1 DEF Healing
    <3> QED  BY <1>a, <3>2, <3>3
  <2> QED  BY <2>2, <2>3
<1>4. CASE RoundEnds
  BY <1>4, <1>a, GapsKept DEF RoundEnds, Goto
<1>5. CASE Due
  BY <1>5, <1>a, GapsKept DEF Due, Goto
<1>6. CASE Skip
  <2>1. /\ UNCHANGED <<field, updated, fed, gaps, opened, clock, behind,
                       nsteps, now>>
        /\ pc = "item" /\ pc' = "item" /\ Item \in Items
        /\ accessed' = IF Interval < 0 THEN [accessed EXCEPT ![Item] = 0]
                                       ELSE accessed
    BY <1>6, OrderIn DEF Skip, Goto
  <2>2. CASE accessed'[i] = accessed[i]
    BY <1>a, <2>1, <2>2, GapsKept
  <2>3. CASE accessed'[i] # accessed[i]
    <3>1. accessed'[i] = 0 /\ now < accessed[i]
      BY <1>a, <2>1, <2>3 DEF Interval, TypeOK
    <3>2. Owed(i)' = Owed(i) /\ Few(i)' /\ (Emptied(i)' <=> Emptied(i))
      BY <1>a, <1>b, <2>1 DEF Owed, Few, Emptied
    <3>3. ASSUME Emptied(i)  PROVE Healing(i)'
      <4>1. Healing(i) /\ Ready(i)
        BY <1>b, <3>1, <3>3 DEF Ready
      <4> QED  BY <1>a, <2>1, <3>1, <3>2, <4>1 DEF Healing
    <3> QED  BY <3>2, <3>3
  <2> QED  BY <2>2, <2>3
<1>7. CASE Open
  <2>1. CASE UNCHANGED <<updated, opened>>
    BY <1>7, <1>a, <2>1, GapsKept DEF Open
  <2>2. CASE opened' = FALSE
    BY <1>7, <1>a, <1>b, <2>2 DEF Open, Few, Emptied
  <2> QED  BY <1>7, <2>1, <2>2 DEF Open
<1>8. CASE Refresh
  <2>1. /\ UNCHANGED <<gaps, behind, nsteps>>
        /\ fed' = {j \in Items : field'[j] >= 0}
    BY <1>8, Refreshed
  <2>2. ~Emptied(i)'
    <3>1. field'[i] \in Int
      BY <1>a DEF TypeOK
    <3> QED  BY <2>1, <3>1 DEF Emptied
  <2> QED  BY <1>a, <1>b, <2>1, <2>2 DEF Few
<1>9. CASE Get
  <2>1. /\ pc = "report" /\ pc' = "item" /\ Item \in Items
        /\ UNCHANGED <<updated, now, clock, nsteps, behind, fed, opened>>
        /\ gaps' = [gaps EXCEPT ![Item] = IF field[Item] >= 0 THEN 0
                                          ELSE IF Excused THEN gaps[Item]
                                          ELSE gaps[Item] + 1]
        /\ field' = [field EXCEPT ![Item] = NoValue]
        /\ accessed' = [accessed EXCEPT ![Item] = now]
    BY <1>9, GetReports, OrderIn DEF Report, Goto, TypeOK
  <2>2. CASE i # Item
    <3>1. /\ gaps'[i] = gaps[i] /\ field'[i] = field[i]
          /\ accessed'[i] = accessed[i]
      BY <2>1, <2>2 DEF TypeOK
    <3> QED  BY <1>a, <2>1, <3>1, GapsKept
  <2>3. CASE i = Item
    <3>1. /\ accessed'[i] = now /\ now >= freq[i] /\ now > 0
          /\ Ready(i)
      <4>1. now >= Start /\ freq[i] \in Freqs
        BY <2>1 DEF Clocks, TypeOK
      <4> QED  BY <1>a, <2>1, <2>3, <4>1, StartAssumption DEF Turn, Interval, Ready, TypeOK
    <3>2. ~Ready(i)'
      BY <1>a, <2>1, <3>1 DEF Ready
    <3>3. CASE field[i] >= 0
      <4>1. gaps'[i] = 0
        BY <2>1, <2>3, <3>3 DEF TypeOK
      <4>2. /\ Owed(i)' \in Int /\ Owed(i)' <= updated
            /\ Few(i)' <=> Owed(i)' < updated + behind + freq[i] + freq[i]
        BY <1>a, <1>c, <2>1, <4>1 DEF OwedFacts
      <4>3. updated <= clock + behind
        BY DEF Clocks
      <4> QED  BY <1>a, <2>1, <3>1, <3>2, <4>1, <4>2, <4>3 DEF Healing
    <3>4. CASE field[i] < 0 /\ Excused
      <4>1. gaps'[i] = gaps[i] /\ ~Emptied(i)'
        BY <2>1, <2>3, <3>4 DEF Excused, Emptied, TypeOK
      <4> QED  BY <1>a, <1>b, <2>1, <4>1 DEF Few
    <3>5. CASE field[i] < 0 /\ ~Excused
      <4>1. Emptied(i) /\ gaps'[i] = gaps[i] + 1
        BY <2>1, <2>3, <3>5 DEF Excused, Emptied, TypeOK
      <4>2. Healing(i) /\ now < updated + freq[i]
        BY <1>b, <2>1, <2>3, <4>1 DEF Turn
      <4>3. Owed(i)' = Owed(i) + freq[i]
        <5>1. (gaps[i] + 1 - nsteps) * freq[i]
                = (gaps[i] - nsteps) * freq[i] + freq[i]
          <6>1. gaps[i] - nsteps \in Int /\ gaps[i] + 1 - nsteps = (gaps[i] - nsteps) + 1
            BY <1>a
          <6> QED  BY <1>a, <6>1, Multiples
        <5>2. (gaps[i] - nsteps) * freq[i] \in Int
          BY <1>a, Multiples
        <5> QED  BY <1>a, <2>1, <4>1, <5>1, <5>2 DEF Owed
      <4>4. Few(i)' <=> Owed(i)' < updated + behind + freq[i] + freq[i]
        BY <1>a, <1>c, <2>1 DEF OwedFacts
      <4> QED
        BY <1>a, <2>1, <3>1, <3>2, <4>1, <4>2, <4>3, <4>4 DEF Healing
    <3>6. field[i] >= 0 \/ field[i] < 0
      <4>1. field \in [Items -> Int]
        BY DEF TypeOK
      <4> QED  BY <4>1
    <3> QED  BY <3>3, <3>4, <3>5, <3>6
  <2> QED  BY <2>2, <2>3
<1>10. CASE UNCHANGED vars
  <2>1. UNCHANGED <<accessed, field, updated, fed, gaps, opened, nsteps,
                    behind, clock, pc, now>>
    BY <1>10 DEF vars
  <2> QED  BY <1>a, <2>1, GapsKept
<1> QED
  BY <1>1, <1>2, <1>3, <1>4, <1>5, <1>6, <1>7, <1>8, <1>9, <1>10 DEF Next
-----------------------------------------------------------------------------
LEMMA RoundsStep == TypeOK /\ TypeOK' /\ Rounds /\ [Next]_vars => Rounds'
<1> SUFFICES ASSUME TypeOK, TypeOK', Rounds, [Next]_vars,
                    NEW f \in Freqs \ {0}, Even(f)'
             PROVE  InRound(f)'
  BY DEF Rounds
<1> USE DEF config, record, locals, world, history
<1>a. /\ f \in Nat /\ f > 0
      /\ now \in Nat /\ clock \in Nat /\ time1 \in Nat /\ updated \in Nat
      /\ idx \in Nat /\ idx >= 1
  BY DEF TypeOK
<1>h. \A i \in Items : accessed[i] \in Nat /\ field[i] \in Int
  BY DEF TypeOK
<1>b. /\ \A k \in Places : Order[k] \in Items /\ Last(k) \in Nat
      /\ \A i \in Items : \E k \in Places : i = Order[k]
      /\ \A k, l \in Places : Order[k] = Order[l] => k = l
      /\ Len(Order) \in Nat /\ Places = 1..Len(Order)
  <2>1. sampler \in Samplers
    BY DEF TypeOK
  <2> QED  BY <1>h, <2>1, OrderFacts DEF Last, Places
<1>c. /\ Order' = Order /\ Items' = Items /\ freq' = freq
      /\ \A k : Last(k)' = accessed'[Order[k]]
  BY ConfigStep DEF Last
<1>d. nsteps' = 0 /\ nfails' = 0 /\ \A i \in Items : freq[i] = f
  BY <1>c DEF Even
<1>e. ~SetBack /\ ~(nfails' = nfails + 1)
  BY <1>d DEF SetBack, TypeOK
<1>g. nsteps' = nsteps /\ nfails' = nfails
  <2>1. CASE Refresh
    BY <2>1, Refreshed
  <2>2. CASE Get
    BY <2>2, GetReports DEF Report
  <2>3. CASE Open
    BY <2>3, <1>e DEF Open
  <2> QED
    BY <1>e, <2>1, <2>2, <2>3
       DEF Next, Tick, Round, Due, Skip, RoundEnds, vars
<1>f. InRound(f)
  BY <1>d, <1>g DEF Even, Rounds
<1>1. CASE Tick
  <2>1. /\ UNCHANGED <<accessed, field, updated, pc, idx, now, time1>>
        /\ clock' = clock + 1
    BY <1>1 DEF Tick
  <2>2. CASE pc = "sleep"
    BY <2>1, <2>2, <1>a, <1>c, <1>f, <1>h DEF InRound, Sleeps
  <2>3. CASE pc # "sleep"
    <3>1. Idle(f) => Idle(f)'
      BY <2>1, <1>c DEF Idle
    <3>2. Busy(f) => Busy(f)'
      BY <2>1, <1>c DEF Busy, Last
    <3> QED  BY <2>1, <2>3, <3>1, <3>2, <1>a, <1>f DEF InRound
  <2> QED  BY <2>2, <2>3
<1>2. CASE Round
  <2>1. /\ UNCHANGED <<accessed, field, updated, idx, time1, clock>>
        /\ now' = clock /\ pc = "sleep" /\ pc' = "item"
    BY <1>2 DEF Round, Goto
  <2>2. Sleeps /\ idx = 1 /\ time1 <= clock
    BY <2>1, <1>f DEF InRound
  <2>3. CASE \A i \in Items : clock - accessed[i] < f
    <3>1. \A i \in Items : /\ field[i] = NoValue /\ accessed[i] <= clock
                           /\ \A j \in Items : accessed[i] = accessed[j]
      BY <2>2 DEF Sleeps
    <3>2. \A i \in Items : accessed[i] \in Nat
      BY <1>h
    <3>3. Idle(f)'
      BY <2>1, <2>3, <3>1, <3>2, <1>a, <1>c DEF Idle
    <3> QED  BY <2>1, <2>2, <3>3, <1>a DEF InRound
  <2>4. CASE \E i \in Items : ~(clock - accessed[i] < f)
    <3>1. \A i \in Items : clock - accessed[i] >= f
      BY <2>2, <2>4, <1>a, <1>h DEF Sleeps
    <3>2. \A k \in idx'..Len(Order)' : now' - Last(k)' >= f
      BY <2>1, <2>2, <3>1, <1>b, <1>c
    <3>3. \A k \in 1..(idx' - 1) : FALSE
      BY <2>1, <2>2
    <3>4. Busy(f)'
      BY <2>1, <2>2, <3>2, <3>3, <1>a DEF Busy
    <3> QED  BY <2>1, <2>2, <3>4, <1>a DEF InRound
  <2> QED  BY <2>3, <2>4
<1>3. CASE RoundEnds
  <2>1. /\ UNCHANGED <<accessed, field, time1, clock>>
        /\ now' = 0 /\ pc = "item" /\ pc' = "sleep" /\ idx' = 1
        /\ idx > Len(Order)
    BY <1>3 DEF RoundEnds, Goto
  <2>2. now <= clock /\ time1 <= clock /\ (Idle(f) \/ Busy(f))
    BY <2>1, <1>f DEF InRound
  <2>3. CASE Idle(f)
    BY <2>1, <2>2, <2>3, <1>a, <1>c, <1>h DEF InRound, Idle, Sleeps
  <2>4. CASE Busy(f)
    <3>1. \A k \in Places : Last(k) = now /\ field[Order[k]] = NoValue
      BY <2>1, <2>4, <1>a, <1>b DEF Busy
    <3>2. ASSUME NEW i \in Items
          PROVE  accessed[i] = now /\ field[i] = NoValue
      <4>1. PICK k \in Places : i = Order[k]
        BY <1>b
      <4> QED  BY <3>1, <4>1 DEF Last
    <3> QED  BY <2>1, <2>2, <3>2, <1>a, <1>c DEF InRound, Sleeps
  <2> QED  BY <2>2, <2>3, <2>4
<1>4. CASE Due
  <2>1. /\ UNCHANGED <<accessed, field, updated, now, time1, clock, idx>>
        /\ pc = "item"
        /\ \/ pc' = "open" /\ Stale
           \/ pc' = "report" /\ ~Stale
        /\ idx <= Len(Order) /\ Interval >= freq[Item]
    BY <1>4 DEF Due, Goto
  <2>2. Item \in Items /\ freq[Item] = f /\ Item = Order[idx]
    BY <2>1, OrderIn, <1>d DEF Item
  <2>3. /\ now <= clock /\ time1 <= clock
        /\ Busy(f)
    BY <2>1, <2>2, <1>a, <1>f, <1>h DEF InRound, Idle, Interval
  <2>4. Stale <=> updated + f <= now
    BY <2>2 DEF Stale
  <2>5. pc' = "open" => idx = 1
    BY <2>1, <2>3, <2>4, <1>a, <1>b DEF Busy
  <2>6. pc' = "report" => updated + f > now
    BY <2>1, <2>4, <1>a
  <2>7. Busy(f)'
    BY <2>1, <2>3, <2>5, <2>6, <1>c DEF Busy, Last
  <2> QED  BY <2>1, <2>3, <2>7 DEF InRound
<1>5. CASE Skip
  <2>1. /\ UNCHANGED <<field, updated, now, time1, clock>>
        /\ pc = "item" /\ pc' = "item"
        /\ accessed' = IF Interval < 0 THEN [accessed EXCEPT ![Item] = 0]
                                       ELSE accessed
        /\ idx <= Len(Order) /\ Interval < freq[Item]
    BY <1>5 DEF Skip, Goto
  <2>2. Item \in Items /\ freq[Item] = f /\ Item = Order[idx]
    BY <2>1, OrderIn, <1>d DEF Item
  <2>3. now - Last(idx) < f
    BY <2>1, <2>2 DEF Interval, Last
  <2>4. now <= clock /\ time1 <= clock /\ Idle(f)
    BY <2>1, <2>3, <1>a, <1>b, <1>f DEF InRound, Busy
  <2>5. accessed' = accessed
    BY <2>1, <2>2, <2>4, <1>a, <1>h DEF Idle, Interval
  <2> QED  BY <2>1, <2>4, <2>5, <1>c DEF InRound, Idle
<1>6. CASE Open
  <2>1. /\ UNCHANGED <<accessed, field, updated, now, clock, idx>>
        /\ pc = "open" /\ pc' = "read" /\ time1' = clock
    BY <1>6, <1>e DEF Open
  <2>2. now <= clock /\ Busy(f)
    BY <2>1, <1>f DEF InRound, Idle
  <2>3. Busy(f)'
    BY <2>1, <2>2, <1>a, <1>c DEF Busy, Last
  <2> QED  BY <2>1, <2>2, <2>3, <1>a DEF InRound
<1>7. CASE Refresh
  <2>1. /\ UNCHANGED <<accessed, now, clock, idx>>
        /\ pc = "read" /\ pc' = "report" /\ time1' = 0
        /\ updated' \in {clock, time1} \/ Len(Order) = 1
    BY <1>7, Refreshed
  <2>2. now <= clock /\ Busy(f)
    BY <2>1, <1>f DEF InRound, Idle
  <2>3. idx = 1 /\ time1 >= now
    BY <2>1, <2>2 DEF Busy
  <2>4. updated' + f > now \/ Len(Order) = 1
    BY <2>1, <2>2, <2>3, <1>a
  <2>5. \A k \in 1..(idx' - 1) : FALSE
    BY <2>1, <2>3
  <2>6. Busy(f)'
    BY <2>1, <2>2, <2>3, <2>4, <2>5, <1>c DEF Busy, Last
  <2> QED  BY <2>1, <2>2, <2>6, <1>a DEF InRound
<1>8. CASE Get
  <2>1. /\ UNCHANGED <<updated, now, time1, clock>>
        /\ pc = "report" /\ pc' = "item" /\ idx' = idx + 1
        /\ field' = [field EXCEPT ![Item] = NoValue]
        /\ accessed' = [accessed EXCEPT ![Item] = now]
    BY <1>8, GetReports DEF Report, Goto
  <2>2. now <= clock /\ time1 <= clock /\ Busy(f)
    BY <2>1, <1>f DEF InRound, Idle
  <2>3. idx \in Places /\ Item = Order[idx] /\ Item \in Items
    BY <2>1, <1>a, <1>b, OrderIn DEF TypeOK, Item
  <2>4. accessed'[Item] = now /\ field'[Item] = NoValue
    BY <2>1, <2>3 DEF TypeOK
  <2>5. \A k \in Places : k # idx => /\ accessed'[Order[k]] = Last(k)
                                     /\ field'[Order[k]] = field[Order[k]]
    BY <2>1, <2>3, <1>b DEF TypeOK, Last
  <2>6. \A k \in idx'..Len(Order)' : now' - Last(k)' >= f
    <3>1. \A k \in idx'..Len(Order) :
            k \in Places /\ k # idx /\ k \in idx..Len(Order)
      BY <2>1, <1>a, <1>b
    <3> QED  BY <2>1, <2>2, <2>5, <3>1, <1>c DEF Busy
  <2>7. \A k \in 1..(idx' - 1) : Last(k)' = now' /\ (field[Order[k]])' = NoValue
    <3>1. \A k \in 1..(idx' - 1) :
            k \in Places /\ (k = idx \/ k \in 1..(idx - 1))
      BY <2>1, <2>3, <1>a, <1>b
    <3>2. \A k \in 1..(idx - 1) : k # idx
      BY <1>a
    <3> QED  BY <2>1, <2>2, <2>3, <2>4, <2>5, <3>1, <3>2, <1>c DEF Busy
  <2>8. updated + f > now \/ Len(Order) = 1
    BY <2>1, <2>2 DEF Busy
  <2>9. Busy(f)'
    BY <2>1, <2>6, <2>7, <2>8, <1>c DEF Busy
  <2> QED  BY <2>1, <2>2, <2>9 DEF InRound
<1>9. CASE UNCHANGED vars
  <2>1. UNCHANGED <<accessed, field, updated, pc, idx, now, time1, clock>>
    BY <1>9 DEF vars
  <2> QED  BY <2>1, <1>c, <1>f DEF InRound, Sleeps, Idle, Busy, Last
<1> QED
  BY <1>1, <1>2, <1>3, <1>4, <1>5, <1>6, <1>7, <1>8, <1>9, <1>e DEF Next
-----------------------------------------------------------------------------
LEMMA Begins == Init => TypeOK /\ Clocks /\ Turn /\ GapsBounded /\ Rounds
<1> SUFFICES ASSUME Init
             PROVE  TypeOK /\ Clocks /\ Turn /\ GapsBounded /\ Rounds
  OBVIOUS
<1>1. TypeOK
  <2>1. /\ Len(Order) \in Nat /\ Len(Order) >= 1
    BY OrderFacts DEF Init
  <2>2. idx \in 1..(Len(Order) + 1)
    BY <2>1 DEF Init
  <2>3. field \in [Items -> Int] /\ behind \in Nat /\ DOMAIN since = Items
    BY DEF Init, NoValue
  <2> QED  BY <2>1, <2>2, <2>3 DEF Init, TypeOK
<1>2. Clocks /\ Turn
  BY DEF Init, Clocks, Turn
<1>3. GapsBounded
  <2> SUFFICES ASSUME NEW i \in Items, freq[i] > 0
               PROVE  Few(i) /\ ~Emptied(i)
    BY DEF GapsBounded
  <2>1. gaps[i] = 0 /\ nsteps = 0 /\ behind = 0 /\ fed = {} /\ freq[i] \in Nat
    BY DEF Init
  <2> QED  BY <2>1 DEF Few, Emptied
<1>4. Rounds
  BY DEF Init, Rounds, InRound, Sleeps
<1> QED  BY <1>1, <1>2, <1>3, <1>4

THEOREM SamplerInvariant ==
  Spec => [](TypeOK /\ Clocks /\ Turn /\ GapsBounded /\ Rounds)
<1>1. /\ TypeOK /\ Clocks /\ Turn /\ GapsBounded /\ Rounds
      /\ [Next]_vars
      => (TypeOK /\ Clocks /\ Turn /\ GapsBounded /\ Rounds)'
  BY TypeStep, ClocksStep, TurnStep, GapsStep, RoundsStep
<1> QED  BY <1>1, Begins, PTL DEF Spec

\* An item that says nothing, although the last refresh left a value for it,
\* does so once or twice in succession, and besides for as long as the clock
\* was set back by and once for each time that it was: the time of the record
\* is kept apart from the item's (ca_acquisition.c:282-300), and the handlers
\* trust it.
THEOREM GapsHeal == Spec => []GapsHealed
<1>1. GapsBounded => GapsHealed
  BY DEF GapsBounded, GapsHealed, Few
<1> QED  BY <1>1, SamplerInvariant, PTL

\* Items of one frequency are complete together: when a round of ca_acq_cycle
\* is over, none of them has a measurement left to report.
THEOREM RoundsComplete == Spec => []RoundComplete
<1>1. TypeOK /\ Rounds => RoundComplete
  BY DEF RoundComplete, Rounds, InRound, Even, Sleeps
<1> QED  BY <1>1, SamplerInvariant, PTL
=============================================================================
