------------------------------ MODULE Sampler ------------------------------
(***************************************************************************)
(* The samplers of clagent (src/src/acq/), one at a time, as the rounds of *)
(* ca_acq_cycle use them.  A sampler keeps one record of fields and the    *)
(* time of its last refresh.  The handler of an item refreshes the record  *)
(* when it is older than the item's own frequency, reports the item's      *)
(* field and resets it to -1; a field of -1 is reported as "".             *)
(*                                                                         *)
(* A field is the last measurement (memory, load, cpu), the largest since  *)
(* the last report (disks), or their sum (network).                        *)
(***************************************************************************)
EXTENDS Integers, Sequences, Functions

CONSTANTS
  Freqs,       \* the frequencies an item may be configured with, in seconds
  Measures,    \* what a measurement may give; a rate may be negative
  Start,       \* the time at which the process starts
  MaxClock,    \* bound: the latest time
  MaxSteps,    \* bound: how often the clock is set back
  MaxFails     \* bound: how often a file cannot be opened

ASSUME FreqsAssumption  == Freqs \subseteq Nat
ASSUME MeasuresAssumption == Measures \subseteq Int
ASSUME BoundsAssumption == /\ Start \in Nat /\ MaxClock \in Nat
                           /\ MaxSteps \in Nat /\ MaxFails \in Nat
\* A clock that shows less than a frequency would keep a fresh process from
\* sampling; no machine's does.
ASSUME StartAssumption  == \A f \in Freqs : f <= Start

\* The items of each sampler that differ in the way they get a value, in the
\* order they are configured.
ItemsOf == [memory     |-> <<"mem", "swap_urate">>,
            cpu        |-> <<"cpu_user", "procs_running">>,
            loadavg    |-> <<"loadavg_1", "loadavg_5">>,
            disk_io    |-> <<"disk_io_util_max">>,
            disk_urate |-> <<"partition_max_urate">>,
            net_flow   |-> <<"intranet_flow_in", "extranet_flow_in",
                             "total_flow_in">>]
Samplers == DOMAIN ItemsOf

VARIABLES
  sampler,   \* the sampler of this behaviour
  freq,      \* freq of every item
  accessed,  \* accessed of every item
  field,     \* the fields of the record
  updated,   \* updated, or ca_s_last_time
  seen,      \* there is a baseline to measure against
  clock,     \* what time() returns
  pc, idx,   \* where the acq thread stands; the item it is at
  now,       \* local of ca_acq_cycle
  time1,     \* the time when the refresh began
  opened,    \* the files of the refresh could be opened
  nsteps, nfails,
  since,     \* history: what was measured for an item since its last report
  fed,       \* history: the items the last refresh left a value for
  gaps,      \* history: how often in succession such an item said nothing
  behind     \* history: by how many seconds in all the clock was set back

config  == <<sampler, freq>>
record  == <<field, updated, seen>>
locals  == <<pc, idx, now, time1, opened>>
world   == <<clock, nsteps, nfails>>
history == <<since, fed, gaps, behind>>
vars    == <<config, accessed, record, locals, world, history>>

Order == ItemsOf[sampler]
Items == {Order[k] : k \in DOMAIN Order}
Item  == Order[idx]
-----------------------------------------------------------------------------
(***************************************************************************)
(* The clock.                                                              *)
(***************************************************************************)
Tick == /\ clock < MaxClock
        /\ clock' = clock + 1
        /\ UNCHANGED <<config, accessed, record, locals, nsteps, nfails,
                       history>>

SetBack == /\ nsteps < MaxSteps
           /\ nsteps' = nsteps + 1
           /\ \E t \in Start..(clock - 1) :
                clock' = t /\ behind' = behind + (clock - t)
           /\ UNCHANGED <<config, accessed, record, locals, nfails, since, fed,
                          gaps>>
-----------------------------------------------------------------------------
(***************************************************************************)
(* A round of ca_acq_cycle.                                                *)
(***************************************************************************)
Goto(from, to) == pc = from /\ pc' = to

Round == /\ Goto("sleep", "item")
         /\ now' = clock
         /\ UNCHANGED <<config, accessed, record, idx, time1, opened, world,
                        history>>

\* The locals start afresh in the next round.
RoundEnds == /\ Goto("item", "sleep")
             /\ idx > Len(Order)
             /\ idx' = 1 /\ now' = 0
             /\ UNCHANGED <<config, accessed, record, time1, opened,
                            world, history>>

\* Mutant: the record is still good when it is exactly as old as freq.
StaleLate == updated + freq[Item] < now

\* The first lines of every handler.
Stale == updated + freq[Item] <= now

Interval == now - accessed[Item]

\* Due: the item's handler is called, and begins with the refresh or not.
Due == /\ idx <= Len(Order)
       /\ Interval >= 0
       /\ Interval >= freq[Item]
       /\ Goto("item", IF Stale THEN "open" ELSE "report")
       /\ UNCHANGED <<config, accessed, record, idx, now, time1, opened,
                      world, history>>

\* The clock was set back: the item is due in the next round.
Skip == /\ idx <= Len(Order)
        /\ Interval < freq[Item]
        /\ Goto("item", "item")
        /\ accessed' = IF Interval < 0 THEN [accessed EXCEPT ![Item] = 0]
                                       ELSE accessed
        /\ idx' = idx + 1
        /\ UNCHANGED <<config, record, now, time1, opened, world, history>>
-----------------------------------------------------------------------------
(***************************************************************************)
(* The refresh.  It reads the clock once: net_flow and disk_io before they *)
(* read the counters, the others when they have read everything.           *)
(***************************************************************************)
\* The files are opened, or one of them is not or holds nothing, and the refresh
\* ends without a new time.  Only disk_io has taken the time for the first one by then.
Open ==
  /\ pc = "open"
  /\ \/ /\ pc' = "read"
        /\ time1' = clock
        /\ UNCHANGED <<updated, opened, nfails>>
     \/ /\ nfails < MaxFails
        /\ nfails' = nfails + 1
        /\ pc' = "report" /\ opened' = FALSE
        /\ UNCHANGED time1
        /\ updated' = IF sampler = "disk_io" /\ updated = 0 THEN clock
                                                            ELSE updated
  /\ UNCHANGED <<config, accessed, field, seen, idx, now, clock, nsteps,
                 history>>

\* -1
NoValue == -1

Values == Measures \cap Nat

Newest(old, new)  == new
Largest(old, new) == IF new > old THEN new ELSE old

\* The items in the domain of m are measured.
Measure(m, Keeps(_, _)) ==
  /\ field' = [i \in Items |-> IF i \in DOMAIN m THEN Keeps(field[i], m[i])
                                                 ELSE field[i]]
  /\ since' = [i \in Items |-> IF i \in DOMAIN m THEN Append(since[i], m[i])
                                                 ELSE since[i]]

Read(t) == /\ Goto("read", "report")
           /\ updated' = t
           /\ opened' = TRUE
           /\ time1' = 0
           /\ fed' = {i \in Items : field'[i] >= 0}
           /\ UNCHANGED <<config, accessed, idx, now, world, gaps, behind>>

\* Without swap there is no rate of its use.
MeasuresMemory ==
  \E S \in {{"mem"}, Items} : \E m \in [S -> Values] : Measure(m, Newest)

\* Mutant: the time of the refresh is not kept.
ReadMemoryUntimed ==
  sampler = "memory" /\ MeasuresMemory /\ Read(updated) /\ UNCHANGED seen

\* ca_get_mem_info
ReadMemory ==
  sampler = "memory" /\ MeasuresMemory /\ Read(clock) /\ UNCHANGED seen

\* ca_get_cpu_info: the shares of the cpu's time since the first reading, if
\* any time has passed.
ReadCpu ==
  /\ sampler = "cpu" /\ seen' = TRUE
  /\ \E S \in {{"procs_running"}} \cup (IF seen THEN {Items} ELSE {}) :
       \E m \in [S -> Measures] :
         m["procs_running"] \in Values /\ Measure(m, Newest)
  /\ Read(clock)

\* ca_get_loadavg_info
ReadLoadavg ==
  /\ sampler = "loadavg" /\ UNCHANGED seen
  /\ \E m \in [Items -> Values] : Measure(m, Newest)
  /\ Read(clock)

\* ca_get_disk_urate_info: the fullest partition, if one can be asked.  The
\* time is kept only if there is a partition at all.
ReadDiskUrate ==
  /\ sampler = "disk_urate" /\ UNCHANGED seen
  /\ \/ \E S \in {{}, Items} : \E m \in [S -> Values] :
          Measure(m, Largest) /\ Read(clock)
     \/ UNCHANGED <<field, since>> /\ Read(updated)

\* How long ago the counters were read before; the first time not at all.
Elapsed == IF updated = 0 THEN 0 ELSE time1 - updated

Rated == seen /\ Elapsed > 0

\* ca_get_disk_io_info: the busiest disk of those that were read before.
ReadDiskIo ==
  /\ sampler = "disk_io" /\ seen' = TRUE
  /\ \E S \in {{}} \cup (IF Rated THEN {Items} ELSE {}) :
       \E m \in [S -> Measures] : Measure(m, Largest)
  /\ Read(time1)

\* An interface that was read before: its side, as its address is now, and
\* its average since then.
Eths == [side : {"intranet_flow_in", "extranet_flow_in"}, avg : Measures]

Share(eth, i) == IF i \in {eth.side, "total_flow_in"} THEN eth.avg ELSE 0

\* All the flows are lifted from below 0 to 0, and the average is added to the
\* total and to its side.
Flow(f, eth) ==
  [i \in Items |-> (IF f[i] < 0 THEN 0 ELSE f[i]) + Share(eth, i)]

\* ca_get_ethstat_info: an interface more is read for the first time, or gone.
ReadNetFlow ==
  /\ sampler = "net_flow" /\ seen' = TRUE
  /\ \/ UNCHANGED <<field, since>>
     \/ /\ Rated
        /\ \E a \in Eths :
             /\ field' = Flow(field, a)
             /\ since' = [i \in Items |-> Append(since[i], Share(a, i))]
     \/ /\ Rated
        /\ \E a, b \in Eths :
             /\ field' = Flow(Flow(field, a), b)
             /\ since' = [i \in Items |-> since[i] \o <<Share(a, i), Share(b, i)>>]
  /\ Read(time1)

Refresh == \/ ReadMemory \/ ReadCpu \/ ReadLoadavg
           \/ ReadDiskUrate \/ ReadDiskIo \/ ReadNetFlow
-----------------------------------------------------------------------------
(***************************************************************************)
(* The report.                                                             *)
(***************************************************************************)
\* The last refresh left nothing for the item, or one failed since.
Excused == Item \notin fed \/ ~opened

\* The end of a handler, which prints the field and resets it, and of the turn
\* of the loop that called it.
Report(item, print, reset) ==
  /\ Goto("report", "item") /\ Item = item
  /\ gaps' = [gaps EXCEPT ![item] = IF field[print] >= 0 THEN 0
                                    ELSE IF Excused THEN @ ELSE @ + 1]
  /\ field' = [field EXCEPT ![reset] = NoValue]
  /\ since' = [since EXCEPT ![item] = <<>>]
  /\ accessed' = [accessed EXCEPT ![item] = now]
  /\ idx' = idx + 1
  /\ UNCHANGED <<config, updated, seen, now, time1, opened, world, fed, behind>>

GetMemory    == Report("mem", "mem", "mem")
GetSwapUrate == Report("swap_urate", "swap_urate", "swap_urate")
GetCpuUser   == Report("cpu_user", "cpu_user", "cpu_user")
GetProcsRunning ==
  Report("procs_running", "procs_running", "procs_running")
GetLoadavg1  == Report("loadavg_1", "loadavg_1", "loadavg_1")
GetLoadavg5  == Report("loadavg_5", "loadavg_5", "loadavg_5")
GetDiskUrate == Report("partition_max_urate", "partition_max_urate",
                       "partition_max_urate")
GetDiskIo    == Report("disk_io_util_max", "disk_io_util_max",
                       "disk_io_util_max")

GetIntranetFlow ==
  Report("intranet_flow_in", "intranet_flow_in", "intranet_flow_in")

\* Mutant: the handler resets the field of the other side.
GetExtranetFlowSlip ==
  Report("extranet_flow_in", "extranet_flow_in", "intranet_flow_in")

GetExtranetFlow ==
  Report("extranet_flow_in", "extranet_flow_in", "extranet_flow_in")
GetTotalFlow == Report("total_flow_in", "total_flow_in", "total_flow_in")

Get == \/ GetMemory \/ GetSwapUrate \/ GetCpuUser \/ GetProcsRunning
       \/ GetLoadavg1 \/ GetLoadavg5 \/ GetDiskUrate \/ GetDiskIo
       \/ GetIntranetFlow \/ GetExtranetFlow \/ GetTotalFlow
-----------------------------------------------------------------------------
Init == /\ sampler \in Samplers
        /\ freq \in [Items -> Freqs]
        /\ accessed = [i \in Items |-> 0]
        /\ field = [i \in Items |-> NoValue] /\ updated = 0 /\ seen = FALSE
        /\ clock = Start /\ nsteps = 0 /\ nfails = 0
        /\ pc = "sleep" /\ idx = 1 /\ now = 0
        /\ time1 = 0 /\ opened = TRUE
        /\ since = [i \in Items |-> <<>>] /\ fed = {}
        /\ gaps = [i \in Items |-> 0] /\ behind = 0

Next == \/ Tick \/ SetBack
        \/ Round \/ Due \/ Skip \/ RoundEnds
        \/ Open \/ Refresh \/ Get

Spec == Init /\ [][Next]_vars
-----------------------------------------------------------------------------
\* What an item that was measured so, one after the other, has to report.
Sum(ms)  == FoldFunction(LAMBDA m, n : m + n, 0, ms)
Most(ms) == CHOOSE m \in {ms[k] : k \in DOMAIN ms} : \A k \in DOMAIN ms : ms[k] <= m

Whole(ms) == CASE sampler \in {"memory", "cpu", "loadavg"} -> ms[Len(ms)]
               [] sampler \in {"disk_io", "disk_urate"}    -> Most(ms)
               [] sampler = "net_flow"                     -> Sum(ms)

\* However the frequencies of the items that share a record, its refreshes,
\* failures and the clock interleave, an item stands for all that was measured
\* for it since its own last report, and for nothing else: the report of one
\* item takes nothing from another and adds nothing.  Where something was
\* measured as negative the code makes no difference to nothing measured.
ReportsWhole ==
  \A i \in Items :
    (\A k \in DOMAIN since[i] : since[i][k] >= 0) =>
      field[i] = IF since[i] = <<>> THEN NoValue ELSE Whole(since[i])

\* An item that says nothing, although the last refresh left a value for it,
\* says something the next time.  The gap is real: a second that begins between
\* now (ca_acquisition.c:282) and the time the refresh keeps makes the record
\* look a second too young for one round.  When the clock is set back there is
\* a gap more, and one for every freq seconds that the clock is behind: so long
\* the record looks fresh, and the item is silent.
GapsHealed ==
  \A i \in Items :
    freq[i] > 0 => gaps[i] * freq[i] < behind + (2 + nsteps) * freq[i]

\* Items of one frequency agree: when a round is over, every measurement has
\* been reported by every item it concerns, since the first handler of the
\* round refreshed the record and the others found it fresh.
RoundComplete ==
  (/\ pc = "sleep"
   /\ nsteps = 0 /\ nfails = 0
   /\ \E f \in Freqs \ {0} : \A i \in Items : freq[i] = f)
    => \A i \in Items : field[i] = NoValue
=============================================================================
