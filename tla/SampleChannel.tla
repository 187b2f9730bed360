---------------------------- MODULE SampleChannel ----------------------------
(***************************************************************************)
(* What the two queues of ca_acquisition.c promise the rest of the         *)
(* acquisition process, whatever nodes, counters and locks they are made   *)
(* of: samples leave in the order they were produced, each at most once,   *)
(* and none is handed out or accepted once the process has torn the queues *)
(* down.  Closing drops the samples still waiting.                         *)
(***************************************************************************)
EXTENDS Naturals, Sequences

CONSTANT Samples        \* the samples, numbered from 1 in the order they are taken

VARIABLES chan,         \* the samples accepted and not yet handed out
          last,         \* the sample handed out last, 0 before the first
          open          \* FALSE once the channel is torn down

chanVars == <<chan, last, open>>

ChanInit == chan = <<>> /\ last = 0 /\ open = TRUE

\* A sample newer than every one seen so far joins the end of the channel.
Put(s) == /\ open
          /\ s > last
          /\ \A i \in 1..Len(chan) : s > chan[i]
          /\ chan' = Append(chan, s)
          /\ UNCHANGED <<last, open>>

\* The oldest waiting sample is handed to the sender.
Take == /\ open
        /\ chan # <<>>
        /\ last' = Head(chan)
        /\ chan' = Tail(chan)
        /\ UNCHANGED open

Close == /\ open
         /\ open' = FALSE
         /\ chan' = <<>>
         /\ UNCHANGED last

ChanNext == (\E s \in Samples : Put(s)) \/ Take \/ Close

ChanSpec == ChanInit /\ [][ChanNext]_chanVars
=============================================================================
