---------------------------- MODULE MCAcqProcess ----------------------------
\* Model-checking instance of AcqProcess.  POSIX lets the kernel run a handler
\* in any thread that does not block the signal; Linux takes the main thread
\* whenever it can.  The instance covers both: linux is chosen at the start.
EXTENDS AcqProcess

VARIABLE linux

Receiver == IF linux THEN {"main"} ELSE Receivers

MCInit == Init /\ linux \in BOOLEAN

MCNext == /\ \/ Main \/ Acq \/ Submit
             \/ \E sig \in Signals : Send(sig)
             \/ \E t \in Receiver : Deliver(t)
          /\ UNCHANGED linux

MCFairness == /\ ThreadFairness
              /\ WF_vars(\E t \in Receiver : Deliver(t))

MCSpec == MCInit /\ [][MCNext]_<<vars, linux>> /\ MCFairness

\* Where signals go to the main thread, as on Linux, the process goes down
\* from its suspension, but for a submit thread that spins on a connection the
\* server has closed: StopFromSuspend (ca_acquisition.c:222-229, 704-729).
LinuxStops == linux => StopFromSuspend
=============================================================================
