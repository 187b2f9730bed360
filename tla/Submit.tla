------------------------------- MODULE Submit -------------------------------
(***************************************************************************)
(* Delivery of samples to the collecting servers: ca_select_submit,        *)
(* ca_select_send_and_recv and the tcp_*_timeout helpers of                *)
(* src/src/ca_acquisition.c, called in a loop by the submit thread.        *)
(*                                                                         *)
(* The sender keeps one connection open from sample to sample; when it     *)
(* fails, the configured servers are tried in ring order.  A sample is     *)
(* sent as a header and a body and is delivered once the server answers    *)
(* "ok\n".  Partial sends and an EINTR that is retried do not change the   *)
(* state; the answer arrives in pieces because the code counts its bytes.  *)
(***************************************************************************)
EXTENDS Naturals, Sequences, FiniteSets

CONSTANTS
  NServers,     \* number of server blocks in the configuration
  Fds,          \* the descriptors the process may open for sockets
  NoFd,         \* CA_ERROR in *pfd
  MaxSamples    \* bound: samples submitted in a behaviour

ASSUME ServersAssumption == NServers \in Nat
ASSUME FdsAssumption     == NoFd \notin Fds
ASSUME BoundAssumption   == MaxSamples \in Nat

Servers  == 0..(NServers - 1)
Samples  == 1..MaxSamples
AnswerLen == 3                          \* sizeof("ok\n") - 1
Unset    == NServers                    \* stands for the index -1
ASSUME UnsetAssumption == Unset \notin Servers

VARIABLES
  pc,           \* where the submit thread stands
  cur,          \* the sample being submitted
  fd, index,    \* the caller's fd and index: *pfd and *pindex
  lfd, lindex,  \* the locals fd and index of ca_select_submit
  i,            \* its loop counter
  kept,         \* TRUE while the connection kept from before is tried
  total,        \* bytes of the answer received
  stop,         \* ca_quit || ca_terminate
  result,       \* what the last call returned
  opened,       \* the sockets open in the process
  leaked,       \* history: sockets nobody will close
  peer,         \* the server a socket is connected to
  up,           \* per socket, samples on their way to the server
  down,         \* per socket, answers on their way back
  eof,          \* sockets whose peer has closed the connection
  credit,       \* history: the sample whose answer was read last
  tried,        \* history: servers connected to in this call, in order
  sends         \* history: how often a server was sent each sample whole

call    == <<cur, fd, index, lfd, lindex, i, kept>>
sockets == <<opened, leaked, peer>>
network == <<up, down, eof>>
history == <<credit, tried, sends>>
vars    == <<pc, call, total, stop, result, sockets, network, history>>

Goto(from, to) == pc = from /\ pc' = to

\* A step that only moves the thread on.
Moves(from, to) ==
  /\ Goto(from, to)
  /\ UNCHANGED <<call, total, stop, result, sockets, network, history>>

\* Mutant: the socket that failed is not closed.
CloseForgotten(f) == UNCHANGED <<opened, network>>

\* close(f): what is still on the connection is lost with it.
Close(f) == /\ opened' = opened \ {f}
            /\ up'   = [up EXCEPT ![f] = <<>>]
            /\ down' = [down EXCEPT ![f] = <<>>]
            /\ eof'  = eof \ {f}
-----------------------------------------------------------------------------
(***************************************************************************)
(* The caller, ca_acq_submit_cycle: no call is made once a stop flag has   *)
(* been seen; the flag may be set between the look and the call.           *)
(***************************************************************************)
CallCheck == ~stop /\ cur < MaxSamples /\ Moves("idle", "ready")

\* Entry of ca_select_submit: the kept connection first, if there is one.
CallBegin ==
  /\ pc = "ready"
  /\ pc' = IF fd # NoFd THEN "header" ELSE "loop"
  /\ cur' = cur + 1
  /\ kept' = (fd # NoFd)
  /\ lfd' = fd
  /\ lindex' = index
  /\ i' = 0
  /\ total' = 0
  /\ result' = "none"
  /\ tried' = <<>>
  /\ UNCHANGED <<fd, index, stop, sockets, network, credit, sends>>
-----------------------------------------------------------------------------
(***************************************************************************)
(* ca_select_submit: the ring of servers.                                  *)
(***************************************************************************)
\* index = (index + 1) % count, from -1 before the first sample
NextServer == IF lindex = Unset THEN 0 ELSE (lindex + 1) % NServers

Loop ==
  /\ Goto("loop", "connect")
  /\ i < NServers
  /\ lindex' = NextServer
  /\ UNCHANGED <<cur, fd, index, lfd, i, kept, total, stop, result,
                 sockets, network, history>>

\* Every server has been tried: the sample is given up.
LoopEnds ==
  /\ Goto("loop", "idle")
  /\ i >= NServers
  /\ fd' = NoFd
  /\ index' = lindex
  /\ result' = "error"
  /\ UNCHANGED <<cur, lfd, lindex, i, kept, total, stop,
                 sockets, network, history>>

\* tcp_connect_timeout, called for servers[lindex].
Connected ==
  /\ Goto("connect", "header")
  /\ \E f \in Fds \ opened :
       /\ lfd' = f
       /\ opened' = opened \cup {f}
       /\ peer' = [peer EXCEPT ![f] = lindex]
  /\ kept' = FALSE
  /\ total' = 0
  /\ tried' = Append(tried, lindex)
  /\ UNCHANGED <<cur, fd, index, lindex, i, stop, result, leaked,
                 network, credit, sends>>

\* Mutant: a timeout is tried again without being counted.
ConnectTimeoutAgain == opened # Fds /\ Moves("connect", "loop")

\* The connection attempt times out: CA_AGAIN, the socket is closed.
ConnectTimeout ==
  /\ Goto("connect", "loop")
  /\ opened # Fds
  /\ i' = i + 1
  /\ tried' = Append(tried, lindex)
  /\ UNCHANGED <<cur, fd, index, lfd, lindex, kept, total, stop, result,
                 sockets, network, credit, sends>>

\* No socket could be had, or it failed and was closed: CA_ERROR.
ConnectFails ==
  /\ Goto("connect", "connect_error")
  /\ tried' = Append(tried, lindex)
  /\ UNCHANGED <<call, total, stop, result,
                 sockets, network, credit, sends>>

\* connect() fails at once with another error than EINPROGRESS, or SO_ERROR
\* reports one (a refused connection): CA_ERROR with the socket left open.
ConnectLeaks ==
  /\ Goto("connect", "connect_error")
  /\ \E f \in Fds \ opened : /\ opened' = opened \cup {f}
                             /\ leaked' = leaked \cup {f}
  /\ tried' = Append(tried, lindex)
  /\ UNCHANGED <<call, total, stop, result, peer, network, credit, sends>>

\* Mutant: any failed connect ends the call.
GivesUpAlways == TRUE

GivesUp == stop

\* After CA_ERROR the flags decide: return at once, leaving *pfd and *pindex
\* as they were at the call, or go on to the next server.
ConnectError ==
  \/ /\ GivesUp
     /\ Goto("connect_error", "idle")
     /\ result' = "error"
     /\ UNCHANGED <<call, total, stop, sockets, network, history>>
  \/ /\ ~GivesUp
     /\ Goto("connect_error", "loop")
     /\ i' = i + 1
     /\ UNCHANGED <<cur, fd, index, lfd, lindex, kept, total, stop, result,
                    sockets, network, history>>

\* Mutant: a connection that fails later does not count as a try.
NextTryAgain == IF kept THEN 0 ELSE i

NextTry == IF kept THEN 0 ELSE i + 1

\* send_and_recv failed: close(fd), then the (next turn of the) loop.
Drop ==
  /\ Goto("failed", "loop")
  /\ Close(lfd)
  /\ i' = NextTry
  /\ UNCHANGED <<cur, fd, index, lfd, lindex, kept, total, stop, result,
                 leaked, peer, history>>

\* Mutant: *pfd is updated and *pindex is not.
KeepForgetsIndex ==
  IF kept THEN UNCHANGED <<fd, index>> ELSE fd' = lfd /\ UNCHANGED index

Keep == IF kept THEN UNCHANGED <<fd, index>> ELSE fd' = lfd /\ index' = lindex

\* send_and_recv succeeded: the connection is kept for the next sample.
Done ==
  /\ Goto("ok", "idle")
  /\ result' = "ok"
  /\ Keep
  /\ UNCHANGED <<cur, lfd, lindex, i, kept, total, stop,
                 sockets, network, history>>
-----------------------------------------------------------------------------
(***************************************************************************)
(* ca_select_send_and_recv on socket lfd.                                  *)
(***************************************************************************)
Header == Moves("header", "body")

\* The last byte of the body is in the kernel's hands.
Body == /\ Goto("body", "recv")
        /\ up' = [up EXCEPT ![lfd] = Append(@, cur)]
        /\ sends' = [sends EXCEPT ![peer[lfd]][cur] = @ + 1]
        /\ UNCHANGED <<call, total, stop, result,
                       sockets, down, eof, credit, tried>>

\* A timeout, an error, or an EINTR once a stop flag is set, in any phase.
Fail == \E phase \in {"header", "body", "recv"} : Moves(phase, "failed")

\* Some bytes of the answer, not yet enough to compare.
RecvPart ==
  /\ Goto("recv", "recv")
  /\ down[lfd] # <<>>
  /\ \E k \in 1..(AnswerLen - 1) : total + k < AnswerLen /\ total' = total + k
  /\ UNCHANGED <<call, stop, result, sockets, network, history>>

\* Mutant: any answer of three bytes or more is taken for "ok\n".
AcceptsAny(answer) == TRUE

Accepts(answer) == answer.ok

\* The answer is complete: "ok\n" or anything else.
RecvAnswer ==
  /\ pc = "recv"
  /\ down[lfd] # <<>>
  /\ pc' = IF Accepts(Head(down[lfd])) THEN "ok" ELSE "failed"
  /\ credit' = IF Head(down[lfd]).ok THEN Head(down[lfd]).sample ELSE 0
  /\ down' = [down EXCEPT ![lfd] = Tail(@)]
  /\ total' = AnswerLen
  /\ UNCHANGED <<call, stop, result, sockets, up, eof, tried, sends>>

\* The peer has closed and fewer than three bytes came: recv returns 0, adds
\* nothing to total, and the loop calls it again, whatever the flags say.
RecvEof ==
  /\ Moves("recv", "spin")
  /\ lfd \in eof
  /\ down[lfd] = <<>>

Client == \/ CallCheck \/ CallBegin
          \/ Loop \/ LoopEnds
          \/ Connected \/ ConnectTimeout \/ ConnectFails \/ ConnectLeaks
          \/ ConnectError \/ Drop \/ Done
          \/ Header \/ Body \/ Fail \/ RecvPart \/ RecvAnswer \/ RecvEof
-----------------------------------------------------------------------------
(***************************************************************************)
(* The environment: the servers (not part of the repository) answer each   *)
(* sample they get at most once, or close; a signal sets a stop flag.  An   *)
(* answer of fewer than three bytes is one that never becomes complete.    *)
(***************************************************************************)
ServerAnswers(f, ok) ==
  /\ f \in opened \ eof
  /\ up[f] # <<>>
  /\ up' = [up EXCEPT ![f] = Tail(@)]
  /\ down' = [down EXCEPT ![f] = Append(@, [sample |-> Head(up[f]), ok |-> ok])]
  /\ UNCHANGED <<pc, call, total, stop, result, sockets, eof, history>>

ServerCloses(f) ==
  /\ f \in opened \ (eof \cup leaked)
  /\ eof' = eof \cup {f}
  /\ UNCHANGED <<pc, call, total, stop, result, sockets, up, down, history>>

Stop == /\ ~stop
        /\ stop' = TRUE
        /\ UNCHANGED <<pc, call, total, result, sockets, network, history>>

Init == /\ pc = "idle"
        /\ cur = 0
        /\ fd = NoFd /\ index = Unset
        /\ lfd = NoFd /\ lindex = Unset
        /\ i = 0 /\ kept = FALSE /\ total = 0
        /\ stop = FALSE /\ result = "none"
        /\ opened = {} /\ leaked = {}
        /\ peer = [f \in Fds |-> Unset]
        /\ up = [f \in Fds |-> <<>>] /\ down = [f \in Fds |-> <<>>]
        /\ eof = {}
        /\ credit = 0 /\ tried = <<>>
        /\ sends = [s \in Servers |-> [x \in Samples |-> 0]]

Next == \/ Client \/ Stop
        \/ \E f \in Fds : ServerCloses(f) \/ \E ok \in BOOLEAN : ServerAnswers(f, ok)

Spec == Init /\ [][Next]_vars

\* select() with a timeout never blocks for ever, so the thread goes on.
FairSpec == Spec /\ WF_vars(Client)
-----------------------------------------------------------------------------
InUse == {"header", "body", "recv", "spin", "failed", "ok"}

\* Whenever the code uses a socket it is open and connected to the server it
\* believes it talks to.  The early return at a stop flag leaves a closed
\* descriptor in *pfd: this says it is never used again.
SocketValid ==
  /\ pc \in InUse => lfd \in opened \ leaked /\ peer[lfd] = lindex
  /\ pc = "idle" /\ fd # NoFd /\ ~stop =>
       fd \in opened \ leaked /\ peer[fd] = index

\* Between calls one socket at most is open, the one in *pfd: every other
\* one was closed, or lost in tcp_connect_timeout.
OneConnection ==
  /\ pc \in {"idle", "ready"} => opened \ leaked \subseteq {fd}
  /\ pc \in InUse => opened \ leaked \subseteq {lfd}

\* A sample counts as delivered only when a server that was sent the whole
\* sample answered that sample with "ok\n", on the connection that is kept:
\* an answer that comes late, or to an earlier sample, is never credited.
CreditIsEarned ==
  pc = "idle" /\ result = "ok" =>
    /\ credit = cur
    /\ sends[index][cur] >= 1

\* A call that gives a sample up without a stop flag has tried every server
\* exactly once, in ring order, the one used before last.
AllServersTried ==
  pc = "idle" /\ result = "error" /\ ~stop =>
    /\ Len(tried) = NServers
    /\ \A k \in 1..(NServers - 1) : tried[k + 1] = (tried[k] + 1) % NServers
    /\ NServers > 0 => tried[NServers] = index

\* A server is sent a whole sample at most once, or twice when it is the one
\* the kept connection led to: the retries of a call do not pile up.
FewDuplicates ==
  \A x \in Samples :
    /\ \A s \in Servers : sends[s][x] <= 2
    /\ Cardinality({s \in Servers : sends[s][x] = 2}) <= 1

\* Every call returns, unless the peer closed the connection before it had
\* sent three bytes.
CallReturns == pc = "ready" ~> pc \in {"idle", "spin"}
=============================================================================
