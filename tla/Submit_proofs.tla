--------------------------- MODULE Submit_proofs ---------------------------
(***************************************************************************)
(* Proofs about the delivery of samples, for any number of servers,        *)
(* descriptors and samples.                                                *)
(*                                                                         *)
(* The argument: between two servers nothing is open, so what is open is   *)
(* the socket in use or the one kept (SocketsKnown).  A connection is kept *)
(* only after its answer was read, and then nothing is under way on it: an *)
(* answer read later is one to the sample of this call (NothingElse).      *)
(*                                                                         *)
(* The ring: while a call goes round, the servers tried are those from     *)
(* lindex on, one for each turn taken (Placed), and the next one is the    *)
(* one after them, so that n turns without success have tried all          *)
(* (EveryServerTried).  The ring comes by every server once, and last by   *)
(* that of the kept connection, which may have been sent the sample before *)
(* the connection broke (Counted).                                         *)
(*                                                                         *)
(* Last, a variant: the turns left, and in each turn the steps left, go    *)
(* down with every step of the thread (CallsAreBounded).                   *)
(***************************************************************************)
EXTENDS Submit, SequenceTheorems, FiniteSetTheorems, TLAPS

PCs     == {"idle", "ready", "loop", "connect", "connect_error"} \cup InUse
Answers == [sample : Samples, ok : BOOLEAN]

TypeOK == /\ pc \in PCs
          /\ cur \in 0..MaxSamples
          /\ fd \in Fds \cup {NoFd} /\ lfd \in Fds \cup {NoFd}
          /\ index \in 0..NServers /\ lindex \in 0..NServers
          /\ i \in Nat /\ kept \in BOOLEAN /\ stop \in BOOLEAN
          /\ opened \in SUBSET Fds /\ leaked \in SUBSET opened
          /\ peer \in [Fds -> 0..NServers]
          /\ up \in [Fds -> Seq(Samples)] /\ down \in [Fds -> Seq(Answers)]
          /\ sends \in [Servers -> [Samples -> Nat]]

\* A call has a sample.
Numbered == /\ pc = "ready" => cur < MaxSamples
            /\ pc \notin {"idle", "ready"} => cur \in Samples

\* Socket f leads to server s.
Leads(f, s) == f \in opened \ leaked /\ peer[f] = s /\ s \in Servers

SocketsKnown ==
  /\ pc \in InUse => Leads(lfd, lindex) /\ opened \ leaked \subseteq {lfd}
  /\ pc \in InUse /\ kept => lfd = fd /\ lindex = index
  /\ pc \in {"idle", "ready"} => opened \ leaked \subseteq {fd}
  /\ pc = "ready" \/ (pc = "idle" /\ ~stop) => fd = NoFd \/ Leads(fd, index)
  /\ pc \in {"loop", "connect", "connect_error"} => opened \ leaked = {}
  /\ pc = "connect" => lindex \in Servers

Silent(f) == up[f] = <<>> /\ down[f] = <<>>

\* On the socket in use at most this sample or its answer is under way.
Expected == \/ Silent(lfd)
            \/ up[lfd] = <<cur>> /\ down[lfd] = <<>>
            \/ up[lfd] = <<>> /\ \E ok \in BOOLEAN :
                 down[lfd] = <<[sample |-> cur, ok |-> ok]>>

NothingElse ==
  /\ \A f \in Fds : f # lfd \/ pc \notin {"recv", "spin", "failed"} => Silent(f)
  /\ pc = "recv" => Expected

Sent == sends[lindex][cur] >= 1

Earned == /\ pc = "recv" => Sent
          /\ pc = "ok" => Sent /\ credit = cur
          /\ CreditIsEarned

IInv == TypeOK /\ Numbered /\ SocketsKnown /\ NothingElse /\ Earned

\* In a call, and there at a server of the ring.
Calling == pc \notin {"idle", "ready"}
Attempt == pc \in {"connect", "connect_error"} \/ (pc \in InUse /\ ~kept)

\* The servers tried so far, the one at hand included.
Turn == IF pc # "connect" /\ Attempt THEN i + 1 ELSE i

\* tried is a part of the ring that ends at lindex.
Ring ==
  /\ tried \in Seq(Servers)
  /\ Calling => Len(tried) = Turn /\ i <= NServers
  /\ Attempt => i < NServers
  /\ pc \in InUse /\ kept => i = 0
  /\ Calling => \A k \in 1..(Len(tried) - 1) :
                  tried[k + 1] = (tried[k] + 1) % NServers
  /\ Calling /\ tried # <<>> =>
       lindex = IF pc = "connect" THEN (tried[Len(tried)] + 1) % NServers
                                  ELSE tried[Len(tried)]
  /\ AllServersTried

\* How many turns of the loop it takes from index to server s.
Turns(s) == IF index = Unset THEN s + 1
            ELSE IF s > index THEN s - index ELSE s - index + NServers

Placed ==
  /\ pc = "loop" => IF i = 0 THEN lindex = index
                             ELSE lindex \in Servers /\ Turns(lindex) = i
  /\ Attempt => lindex \in Servers /\ Turns(lindex) = i + 1

\* The turns after which a server may have been sent the sample.
Past == IF pc \in {"connect", "header", "body"} THEN i ELSE Turn

\* What the kept connection may have sent.
Before(s) == IF s = index THEN 1 ELSE 0

\* Server d was sent sample x twice at most, the others once.
SentTo(d, x) == \A s \in Servers : sends[s][x] <= IF s = d THEN 2 ELSE 1

Counted ==
  /\ \A s \in Servers, x \in Samples : x > cur => sends[s][x] = 0
  /\ \A x \in Samples : x < cur \/ (x = cur /\ ~Calling) =>
                          \E d \in 0..NServers : SentTo(d, x)
  /\ pc \in {"header", "body"} /\ kept => \A s \in Servers : sends[s][cur] = 0
  /\ Calling => SentTo(index, cur)
  /\ Calling => \A s \in Servers : Turns(s) > Past => sends[s][cur] <= Before(s)
-----------------------------------------------------------------------------
USE ServersAssumption, FdsAssumption, BoundAssumption

LEMMA RingNext ==
  ASSUME NEW x \in Servers
  PROVE  (x + 1) % NServers = IF x + 1 = NServers THEN 0 ELSE x + 1
BY DEF Servers

LEMMA NextServerIn ==
  ASSUME TypeOK, NServers > 0
  PROVE  NextServer \in Servers
<1>1. CASE lindex = Unset
  BY <1>1 DEF NextServer, Servers
<1>2. CASE lindex # Unset
  <2>1. lindex + 1 \in Nat /\ NServers \in Nat \ {0}
    BY DEF TypeOK
  <2>2. (lindex + 1) % NServers \in 0..(NServers - 1)
    BY <2>1
  <2> QED  BY <1>2, <2>2 DEF NextServer, Servers
<1> QED  BY <1>1, <1>2

LEMMA InitIInv == Init => IInv
<1> SUFFICES ASSUME Init  PROVE IInv
  OBVIOUS
<1>1. /\ NServers \in 0..NServers /\ 0 \in 0..MaxSamples
      /\ up \in [Fds -> Seq(Samples)] /\ down \in [Fds -> Seq(Answers)]
  BY EmptySeq DEF Init
<1>2. TypeOK
  BY <1>1 DEF Init, TypeOK, PCs, Unset
<1>3. Numbered /\ SocketsKnown
  BY DEF Init, Numbered, SocketsKnown, InUse
<1>4. NothingElse /\ Earned
  BY DEF Init, NothingElse, Earned, CreditIsEarned, Silent
<1> QED  BY <1>2, <1>3, <1>4 DEF IInv

LEMMA ClientIInv == IInv /\ Client => IInv'
<1> SUFFICES ASSUME IInv, Client  PROVE IInv'
  OBVIOUS
<1> USE DEF call, sockets, network, history
<1>1. ASSUME CallCheck  PROVE IInv'
  <2>1. TypeOK'
    BY <1>1 DEF IInv, TypeOK, CallCheck, Goto, Moves, PCs, InUse
  <2>2. Numbered'
    BY <1>1 DEF IInv, TypeOK, CallCheck, Goto, Moves, Numbered, Samples, InUse
  <2>3. SocketsKnown'
    BY <1>1 DEF IInv, TypeOK, CallCheck, Goto, Moves, SocketsKnown, Leads, InUse
  <2>4. NothingElse'
    BY <1>1
    DEF IInv, TypeOK, CallCheck, Goto, Moves, NothingElse, Expected, Silent,
        InUse
  <2>5. Earned'
    BY <1>1
    DEF IInv, TypeOK, CallCheck, Goto, Moves, Earned, Sent, CreditIsEarned,
        InUse
  <2> QED  BY <2>1, <2>2, <2>3, <2>4, <2>5 DEF IInv
<1>2. ASSUME CallBegin  PROVE IInv'
  <2>1. TypeOK'
    BY <1>2 DEF IInv, TypeOK, CallBegin, Goto, PCs, InUse, Numbered
  <2>2. Numbered'
    BY <1>2 DEF IInv, TypeOK, CallBegin, Goto, Numbered, Samples, InUse
  <2>3. SocketsKnown'
    BY <1>2 DEF IInv, TypeOK, CallBegin, Goto, SocketsKnown, Leads, InUse
  <2>4. NothingElse'
    BY <1>2
    DEF IInv, TypeOK, CallBegin, Goto, NothingElse, Expected, Silent, InUse,
        SocketsKnown, Leads
  <2>5. Earned'
    BY <1>2
    DEF IInv, TypeOK, CallBegin, Goto, Earned, Sent, CreditIsEarned, InUse
  <2> QED  BY <2>1, <2>2, <2>3, <2>4, <2>5 DEF IInv
<1>3. ASSUME Loop  PROVE IInv'
  <2>1. NextServer \in Servers /\ Servers \subseteq 0..NServers
    <3>1. NServers > 0 /\ TypeOK
      BY <1>3 DEF Loop, IInv, TypeOK
    <3> QED  BY <3>1, NextServerIn DEF Servers
  <2>2. TypeOK'
    BY <1>3, <2>1 DEF IInv, TypeOK, Loop, Goto, PCs, InUse
  <2>3. Numbered'
    BY <1>3, <2>1 DEF IInv, TypeOK, Loop, Goto, Numbered, Samples, InUse
  <2>4. SocketsKnown'
    BY <1>3, <2>1 DEF IInv, TypeOK, Loop, Goto, SocketsKnown, Leads, InUse
  <2>5. NothingElse'
    BY <1>3, <2>1
    DEF IInv, TypeOK, Loop, Goto, NothingElse, Expected, Silent, InUse
  <2>6. Earned'
    BY <1>3, <2>1
    DEF IInv, TypeOK, Loop, Goto, Earned, Sent, CreditIsEarned, InUse
  <2> QED  BY <2>2, <2>3, <2>4, <2>5, <2>6 DEF IInv
<1>4. ASSUME LoopEnds  PROVE IInv'
  <2>1. TypeOK'
    BY <1>4 DEF IInv, TypeOK, LoopEnds, Goto, PCs, InUse
  <2>2. Numbered'
    BY <1>4 DEF IInv, TypeOK, LoopEnds, Goto, Numbered, Samples, InUse
  <2>3. SocketsKnown'
    BY <1>4 DEF IInv, TypeOK, LoopEnds, Goto, SocketsKnown, Leads, InUse
  <2>4. NothingElse'
    BY <1>4
    DEF IInv, TypeOK, LoopEnds, Goto, NothingElse, Expected, Silent, InUse
  <2>5. Earned'
    BY <1>4
    DEF IInv, TypeOK, LoopEnds, Goto, Earned, Sent, CreditIsEarned, InUse
  <2> QED  BY <2>1, <2>2, <2>3, <2>4, <2>5 DEF IInv
<1>5. ASSUME Connected  PROVE IInv'
  <2>1. PICK f \in Fds \ opened :
            lfd' = f /\ opened' = opened \cup {f} /\ peer' = [peer EXCEPT ![f] = lindex]
    BY <1>5 DEF Connected
  <2>2. TypeOK'
    BY <1>5, <2>1 DEF IInv, TypeOK, Connected, Goto, PCs, InUse
  <2>3. Numbered'
    BY <1>5, <2>1 DEF IInv, TypeOK, Connected, Goto, Numbered, Samples, InUse
  <2>4. SocketsKnown'
    BY <1>5, <2>1 DEF IInv, TypeOK, Connected, Goto, SocketsKnown, Leads, InUse
  <2>5. NothingElse'
    BY <1>5, <2>1
    DEF IInv, TypeOK, Connected, Goto, NothingElse, Expected, Silent, InUse
  <2>6. Earned'
    BY <1>5, <2>1
    DEF IInv, TypeOK, Connected, Goto, Earned, Sent, CreditIsEarned, InUse
  <2> QED  BY <2>2, <2>3, <2>4, <2>5, <2>6 DEF IInv
<1>6. ASSUME ConnectTimeout  PROVE IInv'
  <2>1. TypeOK'
    BY <1>6 DEF IInv, TypeOK, ConnectTimeout, Goto, PCs, InUse
  <2>2. Numbered'
    BY <1>6 DEF IInv, TypeOK, ConnectTimeout, Goto, Numbered, Samples, InUse
  <2>3. SocketsKnown'
    BY <1>6 DEF IInv, TypeOK, ConnectTimeout, Goto, SocketsKnown, Leads, InUse
  <2>4. NothingElse'
    BY <1>6
    DEF IInv, TypeOK, ConnectTimeout, Goto, NothingElse, Expected, Silent, InUse
  <2>5. Earned'
    BY <1>6
    DEF IInv, TypeOK, ConnectTimeout, Goto, Earned, Sent, CreditIsEarned, InUse
  <2> QED  BY <2>1, <2>2, <2>3, <2>4, <2>5 DEF IInv
<1>7. ASSUME ConnectFails  PROVE IInv'
  <2>1. TypeOK'
    BY <1>7 DEF IInv, TypeOK, ConnectFails, Goto, PCs, InUse
  <2>2. Numbered'
    BY <1>7 DEF IInv, TypeOK, ConnectFails, Goto, Numbered, Samples, InUse
  <2>3. SocketsKnown'
    BY <1>7 DEF IInv, TypeOK, ConnectFails, Goto, SocketsKnown, Leads, InUse
  <2>4. NothingElse'
    BY <1>7
    DEF IInv, TypeOK, ConnectFails, Goto, NothingElse, Expected, Silent, InUse
  <2>5. Earned'
    BY <1>7
    DEF IInv, TypeOK, ConnectFails, Goto, Earned, Sent, CreditIsEarned, InUse
  <2> QED  BY <2>1, <2>2, <2>3, <2>4, <2>5 DEF IInv
<1>8. ASSUME ConnectLeaks  PROVE IInv'
  <2>1. PICK f \in Fds \ opened :
            opened' = opened \cup {f} /\ leaked' = leaked \cup {f}
    BY <1>8 DEF ConnectLeaks
  <2>2. TypeOK'
    BY <1>8, <2>1 DEF IInv, TypeOK, ConnectLeaks, Goto, PCs, InUse
  <2>3. Numbered'
    BY <1>8, <2>1 DEF IInv, TypeOK, ConnectLeaks, Goto, Numbered, Samples, InUse
  <2>4. SocketsKnown'
    BY <1>8, <2>1
    DEF IInv, TypeOK, ConnectLeaks, Goto, SocketsKnown, Leads, InUse
  <2>5. NothingElse'
    BY <1>8, <2>1
    DEF IInv, TypeOK, ConnectLeaks, Goto, NothingElse, Expected, Silent, InUse
  <2>6. Earned'
    BY <1>8, <2>1
    DEF IInv, TypeOK, ConnectLeaks, Goto, Earned, Sent, CreditIsEarned, InUse
  <2> QED  BY <2>2, <2>3, <2>4, <2>5, <2>6 DEF IInv
<1>9. ASSUME ConnectError  PROVE IInv'
  <2>1. TypeOK'
    BY <1>9 DEF IInv, TypeOK, ConnectError, Goto, GivesUp, PCs, InUse
  <2>2. Numbered'
    BY <1>9
    DEF IInv, TypeOK, ConnectError, Goto, GivesUp, Numbered, Samples, InUse
  <2>3. SocketsKnown'
    BY <1>9
    DEF IInv, TypeOK, ConnectError, Goto, GivesUp, SocketsKnown, Leads, InUse
  <2>4. NothingElse'
    BY <1>9
    DEF IInv, TypeOK, ConnectError, Goto, GivesUp, NothingElse, Expected,
        Silent, InUse
  <2>5. Earned'
    BY <1>9
    DEF IInv, TypeOK, ConnectError, Goto, GivesUp, Earned, Sent, CreditIsEarned,
        InUse
  <2> QED  BY <2>1, <2>2, <2>3, <2>4, <2>5 DEF IInv
<1>10. ASSUME Drop  PROVE IInv'
  <2>1. TypeOK'
    BY <1>10, EmptySeq
    DEF IInv, TypeOK, Drop, Goto, Close, NextTry, PCs, InUse, SocketsKnown,
        Leads
  <2>2. Numbered'
    BY <1>10
    DEF IInv, TypeOK, Drop, Goto, Close, NextTry, Numbered, Samples, InUse
  <2>3. SocketsKnown'
    BY <1>10
    DEF IInv, TypeOK, Drop, Goto, Close, NextTry, SocketsKnown, Leads, InUse
  <2>4. NothingElse'
    BY <1>10
    DEF IInv, TypeOK, Drop, Goto, Close, NextTry, NothingElse, Expected, Silent,
        InUse
  <2>5. Earned'
    BY <1>10
    DEF IInv, TypeOK, Drop, Goto, Close, NextTry, Earned, Sent, CreditIsEarned,
        InUse
  <2> QED  BY <2>1, <2>2, <2>3, <2>4, <2>5 DEF IInv
<1>11. ASSUME Done  PROVE IInv'
  <2>1. TypeOK'
    BY <1>11 DEF IInv, TypeOK, Done, Goto, Keep, PCs, InUse, SocketsKnown, Leads
  <2>2. Numbered'
    BY <1>11 DEF IInv, TypeOK, Done, Goto, Keep, Numbered, Samples, InUse
  <2>3. SocketsKnown'
    BY <1>11 DEF IInv, TypeOK, Done, Goto, Keep, SocketsKnown, Leads, InUse
  <2>4. NothingElse'
    BY <1>11
    DEF IInv, TypeOK, Done, Goto, Keep, NothingElse, Expected, Silent, InUse
  <2>5. Earned'
    BY <1>11
    DEF IInv, TypeOK, Done, Goto, Keep, Earned, Sent, CreditIsEarned, InUse,
        SocketsKnown
  <2> QED  BY <2>1, <2>2, <2>3, <2>4, <2>5 DEF IInv
<1>12. ASSUME Header  PROVE IInv'
  <2>1. TypeOK'
    BY <1>12 DEF IInv, TypeOK, Header, Goto, Moves, PCs, InUse
  <2>2. Numbered'
    BY <1>12 DEF IInv, TypeOK, Header, Goto, Moves, Numbered, Samples, InUse
  <2>3. SocketsKnown'
    BY <1>12 DEF IInv, TypeOK, Header, Goto, Moves, SocketsKnown, Leads, InUse
  <2>4. NothingElse'
    BY <1>12
    DEF IInv, TypeOK, Header, Goto, Moves, NothingElse, Expected, Silent, InUse
  <2>5. Earned'
    BY <1>12
    DEF IInv, TypeOK, Header, Goto, Moves, Earned, Sent, CreditIsEarned, InUse
  <2> QED  BY <2>1, <2>2, <2>3, <2>4, <2>5 DEF IInv
<1>13. ASSUME Body  PROVE IInv'
  <2>1. /\ lfd \in Fds /\ cur \in Samples /\ lindex \in Servers /\ peer[lfd] = lindex
        /\ up[lfd] = <<>>
    BY <1>13
    DEF Body, Goto, IInv, TypeOK, SocketsKnown, Leads, Numbered, InUse,
        NothingElse, Silent
  <2>2. TypeOK'
    BY <1>13, <2>1 DEF IInv, TypeOK, Body, Goto, PCs, InUse
  <2>3. Numbered'
    BY <1>13, <2>1 DEF IInv, TypeOK, Body, Goto, Numbered, Samples, InUse
  <2>4. SocketsKnown'
    BY <1>13, <2>1 DEF IInv, TypeOK, Body, Goto, SocketsKnown, Leads, InUse
  <2>5. NothingElse'
    BY <1>13, <2>1
    DEF IInv, TypeOK, Body, Goto, NothingElse, Expected, Silent, InUse
  <2>6. Earned'
    BY <1>13, <2>1
    DEF IInv, TypeOK, Body, Goto, Earned, Sent, CreditIsEarned, InUse
  <2> QED  BY <2>2, <2>3, <2>4, <2>5, <2>6 DEF IInv
<1>14. ASSUME Fail  PROVE IInv'
  <2>1. TypeOK'
    BY <1>14 DEF IInv, TypeOK, Fail, Goto, Moves, PCs, InUse
  <2>2. Numbered'
    BY <1>14 DEF IInv, TypeOK, Fail, Goto, Moves, Numbered, Samples, InUse
  <2>3. SocketsKnown'
    BY <1>14 DEF IInv, TypeOK, Fail, Goto, Moves, SocketsKnown, Leads, InUse
  <2>4. NothingElse'
    BY <1>14
    DEF IInv, TypeOK, Fail, Goto, Moves, NothingElse, Expected, Silent, InUse
  <2>5. Earned'
    BY <1>14
    DEF IInv, TypeOK, Fail, Goto, Moves, Earned, Sent, CreditIsEarned, InUse
  <2> QED  BY <2>1, <2>2, <2>3, <2>4, <2>5 DEF IInv
<1>15. ASSUME RecvPart  PROVE IInv'
  <2>1. TypeOK'
    BY <1>15 DEF IInv, TypeOK, RecvPart, Goto, PCs, InUse
  <2>2. Numbered'
    BY <1>15 DEF IInv, TypeOK, RecvPart, Goto, Numbered, Samples, InUse
  <2>3. SocketsKnown'
    BY <1>15 DEF IInv, TypeOK, RecvPart, Goto, SocketsKnown, Leads, InUse
  <2>4. NothingElse'
    BY <1>15
    DEF IInv, TypeOK, RecvPart, Goto, NothingElse, Expected, Silent, InUse
  <2>5. Earned'
    BY <1>15
    DEF IInv, TypeOK, RecvPart, Goto, Earned, Sent, CreditIsEarned, InUse
  <2> QED  BY <2>1, <2>2, <2>3, <2>4, <2>5 DEF IInv
<1>16. ASSUME RecvAnswer  PROVE IInv'
  <2>1. /\ pc = "recv" /\ lfd \in Fds /\ down[lfd] # <<>>
        /\ down' = [down EXCEPT ![lfd] = Tail(@)]
        /\ up' = up /\ lfd' = lfd
    BY <1>16 DEF RecvAnswer, IInv, TypeOK, SocketsKnown, Leads, InUse
  <2>2. PICK ok \in BOOLEAN : /\ up[lfd] = <<>>
                              /\ down[lfd] = <<[sample |-> cur, ok |-> ok]>>
    BY <2>1 DEF IInv, NothingElse, Expected, Silent
  <2>3. Head(down[lfd]) = [sample |-> cur, ok |-> ok] /\ Tail(down[lfd]) = <<>>
    BY <2>2
  <2>4. /\ Silent(lfd)'
        /\ Head(down[lfd]).ok => Head(down[lfd]).sample = cur
        /\ \A f \in Fds \ {lfd} : down'[f] = down[f]
    BY <2>1, <2>2, <2>3 DEF IInv, TypeOK, Silent
  <2>5. down' \in [Fds -> Seq(Answers)]
    BY <2>1, <2>3 DEF IInv, TypeOK
  <2>6. TypeOK'
    BY <1>16, <2>1, <2>5 DEF IInv, TypeOK, RecvAnswer, Accepts, PCs, InUse
  <2>7. Numbered'
    BY <1>16 DEF IInv, RecvAnswer, Accepts, Numbered, InUse
  <2>8. SocketsKnown'
    BY <1>16 DEF IInv, RecvAnswer, Accepts, SocketsKnown, Leads, InUse
  <2>9. NothingElse'
    BY <1>16, <2>1, <2>4
    DEF IInv, RecvAnswer, Accepts, NothingElse, Silent, InUse
  <2>10. Earned'
    BY <1>16, <2>1, <2>3, <2>4
    DEF IInv, TypeOK, RecvAnswer, Accepts, Earned, Sent, CreditIsEarned, InUse
  <2> QED  BY <2>6, <2>7, <2>8, <2>9, <2>10 DEF IInv
<1>17. ASSUME RecvEof  PROVE IInv'
  <2>1. TypeOK'
    BY <1>17 DEF IInv, TypeOK, RecvEof, Goto, Moves, PCs, InUse
  <2>2. Numbered'
    BY <1>17 DEF IInv, TypeOK, RecvEof, Goto, Moves, Numbered, Samples, InUse
  <2>3. SocketsKnown'
    BY <1>17 DEF IInv, TypeOK, RecvEof, Goto, Moves, SocketsKnown, Leads, InUse
  <2>4. NothingElse'
    BY <1>17
    DEF IInv, TypeOK, RecvEof, Goto, Moves, NothingElse, Expected, Silent, InUse
  <2>5. Earned'
    BY <1>17
    DEF IInv, TypeOK, RecvEof, Goto, Moves, Earned, Sent, CreditIsEarned, InUse
  <2> QED  BY <2>1, <2>2, <2>3, <2>4, <2>5 DEF IInv
<1> QED
  BY <1>1, <1>2, <1>3, <1>4, <1>5, <1>6, <1>7, <1>8, <1>9, <1>10, <1>11, <1>12,
     <1>13, <1>14, <1>15, <1>16, <1>17
  DEF Client

LEMMA StepIInv == IInv /\ [Next]_vars => IInv'
<1> SUFFICES ASSUME IInv, [Next]_vars  PROVE IInv'
  OBVIOUS
<1> USE DEF call, sockets, network, history
<1>1. CASE Client
  BY <1>1, ClientIInv
<1>2. CASE Stop
  <2>1. TypeOK'
    BY <1>2 DEF IInv, TypeOK, Stop, PCs, InUse
  <2>2. Numbered'
    BY <1>2 DEF IInv, TypeOK, Stop, Numbered, Samples, InUse
  <2>3. SocketsKnown'
    BY <1>2 DEF IInv, TypeOK, Stop, SocketsKnown, Leads, InUse
  <2>4. NothingElse'
    BY <1>2 DEF IInv, TypeOK, Stop, NothingElse, Expected, Silent, InUse
  <2>5. Earned'
    BY <1>2 DEF IInv, TypeOK, Stop, Earned, Sent, CreditIsEarned, InUse
  <2> QED  BY <2>1, <2>2, <2>3, <2>4, <2>5 DEF IInv
<1>3. ASSUME NEW f \in Fds, ServerCloses(f)  PROVE IInv'
  <2>1. TypeOK'
    BY <1>3 DEF IInv, TypeOK, ServerCloses, PCs, InUse
  <2>2. Numbered'
    BY <1>3 DEF IInv, TypeOK, ServerCloses, Numbered, Samples, InUse
  <2>3. SocketsKnown'
    BY <1>3 DEF IInv, TypeOK, ServerCloses, SocketsKnown, Leads, InUse
  <2>4. NothingElse'
    BY <1>3 DEF IInv, TypeOK, ServerCloses, NothingElse, Expected, Silent, InUse
  <2>5. Earned'
    BY <1>3 DEF IInv, TypeOK, ServerCloses, Earned, Sent, CreditIsEarned, InUse
  <2> QED  BY <2>1, <2>2, <2>3, <2>4, <2>5 DEF IInv
<1>4. ASSUME NEW f \in Fds, NEW ok \in BOOLEAN, ServerAnswers(f, ok)
      PROVE  IInv'
  <2>1. f = lfd /\ pc \in {"recv", "spin", "failed"}
    BY <1>4 DEF ServerAnswers, IInv, NothingElse, Silent
  <2>2. Head(up[f]) \in Samples /\ Tail(up[f]) \in Seq(Samples)
    BY <1>4, HeadTailProperties DEF ServerAnswers, IInv, TypeOK
  <2>3. up' \in [Fds -> Seq(Samples)] /\ down' \in [Fds -> Seq(Answers)]
    <3>1. [sample |-> Head(up[f]), ok |-> ok] \in Answers
      BY <2>2 DEF Answers
    <3> QED
      BY <1>4, <2>2, <3>1, AppendProperties DEF ServerAnswers, IInv, TypeOK
  <2>4. TypeOK'
    BY <1>4, <2>1, <2>3 DEF IInv, TypeOK, ServerAnswers, PCs, InUse
  <2>5. Numbered'
    BY <1>4, <2>1, <2>3
    DEF IInv, TypeOK, ServerAnswers, Numbered, Samples, InUse
  <2>6. SocketsKnown'
    BY <1>4, <2>1, <2>3
    DEF IInv, TypeOK, ServerAnswers, SocketsKnown, Leads, InUse
  <2>7. NothingElse'
    <3>1. \A g \in Fds \ {f} : up'[g] = up[g] /\ down'[g] = down[g]
      BY <1>4 DEF ServerAnswers, IInv, TypeOK
    <3>2. \A g \in Fds \ {f} : Silent(g)'
      BY <2>1, <3>1 DEF IInv, NothingElse, Silent
    <3>3. ASSUME pc = "recv"  PROVE Expected'
      <4>1. up[f] = <<cur>> /\ down[f] = <<>>
        BY <1>4, <2>1, <3>3
        DEF ServerAnswers, IInv, NothingElse, Expected, Silent
      <4>2. Tail(up[f]) = <<>> /\ Append(down[f], [sample |-> cur, ok |-> ok])
                                   = <<[sample |-> cur, ok |-> ok]>>
        BY <4>1
      <4>3. up'[f] = <<>> /\ down'[f] = <<[sample |-> cur, ok |-> ok]>>
        BY <1>4, <4>1, <4>2 DEF ServerAnswers, IInv, TypeOK
      <4> QED  BY <1>4, <2>1, <4>3 DEF ServerAnswers, Expected
    <3> QED  BY <1>4, <2>1, <3>2, <3>3 DEF ServerAnswers, NothingElse
  <2>8. Earned'
    BY <1>4, <2>1, <2>3
    DEF IInv, TypeOK, ServerAnswers, Earned, Sent, CreditIsEarned, InUse
  <2> QED  BY <2>4, <2>5, <2>6, <2>7, <2>8 DEF IInv
<1>5. CASE UNCHANGED vars
  <2>1. TypeOK'
    BY <1>5 DEF IInv, TypeOK, vars, PCs, InUse
  <2>2. Numbered'
    BY <1>5 DEF IInv, TypeOK, vars, Numbered, Samples, InUse
  <2>3. SocketsKnown'
    BY <1>5 DEF IInv, TypeOK, vars, SocketsKnown, Leads, InUse
  <2>4. NothingElse'
    BY <1>5 DEF IInv, TypeOK, vars, NothingElse, Expected, Silent, InUse
  <2>5. Earned'
    BY <1>5 DEF IInv, TypeOK, vars, Earned, Sent, CreditIsEarned, InUse
  <2> QED  BY <2>1, <2>2, <2>3, <2>4, <2>5 DEF IInv
<1> QED
  BY <1>1, <1>2, <1>3, <1>4, <1>5 DEF Next

\* Sockets, what is under way on them and what is credited: the invariant of the
\* proofs (ca_acquisition.c:582-742).
THEOREM SubmitInvariant == Spec => []IInv
  BY InitIInv, StepIInv, PTL DEF Spec
-----------------------------------------------------------------------------
\* ca_select_submit uses a socket only while it is open and leads to the server
\* it is taken for, the descriptor kept from an earlier call included.
THEOREM SocketsValid == Spec => []SocketValid
<1>1. IInv => SocketValid
  BY DEF IInv, SocketsKnown, Leads, SocketValid
<1> QED  BY <1>1, SubmitInvariant, PTL

\* Between two calls only the socket in *pfd is open, and the ones that
\* tcp_connect_timeout lost.
THEOREM OneConnectionOpen == Spec => []OneConnection
<1>1. IInv => OneConnection
  BY DEF IInv, SocketsKnown, OneConnection
<1> QED  BY <1>1, SubmitInvariant, PTL

\* A sample is taken for delivered only after the server it was sent to has
\* answered this very sample with "ok" (ca_acquisition.c:712-742).
THEOREM CreditEarned == Spec => []CreditIsEarned
<1>1. IInv => CreditIsEarned
  BY DEF IInv, Earned
<1> QED  BY <1>1, SubmitInvariant, PTL
-----------------------------------------------------------------------------
\* tcp_connect_timeout is called for the next server of the ring.
LEMMA TriedOneMore ==
  ASSUME IInv, Ring, pc = "connect", tried' = Append(tried, lindex)
  PROVE  /\ tried' \in Seq(Servers) /\ Len(tried') = i + 1
         /\ \A k \in 1..(Len(tried') - 1) :
              tried'[k + 1] = (tried'[k] + 1) % NServers
         /\ tried' # <<>> /\ tried'[Len(tried')] = lindex
<1>1. /\ tried \in Seq(Servers) /\ Len(tried) = i /\ i \in Nat
      /\ lindex \in Servers
  BY DEF Ring, Calling, Turn, IInv, TypeOK, SocketsKnown
<1>2. /\ tried' \in Seq(Servers) /\ Len(tried') = i + 1
      /\ \A k \in 1..i : tried'[k] = tried[k]
      /\ tried'[i + 1] = lindex
  BY <1>1, AppendProperties
<1>3. ASSUME NEW k \in 1..i  PROVE tried'[k + 1] = (tried'[k] + 1) % NServers
  <2>1. CASE k = i
    <3>1. tried # <<>>
      BY <1>1, <2>1
    <3> QED  BY <1>1, <1>2, <2>1, <3>1 DEF Ring, Calling
  <2>2. CASE k # i
    <3>1. k \in 1..(Len(tried) - 1) /\ k + 1 \in 1..i
      BY <1>1, <2>2
    <3> QED  BY <1>1, <1>2, <3>1 DEF Ring, Calling
  <2> QED  BY <2>1, <2>2
<1> QED  BY <1>1, <1>2, <1>3

LEMMA RingStep == IInv /\ Ring /\ [Next]_vars => Ring'
<1> SUFFICES ASSUME IInv, Ring, [Next]_vars  PROVE Ring'
  OBVIOUS
<1> USE DEF call, sockets, network, history
<1>1. CASE CallCheck
  BY <1>1
  DEF CallCheck, Goto, Moves, IInv, TypeOK, Ring, Calling, Attempt, Turn, InUse,
      AllServersTried
<1>2. CASE CallBegin
  <2>1. tried' = <<>> /\ i' = 0 /\ Len(tried') = 0 /\ NServers \in Nat
    BY <1>2 DEF CallBegin
  <2>2. Calling' /\ ~Attempt' /\ pc' \in {"header", "loop"}
    BY <1>2 DEF CallBegin, Calling, Attempt, InUse
  <2> QED  BY <2>1, <2>2 DEF Ring, Turn, Calling, AllServersTried
<1>3. CASE Loop
  <2>1. /\ pc = "loop" /\ pc' = "connect" /\ i < NServers
        /\ lindex' = NextServer /\ i' = i /\ tried' = tried
    BY <1>3 DEF Loop, Goto
  <2>2. Len(tried) = i /\ i \in Nat
    BY <2>1 DEF IInv, TypeOK, Ring, Calling, Turn, Attempt, InUse
  <2>3. ASSUME tried # <<>>
        PROVE  lindex' = (tried[Len(tried)] + 1) % NServers
    <3>1. lindex = tried[Len(tried)] /\ tried[Len(tried)] \in Servers
      BY <2>1, <2>3 DEF Ring, Calling
    <3> QED  BY <2>1, <3>1, UnsetAssumption DEF NextServer
  <2> QED
    BY <2>1, <2>2, <2>3 DEF Ring, Calling, Turn, Attempt, InUse, AllServersTried
<1>4. CASE LoopEnds
  BY <1>4
  DEF LoopEnds, Goto, IInv, TypeOK, Ring, Calling, Attempt, Turn, InUse,
      AllServersTried
<1>5. CASE Connected
  <2>1. /\ pc = "connect" /\ tried' = Append(tried, lindex)
        /\ i < NServers /\ i \in Nat /\ NServers \in Nat
    BY <1>5 DEF Connected, Goto, IInv, TypeOK, Ring, Attempt
  <2> QED
    BY <1>5, <2>1, TriedOneMore
    DEF Connected, Goto, Ring, Calling, Turn, Attempt, InUse, AllServersTried
<1>6. CASE ConnectTimeout
  <2>1. /\ pc = "connect" /\ tried' = Append(tried, lindex)
        /\ i < NServers /\ i \in Nat /\ NServers \in Nat
    BY <1>6 DEF ConnectTimeout, Goto, IInv, TypeOK, Ring, Attempt
  <2> QED
    BY <1>6, <2>1, TriedOneMore
    DEF ConnectTimeout, Goto, Ring, Calling, Turn, Attempt, InUse, AllServersTried
<1>7. CASE ConnectFails
  <2>1. /\ pc = "connect" /\ tried' = Append(tried, lindex)
        /\ i < NServers /\ i \in Nat /\ NServers \in Nat
    BY <1>7 DEF ConnectFails, Goto, IInv, TypeOK, Ring, Attempt
  <2> QED
    BY <1>7, <2>1, TriedOneMore
    DEF ConnectFails, Goto, Ring, Calling, Turn, Attempt, InUse, AllServersTried
<1>8. CASE ConnectLeaks
  <2>1. /\ pc = "connect" /\ tried' = Append(tried, lindex)
        /\ i < NServers /\ i \in Nat /\ NServers \in Nat
    BY <1>8 DEF ConnectLeaks, Goto, IInv, TypeOK, Ring, Attempt
  <2> QED
    BY <1>8, <2>1, TriedOneMore
    DEF ConnectLeaks, Goto, Ring, Calling, Turn, Attempt, InUse, AllServersTried
<1>9. CASE ConnectError
  <2>1. /\ pc = "connect_error" /\ UNCHANGED <<tried, lindex, stop, index, kept>>
        /\ \/ pc' = "idle" /\ stop /\ i' = i
           \/ pc' = "loop" /\ i' = i + 1
    BY <1>9 DEF ConnectError, GivesUp, Goto
  <2>2. Len(tried) = i + 1 /\ i < NServers /\ i \in Nat /\ NServers \in Nat
    BY <2>1 DEF IInv, TypeOK, Ring, Calling, Turn, Attempt
  <2> QED
    BY <2>1, <2>2 DEF Ring, Calling, Turn, Attempt, InUse, AllServersTried
<1>10. CASE Drop
  BY <1>10
  DEF Drop, Goto, Close, NextTry, IInv, TypeOK, Ring, Calling, Attempt, Turn,
      InUse, AllServersTried
<1>11. CASE Done
  BY <1>11
  DEF Done, Goto, Keep, IInv, TypeOK, Ring, Calling, Attempt, Turn, InUse,
      AllServersTried
<1>12. CASE Header
  BY <1>12
  DEF Header, Goto, Moves, IInv, TypeOK, Ring, Calling, Attempt, Turn, InUse,
      AllServersTried
<1>13. CASE Body
  BY <1>13
  DEF Body, Goto, IInv, TypeOK, Ring, Calling, Attempt, Turn, InUse,
      AllServersTried
<1>14. CASE Fail
  BY <1>14
  DEF Fail, Goto, Moves, IInv, TypeOK, Ring, Calling, Attempt, Turn, InUse,
      AllServersTried
<1>15. CASE RecvPart
  BY <1>15
  DEF RecvPart, Goto, IInv, TypeOK, Ring, Calling, Attempt, Turn, InUse,
      AllServersTried
<1>16. CASE RecvAnswer
  BY <1>16
  DEF RecvAnswer, Accepts, IInv, TypeOK, Ring, Calling, Attempt, Turn, InUse,
      AllServersTried
<1>17. CASE RecvEof
  BY <1>17
  DEF RecvEof, Goto, Moves, IInv, TypeOK, Ring, Calling, Attempt, Turn, InUse,
      AllServersTried
<1>18. CASE Stop
  BY <1>18
  DEF Stop, IInv, TypeOK, Ring, Calling, Attempt, Turn, InUse, AllServersTried
<1>19. CASE \E f \in Fds : ServerCloses(f)
  BY <1>19
  DEF ServerCloses, IInv, TypeOK, Ring, Calling, Attempt, Turn, InUse,
      AllServersTried
<1>20. CASE \E f \in Fds, ok \in BOOLEAN : ServerAnswers(f, ok)
  BY <1>20
  DEF ServerAnswers, IInv, TypeOK, Ring, Calling, Attempt, Turn, InUse,
      AllServersTried
<1>21. CASE UNCHANGED vars
  BY <1>21
  DEF vars, IInv, TypeOK, Ring, Calling, Attempt, Turn, InUse, AllServersTried
<1> QED
  BY <1>1, <1>2, <1>3, <1>4, <1>5, <1>6, <1>7, <1>8, <1>9, <1>10, <1>11, <1>12,
     <1>13, <1>14, <1>15, <1>16, <1>17, <1>18, <1>19, <1>20, <1>21
  DEF Next, Client

LEMMA NextServerPlaced ==
  ASSUME IInv, Placed, pc = "loop", i < NServers
  PROVE  NextServer \in Servers /\ Turns(NextServer) = i + 1
<1>1. /\ i \in Nat /\ NServers \in Nat \ {0} /\ index \in 0..NServers
      /\ NextServer \in Servers
  BY NextServerIn DEF IInv, TypeOK
<1>2. CASE lindex = Unset
  <2>1. i = 0 /\ index = Unset
    BY <1>2, UnsetAssumption DEF Placed
  <2> QED  BY <1>1, <1>2, <2>1 DEF NextServer, Turns
<1>3. CASE lindex # Unset
  <2>1. lindex \in Servers
    BY <1>3 DEF IInv, TypeOK, Servers, Unset
  <2>2. NextServer = IF lindex + 1 = NServers THEN 0 ELSE lindex + 1
    BY <1>3, <2>1, RingNext DEF NextServer
  <2>3. IF i = 0 THEN lindex = index ELSE Turns(lindex) = i
    BY DEF Placed
  <2> QED  BY <1>1, <1>3, <2>1, <2>2, <2>3 DEF Turns, Servers, Unset
<1> QED  BY <1>2, <1>3

LEMMA PlacedStep == IInv /\ Ring /\ Placed /\ [Next]_vars => Placed'
<1> SUFFICES ASSUME IInv, Ring, Placed, [Next]_vars  PROVE Placed'
  OBVIOUS
<1> USE DEF call, sockets, network, history
<1>1. CASE CallCheck
  BY <1>1
  DEF CallCheck, Goto, Moves, IInv, TypeOK, SocketsKnown, Placed, Ring, Calling,
      Attempt, Turns, InUse
<1>2. CASE CallBegin
  BY <1>2
  DEF CallBegin, IInv, TypeOK, SocketsKnown, Placed, Ring, Calling, Attempt,
      Turns, InUse
<1>3. CASE Loop
  <2>1. /\ pc' = "connect" /\ lindex' = NextServer /\ i' = i /\ index' = index
        /\ NextServer \in Servers /\ Turns(NextServer) = i + 1
    BY <1>3, NextServerPlaced DEF Loop, Goto
  <2> QED  BY <2>1 DEF Placed, Attempt, Turns, InUse
<1>4. CASE LoopEnds
  BY <1>4
  DEF LoopEnds, Goto, IInv, TypeOK, SocketsKnown, Placed, Ring, Calling,
      Attempt, Turns, InUse
<1>5. CASE Connected
  BY <1>5
  DEF Connected, Goto, IInv, TypeOK, SocketsKnown, Placed, Ring, Calling,
      Attempt, Turns, InUse
<1>6. CASE ConnectTimeout
  BY <1>6
  DEF ConnectTimeout, Goto, IInv, TypeOK, SocketsKnown, Placed, Ring, Calling,
      Attempt, Turns, InUse
<1>7. CASE ConnectFails
  BY <1>7
  DEF ConnectFails, Goto, IInv, TypeOK, SocketsKnown, Placed, Ring, Calling,
      Attempt, Turns, InUse
<1>8. CASE ConnectLeaks
  BY <1>8
  DEF ConnectLeaks, Goto, IInv, TypeOK, SocketsKnown, Placed, Ring, Calling,
      Attempt, Turns, InUse
<1>9. CASE ConnectError
  <2>1. /\ pc = "connect_error" /\ UNCHANGED <<lindex, index>>
        /\ pc' = "idle" \/ (pc' = "loop" /\ i' = i + 1 /\ i' # 0)
    BY <1>9 DEF ConnectError, GivesUp, Goto, IInv, TypeOK
  <2>2. lindex \in Servers /\ Turns(lindex) = i + 1
    BY <2>1 DEF Placed, Attempt
  <2> QED  BY <2>1, <2>2 DEF Placed, Attempt, Turns, InUse
<1>10. CASE Drop
  BY <1>10
  DEF Drop, Goto, Close, NextTry, IInv, TypeOK, SocketsKnown, Placed, Ring,
      Calling, Attempt, Turns, InUse
<1>11. CASE Done
  BY <1>11
  DEF Done, Goto, Keep, IInv, TypeOK, SocketsKnown, Placed, Ring, Calling,
      Attempt, Turns, InUse
<1>12. CASE Header
  BY <1>12
  DEF Header, Goto, Moves, IInv, TypeOK, SocketsKnown, Placed, Ring, Calling,
      Attempt, Turns, InUse
<1>13. CASE Body
  BY <1>13
  DEF Body, Goto, IInv, TypeOK, SocketsKnown, Placed, Ring, Calling, Attempt,
      Turns, InUse
<1>14. CASE Fail
  BY <1>14
  DEF Fail, Goto, Moves, IInv, TypeOK, SocketsKnown, Placed, Ring, Calling,
      Attempt, Turns, InUse
<1>15. CASE RecvPart
  BY <1>15
  DEF RecvPart, Goto, IInv, TypeOK, SocketsKnown, Placed, Ring, Calling,
      Attempt, Turns, InUse
<1>16. CASE RecvAnswer
  BY <1>16
  DEF RecvAnswer, Accepts, IInv, TypeOK, SocketsKnown, Placed, Ring, Calling,
      Attempt, Turns, InUse
<1>17. CASE RecvEof
  BY <1>17
  DEF RecvEof, Goto, Moves, IInv, TypeOK, SocketsKnown, Placed, Ring, Calling,
      Attempt, Turns, InUse
<1>18. CASE Stop
  BY <1>18
  DEF Stop, IInv, TypeOK, SocketsKnown, Placed, Ring, Calling, Attempt, Turns,
      InUse
<1>19. CASE \E f \in Fds : ServerCloses(f)
  BY <1>19
  DEF ServerCloses, IInv, TypeOK, SocketsKnown, Placed, Ring, Calling, Attempt,
      Turns, InUse
<1>20. CASE \E f \in Fds, ok \in BOOLEAN : ServerAnswers(f, ok)
  BY <1>20
  DEF ServerAnswers, IInv, TypeOK, SocketsKnown, Placed, Ring, Calling, Attempt,
      Turns, InUse
<1>21. CASE UNCHANGED vars
  BY <1>21
  DEF vars, IInv, TypeOK, SocketsKnown, Placed, Ring, Calling, Attempt, Turns,
      InUse
<1> QED
  BY <1>1, <1>2, <1>3, <1>4, <1>5, <1>6, <1>7, <1>8, <1>9, <1>10, <1>11, <1>12,
     <1>13, <1>14, <1>15, <1>16, <1>17, <1>18, <1>19, <1>20, <1>21
  DEF Next, Client

LEMMA TurnsIn ==
  ASSUME TypeOK, NEW s \in Servers
  PROVE  Turns(s) \in 1..NServers
BY DEF TypeOK, Turns, Servers, Unset

\* A step that sends nothing.
LEMMA CountsKept ==
  ASSUME IInv, Counted, UNCHANGED <<cur, index, kept, sends>>,
         Calling, pc' \notin {"header", "body"},
         ~Calling' \/ (Past \in Int /\ Past' \in Int /\ Past' >= Past)
  PROVE  Counted'
<1>1. \A s \in Servers : Turns(s)' = Turns(s) /\ Turns(s) \in Int
  BY TurnsIn DEF Turns, IInv
<1>2. ASSUME NEW x \in Samples, x < cur' \/ (x = cur' /\ ~Calling')
      PROVE  \E d \in 0..NServers : SentTo(d, x)'
  BY <1>2 DEF Counted, SentTo, IInv, TypeOK
<1> QED  BY <1>1, <1>2 DEF Counted, SentTo, Before

LEMMA CountedStep ==
  IInv /\ Ring /\ Placed /\ Counted /\ [Next]_vars => Counted'
<1> SUFFICES ASSUME IInv, Ring, Placed, Counted, [Next]_vars  PROVE Counted'
  OBVIOUS
<1> USE DEF call, sockets, network, history
<1>1. CASE CallCheck
  BY <1>1
  DEF CallCheck, Goto, Moves, IInv, TypeOK, SocketsKnown, Numbered, Samples,
      Counted, SentTo, Placed, Ring, Calling, Attempt, Turn, Past, Before,
      Turns, InUse
<1>2. CASE CallBegin
  <2>1. /\ pc = "ready" /\ cur' = cur + 1 /\ cur' \in Samples /\ cur \in Nat
        /\ UNCHANGED <<sends, index>>
        /\ sends \in [Servers -> [Samples -> Nat]]
    BY <1>2 DEF CallBegin, IInv, TypeOK, Numbered, Samples
  <2>2. \A s \in Servers : sends'[s][cur'] = 0
    BY <2>1 DEF Counted
  <2>3. \A x \in Samples : x < cur' => x < cur \/ x = cur
    BY <2>1 DEF Samples
  <2>4. \A x \in Samples : x < cur' => \E d \in 0..NServers : SentTo(d, x)'
    BY <2>1, <2>3 DEF Counted, Calling, SentTo
  <2>5. Calling'
    BY <1>2 DEF CallBegin, Calling
  <2>6. \A s \in Servers, x \in Samples : x > cur' => sends'[s][x] = 0
    BY <2>1 DEF Counted, Samples
  <2>7. SentTo(index, cur)'
    BY <2>2 DEF SentTo
  <2>8. \A s \in Servers : sends'[s][cur'] <= Before(s)'
    BY <2>2 DEF Before
  <2> QED  BY <2>1, <2>2, <2>4, <2>5, <2>6, <2>7, <2>8 DEF Counted
<1>3. CASE Loop
  BY <1>3
  DEF Loop, Goto, IInv, TypeOK, SocketsKnown, Numbered, Samples, Counted,
      SentTo, Placed, Ring, Calling, Attempt, Turn, Past, Before, Turns, InUse
<1>4. CASE LoopEnds
  BY <1>4
  DEF LoopEnds, Goto, IInv, TypeOK, SocketsKnown, Numbered, Samples, Counted,
      SentTo, Placed, Ring, Calling, Attempt, Turn, Past, Before, Turns, InUse
<1>5. CASE Connected
  BY <1>5
  DEF Connected, Goto, IInv, TypeOK, SocketsKnown, Numbered, Samples, Counted,
      SentTo, Placed, Ring, Calling, Attempt, Turn, Past, Before, Turns, InUse
<1>6. CASE ConnectTimeout
  <2>1. /\ UNCHANGED <<cur, index, kept, sends>>
        /\ Calling /\ pc' \notin {"header", "body"}
    BY <1>6 DEF ConnectTimeout, Goto, Calling
  <2>2. ~Calling' \/ (Past \in Int /\ Past' \in Int /\ Past' >= Past)
    BY <1>6
    DEF ConnectTimeout, Goto, IInv, TypeOK, Calling, Past, Turn, Attempt,
       InUse, Ring
  <2> QED  BY <2>1, <2>2, CountsKept
<1>7. CASE ConnectFails
  <2>1. /\ UNCHANGED <<cur, index, kept, sends>>
        /\ Calling /\ pc' \notin {"header", "body"}
    BY <1>7 DEF ConnectFails, Goto, Calling
  <2>2. ~Calling' \/ (Past \in Int /\ Past' \in Int /\ Past' >= Past)
    BY <1>7 DEF ConnectFails, Goto, IInv, TypeOK, Calling, Past, Turn, Attempt,
       InUse, Ring
  <2> QED  BY <2>1, <2>2, CountsKept
<1>8. CASE ConnectLeaks
  <2>1. /\ UNCHANGED <<cur, index, kept, sends>>
        /\ Calling /\ pc' \notin {"header", "body"}
    BY <1>8 DEF ConnectLeaks, Goto, Calling
  <2>2. ~Calling' \/ (Past \in Int /\ Past' \in Int /\ Past' >= Past)
    BY <1>8 DEF ConnectLeaks, Goto, IInv, TypeOK, Calling, Past, Turn, Attempt,
       InUse, Ring
  <2> QED  BY <2>1, <2>2, CountsKept
<1>9. CASE ConnectError
  <2>1. /\ UNCHANGED <<cur, index, kept, sends>>
        /\ Calling /\ pc' \notin {"header", "body"}
    BY <1>9 DEF ConnectError, GivesUp, Goto, Calling
  <2>2. ~Calling' \/ (Past \in Int /\ Past' \in Int /\ Past' >= Past)
    BY <1>9
    DEF ConnectError, GivesUp, Goto, IInv, TypeOK, Calling, Past, Turn, Attempt,
       InUse, Ring
  <2> QED  BY <2>1, <2>2, CountsKept
<1>10. CASE Drop
  BY <1>10
  DEF Drop, Goto, Close, NextTry, IInv, TypeOK, SocketsKnown, Numbered, Samples,
      Counted, SentTo, Placed, Ring, Calling, Attempt, Turn, Past, Before,
      Turns, InUse
<1>11. CASE Done
  BY <1>11
  DEF Done, Goto, Keep, IInv, TypeOK, SocketsKnown, Numbered, Samples, Counted,
      SentTo, Placed, Ring, Calling, Attempt, Turn, Past, Before, Turns, InUse
<1>12. CASE Header
  BY <1>12
  DEF Header, Goto, Moves, IInv, TypeOK, SocketsKnown, Numbered, Samples,
      Counted, SentTo, Placed, Ring, Calling, Attempt, Turn, Past, Before,
      Turns, InUse
<1>13. CASE Body
  <2>1. /\ pc = "body" /\ pc' = "recv" /\ Calling /\ Calling'
        /\ UNCHANGED <<cur, index, kept, i>>
        /\ cur \in Samples /\ lindex \in Servers
        /\ \A s \in Servers, x \in Samples :
             sends'[s][x] = IF s = lindex /\ x = cur THEN sends[s][x] + 1
                                                      ELSE sends[s][x]
    BY <1>13 DEF Body, Goto, Calling, IInv, TypeOK, Numbered, SocketsKnown,
       Leads, InUse
  <2>2. \A s \in Servers, x \in Samples : sends[s][x] \in Nat
    BY DEF IInv, TypeOK
  <2>3. ASSUME kept
        PROVE  /\ SentTo(index, cur)'
               /\ \A s \in Servers :
                    Turns(s)' > Past' => sends'[s][cur] <= Before(s)'
    <3>1. lindex = index /\ \A s \in Servers : sends[s][cur] = 0
      BY <2>1, <2>3 DEF Counted, IInv, SocketsKnown, InUse
    <3> QED  BY <2>1, <3>1 DEF SentTo, Before
  <2>4. ASSUME ~kept
        PROVE  /\ SentTo(index, cur)'
               /\ \A s \in Servers :
                    Turns(s)' > Past' => sends'[s][cur] <= Before(s)'
    <3>1. /\ Turns(lindex) = i + 1 /\ Past = i /\ Past' = i + 1 /\ i \in Nat
          /\ \A s \in Servers : Turns(s) \in Int
      BY <2>1, <2>4, TurnsIn
      DEF Placed, Past, Turn, Attempt, InUse, IInv, TypeOK
    <3>2. sends[lindex][cur] <= Before(lindex)
      BY <2>1, <3>1 DEF Counted
    <3>3. SentTo(index, cur)'
      BY <2>1, <2>2, <3>2 DEF Counted, SentTo, Before
    <3>4. \A s \in Servers : Turns(s)' > Past' => sends'[s][cur] <= Before(s)'
      BY <2>1, <3>1 DEF Counted, Before, Turns
    <3> QED  BY <3>3, <3>4
  <2>5. /\ SentTo(index, cur)'
        /\ \A s \in Servers : Turns(s)' > Past' => sends'[s][cur] <= Before(s)'
    BY <2>3, <2>4
  <2>6. \A x \in Samples : x < cur => \E d \in 0..NServers : SentTo(d, x)'
    BY <2>1, <2>2 DEF Counted, SentTo, Samples
  <2>7. \A s \in Servers, x \in Samples : x > cur => sends'[s][x] = 0
    BY <2>1, <2>2 DEF Counted, SentTo, Samples
  <2> QED  BY <2>1, <2>5, <2>6, <2>7 DEF Counted
<1>14. CASE Fail
  <2>1. /\ UNCHANGED <<cur, index, kept, sends>>
        /\ Calling /\ pc' \notin {"header", "body"}
    BY <1>14 DEF Fail, Moves, Goto, Calling
  <2>2. ~Calling' \/ (Past \in Int /\ Past' \in Int /\ Past' >= Past)
    BY <1>14 DEF Fail, Moves, Goto, IInv, TypeOK, Calling, Past, Turn, Attempt,
       InUse, Ring
  <2> QED  BY <2>1, <2>2, CountsKept
<1>15. CASE RecvPart
  BY <1>15
  DEF RecvPart, Goto, IInv, TypeOK, SocketsKnown, Numbered, Samples, Counted,
      SentTo, Placed, Ring, Calling, Attempt, Turn, Past, Before, Turns, InUse
<1>16. CASE RecvAnswer
  BY <1>16
  DEF RecvAnswer, Accepts, IInv, TypeOK, SocketsKnown, Numbered, Samples,
      Counted, SentTo, Placed, Ring, Calling, Attempt, Turn, Past, Before,
      Turns, InUse
<1>17. CASE RecvEof
  BY <1>17
  DEF RecvEof, Goto, Moves, IInv, TypeOK, SocketsKnown, Numbered, Samples,
      Counted, SentTo, Placed, Ring, Calling, Attempt, Turn, Past, Before,
      Turns, InUse
<1>18. CASE Stop
  BY <1>18
  DEF Stop, IInv, TypeOK, SocketsKnown, Numbered, Samples, Counted, SentTo,
      Placed, Ring, Calling, Attempt, Turn, Past, Before, Turns, InUse
<1>19. CASE \E f \in Fds : ServerCloses(f)
  BY <1>19
  DEF ServerCloses, IInv, TypeOK, SocketsKnown, Numbered, Samples, Counted,
      SentTo, Placed, Ring, Calling, Attempt, Turn, Past, Before, Turns, InUse
<1>20. CASE \E f \in Fds, ok \in BOOLEAN : ServerAnswers(f, ok)
  BY <1>20
  DEF ServerAnswers, IInv, TypeOK, SocketsKnown, Numbered, Samples, Counted,
      SentTo, Placed, Ring, Calling, Attempt, Turn, Past, Before, Turns, InUse
<1>21. CASE UNCHANGED vars
  BY <1>21
  DEF vars, IInv, TypeOK, SocketsKnown, Numbered, Samples, Counted, SentTo,
      Placed, Ring, Calling, Attempt, Turn, Past, Before, Turns, InUse
<1> QED
  BY <1>1, <1>2, <1>3, <1>4, <1>5, <1>6, <1>7, <1>8, <1>9, <1>10, <1>11, <1>12,
     <1>13, <1>14, <1>15, <1>16, <1>17, <1>18, <1>19, <1>20, <1>21
  DEF Next, Client

\* The ring and the count of what was sent (ca_acquisition.c:581-627).
LEMMA RingInvariant == Spec => [](Ring /\ Placed /\ Counted)
<1>1. Init => Ring /\ Placed /\ Counted
  BY DEF Init, Ring, Placed, Counted, Calling, Attempt, Turn, InUse,
     AllServersTried, Samples
<1> QED
  BY <1>1, RingStep, PlacedStep, CountedStep, SubmitInvariant, PTL DEF Spec

\* A sample is given up without a stop flag only after every server has been
\* tried exactly once, in ring order (ca_acquisition.c:595-632).
THEOREM EveryServerTried == Spec => []AllServersTried
<1>1. Ring => AllServersTried
  BY DEF Ring
<1> QED  BY <1>1, RingInvariant, PTL

\* No server is sent a sample more than twice, and only the one the kept
\* connection led to is sent it twice (ca_acquisition.c:586-627).
THEOREM DuplicatesAreFew == Spec => []FewDuplicates
<1>1. ASSUME IInv, Counted  PROVE FewDuplicates
  <2> SUFFICES ASSUME NEW x \in Samples
               PROVE  /\ \A s \in Servers : sends[s][x] <= 2
                      /\ Cardinality({s \in Servers : sends[s][x] = 2}) <= 1
    BY DEF FewDuplicates
  <2>1. x > cur \/ x < cur \/ x = cur
    BY <1>1 DEF IInv, TypeOK, Samples
  <2>2. PICK d \in 0..NServers : SentTo(d, x)
    <3>1. CASE x > cur
      BY <1>1, <3>1 DEF Counted, SentTo, Unset
    <3>2. CASE x < cur \/ (x = cur /\ ~Calling)
      BY <1>1, <3>2 DEF Counted
    <3>3. CASE x = cur /\ Calling
      <4>1. SentTo(index, x) /\ index \in 0..NServers
        BY <1>1, <3>3 DEF Counted, IInv, TypeOK
      <4> QED  BY <4>1
    <3> QED  BY <2>1, <3>1, <3>2, <3>3
  <2>3. \A s \in Servers : sends[s][x] \in Nat
    BY <1>1 DEF IInv, TypeOK
  <2>4. {s \in Servers : sends[s][x] = 2} \subseteq {d}
    BY <2>2, <2>3 DEF SentTo
  <2>5. IsFiniteSet({d}) /\ Cardinality({d}) = 1
    BY FS_Singleton
  <2>6. Cardinality({s \in Servers : sends[s][x] = 2}) <= 1
    BY <2>4, <2>5, FS_Subset
  <2> QED  BY <2>2, <2>3, <2>6 DEF SentTo
<1> QED  BY <1>1, SubmitInvariant, RingInvariant, PTL
-----------------------------------------------------------------------------
(***************************************************************************)
(* The variant of the loop.                                                *)
(***************************************************************************)
\* How far a step of the loop body is from its end.
Rank == CASE pc = "loop"          -> 10
          [] pc = "connect"       -> 9
          [] pc = "connect_error" -> 8
          [] pc = "header"        -> 8
          [] pc = "body"          -> 7
          [] pc = "recv"          -> 6 - total
          [] pc = "spin"          -> 0
          [] OTHER                -> 1

\* The turns of the loop a call still has; the kept connection comes first.
TurnsLeft == IF pc \in InUse /\ kept THEN NServers + 1 ELSE NServers - i

\* The steps a call can still take, counted high.
Left == 10 * TurnsLeft + Rank

\* An answer at hand is an incomplete one.
Partial == /\ total \in 0..AnswerLen
           /\ pc \in {"header", "body"} => total = 0
           /\ pc = "recv" => total < AnswerLen

LeftBounded == Calling => Left \in 0..(10 * NServers + 18)

\* Every step of the thread ends the call or brings its end nearer, and no
\* step of a server or of a signal puts it off.
CallShrinks ==
  Calling => /\ Client => pc' \in {"idle", "spin"} \/ Left' < Left
             /\ ~Client => UNCHANGED Left

LEMMA PartialStep == IInv /\ Partial /\ [Next]_vars => Partial'
<1> SUFFICES ASSUME IInv, Partial, [Next]_vars  PROVE Partial'
  OBVIOUS
<1> USE DEF call, sockets, network, history, Partial, AnswerLen, InUse
<1>1. CASE CallCheck \/ CallBegin \/ Loop \/ LoopEnds
  BY <1>1 DEF CallCheck, CallBegin, Loop, LoopEnds, Goto, Moves
<1>2. CASE Connected \/ ConnectTimeout \/ ConnectFails \/ ConnectLeaks
  BY <1>2 DEF Connected, ConnectTimeout, ConnectFails, ConnectLeaks, Goto
<1>3. CASE ConnectError \/ Drop \/ Done
  BY <1>3 DEF ConnectError, GivesUp, Drop, Close, Done, Goto
<1>4. CASE Header \/ Body \/ Fail
  BY <1>4 DEF Header, Body, Fail, Goto, Moves
<1>5. CASE RecvPart
  BY <1>5 DEF RecvPart, Goto
<1>6. CASE RecvAnswer \/ RecvEof
  BY <1>6 DEF RecvAnswer, RecvEof, Goto, Moves
<1>7. CASE Stop \/ UNCHANGED vars
  BY <1>7 DEF Stop, vars
<1>8. CASE \E f \in Fds : ServerCloses(f)
  BY <1>8 DEF ServerCloses
<1>9. CASE \E f \in Fds, ok \in BOOLEAN : ServerAnswers(f, ok)
  BY <1>9 DEF ServerAnswers
<1> QED
  BY <1>1, <1>2, <1>3, <1>4, <1>5, <1>6, <1>7, <1>8, <1>9 DEF Next, Client

LEMMA LeftIn == IInv /\ Ring /\ Partial => LeftBounded
<1> SUFFICES ASSUME IInv, Ring, Partial, Calling
             PROVE  Left \in 0..(10 * NServers + 18)
  BY DEF LeftBounded
<1>a. i \in 0..NServers /\ NServers \in Nat
  BY DEF IInv, TypeOK, Ring
<1>1. /\ TurnsLeft \in 0..(NServers + 1)
      /\ TurnsLeft = NServers + 1 => pc \in InUse
  BY <1>a DEF TurnsLeft
<1>2. /\ Rank \in 0..10
      /\ pc \in InUse => Rank <= 8
  BY DEF Partial, AnswerLen, Rank, InUse
<1> QED  BY <1>a, <1>1, <1>2 DEF Left

LEMMA CallShrinksStep == IInv /\ Ring /\ Partial /\ [Next]_vars => CallShrinks
<1> SUFFICES ASSUME IInv, Ring, Partial, [Next]_vars, Calling
             PROVE  /\ Client => pc' \in {"idle", "spin"} \/ Left' < Left
                    /\ ~Client => UNCHANGED Left
  BY DEF CallShrinks
<1> USE DEF call, sockets, network, history
<1>a. i \in Nat /\ NServers \in Nat /\ total \in 0..3
  BY DEF IInv, TypeOK, Partial, AnswerLen
<1>b. pc \in InUse /\ kept => i = 0
  BY DEF Ring
<1>1. ASSUME Loop \/ LoopEnds  PROVE pc' \in {"idle", "spin"} \/ Left' < Left
  <2>1. \/ pc' = "idle"
        \/ pc = "loop" /\ pc' = "connect" /\ UNCHANGED i
    BY <1>1 DEF Loop, LoopEnds, Goto
  <2> QED  BY <2>1, <1>a DEF Left, TurnsLeft, Rank, InUse
<1>2. ASSUME Connected \/ ConnectTimeout \/ ConnectFails \/ ConnectLeaks
      PROVE  Left' < Left
  <2>1. /\ pc = "connect"
        /\ \/ pc' = "header" /\ UNCHANGED i /\ ~kept'
           \/ pc' = "loop" /\ i' = i + 1
           \/ pc' = "connect_error" /\ UNCHANGED i
    BY <1>2 DEF Connected, ConnectTimeout, ConnectFails, ConnectLeaks, Goto
  <2> QED  BY <2>1, <1>a DEF Left, TurnsLeft, Rank, InUse
<1>3. ASSUME ConnectError  PROVE pc' \in {"idle", "spin"} \/ Left' < Left
  <2>1. \/ pc' = "idle"
        \/ pc = "connect_error" /\ pc' = "loop" /\ i' = i + 1
    BY <1>3 DEF ConnectError, Goto
  <2> QED  BY <2>1, <1>a DEF Left, TurnsLeft, Rank, InUse
<1>4. ASSUME Drop  PROVE Left' < Left
  <2>1. /\ pc = "failed" /\ pc' = "loop"
        /\ i' = IF kept THEN 0 ELSE i + 1
    BY <1>4 DEF Drop, NextTry, Goto
  <2> QED  BY <2>1, <1>a DEF Left, TurnsLeft, Rank, InUse
<1>5. ASSUME Header \/ Body \/ Fail \/ RecvPart \/ RecvAnswer
      PROVE  Left' < Left
  <2>1. /\ pc \in InUse /\ pc' \in InUse
        /\ UNCHANGED <<i, kept>>
    BY <1>5 DEF Header, Body, Fail, RecvPart, RecvAnswer, Goto, Moves, InUse
  <2>2. CASE Header \/ Body \/ Fail
    <3>1. \/ pc = "header" /\ pc' = "body"
          \/ pc = "body" /\ pc' = "recv" /\ total = 0 /\ total' = 0
          \/ pc \in {"header", "body", "recv"} /\ pc' = "failed"
      BY <2>2 DEF Header, Body, Fail, Goto, Moves, Partial
    <3>2. pc = "recv" => total < 3
      BY DEF Partial, AnswerLen
    <3> QED  BY <2>1, <3>1, <3>2, <1>a DEF Left, TurnsLeft, Rank, InUse
  <2>3. CASE RecvPart
    <3>1. pc = "recv" /\ pc' = "recv" /\ total' \in Nat /\ total' > total
      BY <2>3, <1>a DEF RecvPart, Goto, AnswerLen
    <3> QED  BY <2>1, <3>1, <1>a DEF Left, TurnsLeft, Rank, InUse
  <2>4. CASE RecvAnswer
    <3>1. pc = "recv" /\ pc' \in {"ok", "failed"} /\ total < 3
      BY <2>4 DEF RecvAnswer, Partial, AnswerLen
    <3> QED  BY <2>1, <3>1, <1>a DEF Left, TurnsLeft, Rank, InUse
  <2> QED  BY <1>5, <2>2, <2>3, <2>4
<1>6. ASSUME CallCheck \/ CallBegin \/ Done \/ RecvEof
      PROVE  pc' \in {"idle", "spin"}
  BY <1>6 DEF CallCheck, CallBegin, Done, RecvEof, Goto, Moves, Calling
<1>7. Client => pc' \in {"idle", "spin"} \/ Left' < Left
  BY <1>1, <1>2, <1>3, <1>4, <1>5, <1>6 DEF Client
<1>8. ASSUME ~Client  PROVE UNCHANGED <<pc, i, kept, total>>
  BY <1>8 DEF Next, Stop, ServerCloses, ServerAnswers, vars
<1>9. ~Client => UNCHANGED Left
  BY <1>8 DEF Left, TurnsLeft, Rank
<1> QED  BY <1>7, <1>9

\* A call takes no more than 10 * NServers + 18 steps before it returns or
\* finds that the peer has closed the connection too early: no run of
\* timeouts, refusals, broken connections and partial answers goes round the
\* ring once more (ca_acquisition.c:581-632).  With the fairness of the
\* thread this is why CallReturns holds.
THEOREM CallsAreBounded == Spec => [][CallShrinks]_vars /\ []LeftBounded
<1>1. Init => Partial
  BY DEF Init, Partial, AnswerLen
<1>2. Spec => []Partial
  BY <1>1, PartialStep, SubmitInvariant, PTL DEF Spec
<1>3. Spec => []LeftBounded
  BY <1>2, LeftIn, SubmitInvariant, RingInvariant, PTL
<1>4. Spec => [][CallShrinks]_vars
  BY <1>2, CallShrinksStep, SubmitInvariant, RingInvariant, PTL DEF Spec
<1> QED  BY <1>3, <1>4, PTL
-----------------------------------------------------------------------------
(***************************************************************************)
(* What the caller is left with.                                           *)
(***************************************************************************)
\* *pfd changes only when a call ends: to a new connection, with its server,
\* that has delivered the sample, or to CA_ERROR; and never while the socket
\* it names is open.
ReplacedClosed ==
  fd' # fd =>
    /\ fd \notin opened \ leaked
    /\ pc' = "idle"
    /\ \/ result' = "ok" /\ Leads(fd, index)'
       \/ result' = "error" /\ fd' = NoFd /\ opened' \ leaked' = {}

LEMMA ReplacedClosedStep == IInv /\ [Next]_vars => ReplacedClosed
<1> SUFFICES ASSUME IInv, [Next]_vars, fd' # fd
             PROVE  /\ fd \notin opened \ leaked
                    /\ pc' = "idle"
                    /\ \/ result' = "ok" /\ Leads(fd, index)'
                       \/ /\ result' = "error"
                          /\ fd' = NoFd
                          /\ opened' \ leaked' = {}
  BY DEF ReplacedClosed
<1> USE DEF call, sockets, network, history
<1>1. Done \/ LoopEnds
  BY DEF Next, Client, CallCheck, CallBegin, Loop, Connected, ConnectTimeout,
     ConnectFails, ConnectLeaks, ConnectError, Drop, Header, Body, Fail,
     RecvPart, RecvAnswer, RecvEof, Moves, Stop, ServerCloses, ServerAnswers,
     vars
<1>2. CASE Done
  <2>1. /\ pc = "ok" /\ pc' = "idle" /\ result' = "ok" /\ ~kept
        /\ fd' = lfd /\ index' = lindex
        /\ UNCHANGED <<opened, leaked, peer>>
    BY <1>2 DEF Done, Keep, Goto
  <2>2. Leads(lfd, lindex) /\ opened \ leaked \subseteq {lfd}
    BY <2>1 DEF IInv, SocketsKnown, InUse
  <2> QED  BY <2>1, <2>2 DEF Leads
<1>3. CASE LoopEnds
  BY <1>3 DEF LoopEnds, Goto, IInv, SocketsKnown
<1> QED  BY <1>1, <1>2, <1>3

\* No connection is lost by being overwritten: the fd and index of the submit
\* thread are replaced together, when the call ends, and the socket they named
\* has been closed by then (ca_acquisition.c:586-632).
THEOREM NothingOverwritten == Spec => [][ReplacedClosed]_vars
BY ReplacedClosedStep, SubmitInvariant, PTL DEF Spec
=============================================================================
