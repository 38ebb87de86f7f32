---------------------------- MODULE StageProtocol ----------------------------
(***************************************************************************)
(* The client of proj1 against the server of proj2: four stages, A and B   *)
(* over UDP, C and D over TCP.  The server starts a thread for every a1    *)
(* packet; in stage B the client repeats a packet every 500 ms until it is *)
(* acknowledged, and the server leaves some unacknowledged on purpose.     *)
(*                                                                         *)
(* Datagrams to a socket are a sequence; they may be lost, duplicated and  *)
(* reordered.  A TCP stream is a sequence of four-byte words, of which a   *)
(* read may return fewer than it asked for.  The bodies of packets are     *)
(* abstracted to what the two programs tell apart: which packet it is, its *)
(* sequence number, the field each word belongs to.                        *)
(***************************************************************************)
EXTENDS Naturals, Sequences, SequencesExt

CONSTANTS
  Threads,    \* the server threads that may be created
  NoThread,
  Nums1,      \* the values of rand.nextInt(50) for num1 (ServerThread.java:93)
  Nums2,      \* ... for num2 (line 186)
  Lens2,      \* ... for len2 (line 187), in words, rounded up
  MaxFaults   \* bound on the faults of a behaviour

ASSUME StageAssumption ==
  /\ NoThread \notin Threads
  /\ Threads \cap {"main", "clientA", "clientB"} = {}   \* they name sockets, too
  /\ Nums1 \subseteq Nat /\ Nums2 \subseteq Nat /\ Lens2 \subseteq Nat
  /\ Nums1 # {} /\ Nums2 # {} /\ Lens2 # {}
  /\ MaxFaults \in Nat

VARIABLES
  udp,        \* udp[s]: datagrams on their way to socket s, or waiting there
  cpc, cl,    \* the client: its next step, its locals
  spc, srv,   \* spc[t], srv[t]: the same for server thread t, with its record
  link,       \* link[t]: the TCP socket of thread t
  up, down,   \* up[t], down[t]: words to and from thread t, not yet read
  faults,     \* number of faults so far
  seen        \* and their kinds

vars == <<udp, cpc, cl, spc, srv, link, up, down, faults, seen>>
client == <<cpc, cl>>
server == <<spc, srv, link>>
streams == <<up, down>>
history == <<faults, seen>>

-----------------------------------------------------------------------------
(* Packets *)

HeaderWords == <<"length", "secret", "step_id">>
SIZE_HEADER == Len(HeaderWords)

(* packetize: a header and the payload, padded to whole words *)
packetize(payload) == HeaderWords \o payload

C2 == packetize(<<"num2", "len2", "secretC", "c">>)
D2 == packetize(<<"secretD">>)
D1(len) == packetize([j \in 1 .. len |-> "c"])

(* What the client makes of fields it has not received properly. *)
BadD1(len) == [j \in 1 .. SIZE_HEADER + len |-> "bad"]

(* new byte[n], all zero *)
NewBytes(n) == [j \in 1 .. n |-> "0"]

(* A datagram: its kind, the thread it comes from or is meant for, and its *)
(* sequence number (b1, ack) or num1 (a2).                                 *)
Datagram(kind, t, n) == [kind |-> kind, thread |-> t, n |-> n]

-----------------------------------------------------------------------------
(* Sockets and faults *)

(* Stage A's port, stage A's and stage B's socket of the client, and the    *)
(* UDP socket of each thread.                                               *)
Sockets == {"main", "clientA", "clientB"} \cup Threads

(* A datagram for a socket that is closed, or that nobody reads any more,   *)
(* goes nowhere.                                                            *)
Open(s) ==
  CASE s = "main" -> \E t \in Threads : spc[t] = "none"
    [] s = "clientA" -> cpc = "a_wait"
    [] s = "clientB" -> cpc \in {"b_send", "b_ack", "b_final"}
    [] OTHER -> spc[s] \in {"a", "b"}

Send(s, d) == udp' = IF Open(s) THEN [udp EXCEPT ![s] = Append(@, d)] ELSE udp

Fault(what, where) ==
  /\ faults < MaxFaults
  /\ faults' = faults + 1
  /\ seen' = seen \cup {<<what, where>>}

NoFault == UNCHANGED history

(* A wait may time out when nothing can come that would end it, and, as a   *)
(* fault, although something is about to come.                              *)
TimesOut(where, pending) ==
  IF pending THEN Fault("late", where) ELSE NoFault

Lose ==
  \E s \in Sockets : \E i \in 1 .. Len(udp[s]) :
    /\ Fault("lost", udp[s][i].kind)
    /\ udp' = [udp EXCEPT ![s] = RemoveAt(@, i)]
    /\ UNCHANGED <<client, server, streams>>

Duplicate ==
  \E s \in Sockets : \E i \in 1 .. Len(udp[s]) :
    /\ Fault("duplicated", udp[s][i].kind)
    /\ udp' = [udp EXCEPT ![s] = Append(@, @[i])]
    /\ UNCHANGED <<client, server, streams>>

Overtake ==
  \E s \in Sockets : \E i \in 1 .. Len(udp[s]) - 1 :
    /\ Fault("overtaken", udp[s][i].kind)
    /\ udp' = [udp EXCEPT ![s] = [@ EXCEPT ![i] = udp[s][i + 1], ![i + 1] = udp[s][i]]]
    /\ UNCHANGED <<client, server, streams>>

-----------------------------------------------------------------------------
(* PacketUtil.read: rd is the buffer and the number of words read so far.   *)
(* Every call of in.read(buf) writes from the start of buf again.           *)

Reading(n) == [buf |-> NewBytes(n), total |-> 0]

WantsMore(rd) == rd.total < Len(rd.buf) - SIZE_HEADER

Filled(rd, words) ==
  [buf |-> [j \in 1 .. Len(rd.buf) |->
              IF j <= Len(words) THEN words[j] ELSE rd.buf[j]],
   total |-> rd.total + Len(words)]

(* in.read(buf) returns what there is, up to the size of buf, or less *)
Chunk(rd, stream, k, where) ==
  LET most == IF Len(stream) < Len(rd.buf) THEN Len(stream) ELSE Len(rd.buf) IN
  /\ k \in 1 .. most
  /\ IF k < most THEN Fault("short", where) ELSE NoFault

ReadAll(rd) == rd.total = Len(rd.buf)

-----------------------------------------------------------------------------
(* The client, proj1/Client.java *)

ClientGoto(step) == cpc' = step

(* The client's socket is closed, by socket.close() or with the process. *)
Received(s) == udp' = [udp EXCEPT ![s] = Tail(@)]
Closed(s) == udp' = [udp EXCEPT ![s] = <<>>]

StepASend ==
  /\ cpc = "a_send"
  /\ Send("main", Datagram("a1", NoThread, 0))
  /\ ClientGoto("a_wait")
  /\ UNCHANGED <<cl, server, streams, history>>

(* Whatever arrives first is taken for the answer.  Read as an a2 packet, a *)
(* b2 packet names port 0, to which nothing can be sent.                    *)
StepAReceive ==
  /\ cpc = "a_wait" /\ udp["clientA"] # <<>>
  /\ Closed("clientA")
  /\ LET d == Head(udp["clientA"]) IN
     \/ /\ d.kind = "a2"
        /\ cl' = [cl EXCEPT !.thread = d.thread, !.num = d.n, !.known = {1}]
        /\ ClientGoto(IF d.n = 0 THEN "b_final" ELSE "b_send")
     \/ /\ d.kind # "a2"
        /\ ClientGoto("crashed") /\ UNCHANGED cl
  /\ UNCHANGED <<server, streams, history>>

StepBSend ==
  /\ cpc = "b_send"
  /\ Send(cl.thread, Datagram("b1", cl.thread, cl.i))
  /\ ClientGoto("b_ack")
  /\ UNCHANGED <<cl, server, streams, history>>

MorePacketsOneTooMany == cl.i + 1 <= cl.num
MorePackets == cl.i + 1 < cl.num

(* Nothing is looked at in an acknowledgement. *)
StepBReceive ==
  /\ cpc = "b_ack" /\ udp["clientB"] # <<>>
  /\ Received("clientB")
  /\ cl' = [cl EXCEPT !.i = @ + 1]
  /\ ClientGoto(IF MorePackets THEN "b_send" ELSE "b_final")
  /\ UNCHANGED <<server, streams, history>>

StepBTimeoutGivesUp ==
  /\ cpc = "b_ack"
  /\ TimesOut("client", udp["clientB"] # <<>> \/ udp[cl.thread] # <<>>)
  /\ Closed("clientB")
  /\ ClientGoto("crashed")
  /\ UNCHANGED <<cl, server, streams>>

(* The 500 ms are over: the packet is sent again. *)
StepBTimeout ==
  /\ cpc = "b_ack"
  /\ TimesOut("client", udp["clientB"] # <<>> \/ udp[cl.thread] # <<>>)
  /\ ClientGoto("b_send")
  /\ UNCHANGED <<udp, cl, server, streams>>

(* Read as a b2 packet, an acknowledgement names its sequence number as the *)
(* port; nothing listens there and the constructor of Socket throws.        *)
StepBFinal ==
  /\ cpc = "b_final" /\ udp["clientB"] # <<>>
  /\ Closed("clientB")
  /\ \/ /\ Head(udp["clientB"]).kind = "b2"
        /\ cl' = [cl EXCEPT !.known = @ \cup {2}]
        /\ ClientGoto("connect")
     \/ /\ Head(udp["clientB"]).kind # "b2"
        /\ ClientGoto("crashed") /\ UNCHANGED cl
  /\ UNCHANGED <<server, streams, history>>

(* The timeout of the socket is still set and nobody catches the exception. *)
StepBFinalTimeout ==
  /\ cpc = "b_final"
  /\ TimesOut("client", \/ udp["clientB"] # <<>>
                        \/ spc[cl.thread] = "b" /\ srv[cl.thread].reply = "clientB")
  /\ Closed("clientB")
  /\ ClientGoto("crashed")
  /\ UNCHANGED <<cl, server, streams>>

C2BufferTooSmall == Reading(Len(C2) - 1)
C2Buffer == Reading(Len(C2))

Connect ==
  /\ cpc = "connect"
  /\ \/ /\ link[cl.thread] = "listening"
        /\ link' = [link EXCEPT ![cl.thread] = "connected"]
        /\ cl' = [cl EXCEPT !.rd = C2Buffer]
        /\ ClientGoto("c_read")
     \/ /\ link[cl.thread] # "listening"
        /\ ClientGoto("crashed") /\ UNCHANGED <<cl, link>>
  /\ UNCHANGED <<udp, spc, srv, streams, history>>

(* read, called by stepC and stepD; no timeout is set on this socket *)
ClientRead ==
  /\ cpc \in {"c_read", "d_read"} /\ WantsMore(cl.rd)
  /\ \E k \in 1 .. Len(down[cl.thread]) :
       /\ Chunk(cl.rd, down[cl.thread], k, "client")
       /\ cl' = [cl EXCEPT !.rd = Filled(@, SubSeq(down[cl.thread], 1, k))]
       /\ down' = [down EXCEPT ![cl.thread] = SubSeq(@, k + 1, Len(@))]
  /\ UNCHANGED <<udp, cpc, server, up>>

(* End of stream or an error end the loop as well. *)
ClientReadEnds ==
  \/ ~WantsMore(cl.rd)
  \/ link[cl.thread] = "closed" /\ down[cl.thread] = <<>>

(* A stream closed before all that had arrived was read is reset: what is   *)
(* on its way to the client is lost.                                        *)
Reset(t) ==
  /\ link[t] = "closed" /\ up[t] # <<>> /\ down[t] # <<>>
  /\ down' = [down EXCEPT ![t] = <<>>]
  /\ UNCHANGED <<udp, client, server, up, history>>

(* What read returns is ignored: the fields are taken from the buffer as it *)
(* is.  Misplaced words make arbitrary numbers, or one too large or too     *)
(* small for an array.                                                      *)
StepC ==
  /\ cpc = "c_read" /\ ClientReadEnds
  /\ LET buf == cl.rd.buf
         whole == SubSeq(buf, SIZE_HEADER + 1, Len(buf)) = SubSeq(C2, SIZE_HEADER + 1, Len(C2))
         genuine == IF buf[SIZE_HEADER + 3] = "secretC" THEN {3} ELSE {}
     IN \/ \E num \in Nums2, len \in Lens2 :
             /\ whole => num = srv[cl.thread].num2 /\ len = srv[cl.thread].len2
             /\ cl' = [cl EXCEPT !.num = num, !.len = len, !.whole = whole, !.i = 0,
                                 !.known = @ \cup genuine]
             /\ ClientGoto("d_send")
        \/ ~whole /\ ClientGoto("crashed") /\ UNCHANGED cl
  /\ UNCHANGED <<udp, server, streams, history>>

(* write may throw once the other end is gone *)
StepDSend ==
  /\ cpc = "d_send" /\ cl.i < cl.num
  /\ \/ /\ up' = [up EXCEPT ![cl.thread] =
                    @ \o (IF cl.whole THEN D1(cl.len) ELSE BadD1(cl.len))]
        /\ cl' = [cl EXCEPT !.i = @ + 1]
        /\ UNCHANGED cpc
     \/ /\ link[cl.thread] = "closed"
        /\ ClientGoto("crashed") /\ UNCHANGED <<up, cl>>
  /\ UNCHANGED <<udp, server, down, history>>

StepDAwait ==
  /\ cpc = "d_send" /\ cl.i = cl.num
  /\ cl' = [cl EXCEPT !.rd = Reading(Len(D2))]
  /\ ClientGoto("d_read")
  /\ UNCHANGED <<udp, server, streams, history>>

(* socket.close() and printSecrets *)
StepDPrint ==
  /\ cpc = "d_read" /\ ClientReadEnds
  /\ cl' = [cl EXCEPT !.known =
              IF cl.rd.buf[SIZE_HEADER + 1] = "secretD" THEN @ \cup {4} ELSE @]
  /\ ClientGoto("printed")
  /\ UNCHANGED <<udp, server, streams, history>>

ClientGone == cpc \in {"printed", "crashed"}

ClientWorks ==
  \/ StepASend \/ StepAReceive \/ StepBSend \/ StepBReceive \/ StepBFinal
  \/ Connect \/ ClientRead \/ StepC \/ StepDSend \/ StepDAwait \/ StepDPrint
ClientStep == ClientWorks \/ StepBTimeout \/ StepBFinalTimeout

-----------------------------------------------------------------------------
(* The server, proj2/Server.java and proj2/ServerThread.java *)

ServerGoto(t, step) == spc' = [spc EXCEPT ![t] = step]

(* main: a thread for every a1 packet *)
ReceiveA1(t) ==
  /\ spc[t] = "none" /\ udp["main"] # <<>>
  /\ Received("main")
  /\ ServerGoto(t, "a")
  /\ UNCHANGED <<client, srv, link, streams, history>>

StepA(t) ==
  /\ spc[t] = "a"
  /\ \E num \in Nums1 :
       /\ srv' = [srv EXCEPT ![t].num1 = num, ![t].granted = 1]
       /\ Send("clientA", Datagram("a2", t, num))
  /\ ServerGoto(t, "b")
  /\ UNCHANGED <<client, link, streams, history>>

Expects(t) == spc[t] = "b" /\ srv[t].i < srv[t].num1

InSequenceUnchecked(t) == udp[t] # <<>>
InSequence(t) == udp[t] # <<>> /\ Head(udp[t]).n = srv[t].i

(* An exception in run: the thread ends and leaves its sockets as they are. *)
OutOfStep(t) ==
  /\ Expects(t) /\ udp[t] # <<>> /\ ~InSequence(t)
  /\ Closed(t)
  /\ ServerGoto(t, "failed")
  /\ UNCHANGED <<client, srv, link, streams, history>>

Forced(t) == srv[t].i = srv[t].num1 - 1 /\ ~srv[t].haveFailed

(* the packet is left unacknowledged, at random or because it must be *)
Refuse(t) ==
  /\ Expects(t) /\ InSequence(t)
  /\ Received(t)
  /\ srv' = [srv EXCEPT ![t].haveFailed = TRUE, ![t].reply = "clientB"]
  /\ UNCHANGED <<client, spc, link, streams, history>>

(* clientPort is that of the packet: from now on stage B's socket. *)
Acknowledge(t) ==
  /\ Expects(t) /\ InSequence(t) /\ ~Forced(t)
  /\ udp' = LET rest == [udp EXCEPT ![t] = Tail(@)] IN
            IF Open("clientB")
              THEN [rest EXCEPT !["clientB"] = Append(@, Datagram("ack", t, srv[t].i))]
              ELSE rest
  /\ srv' = [srv EXCEPT ![t].i = @ + 1, ![t].reply = "clientB"]
  /\ UNCHANGED <<client, spc, link, streams, history>>

(* The client is about to send what the thread waits for. *)
Sending(t) == cl.thread = t /\ cpc \in {"b_send", "b_ack"}

StepBTimesOut(t) ==
  /\ Expects(t)
  /\ TimesOut("server", udp[t] # <<>> \/ Sending(t) \/ udp["clientA"] # <<>>)
  /\ Closed(t)
  /\ ServerGoto(t, "failed")
  /\ UNCHANGED <<client, srv, link, streams>>

(* initTCPServer, the final response, and udpSocket.close in run *)
StepBEnds(t) ==
  /\ spc[t] = "b" /\ srv[t].i = srv[t].num1
  /\ link' = [link EXCEPT ![t] = "listening"]
  /\ srv' = [srv EXCEPT ![t].granted = 2]
  /\ udp' = LET rest == [udp EXCEPT ![t] = <<>>] IN
            IF Open(srv[t].reply)
              THEN [rest EXCEPT ![srv[t].reply] = Append(@, Datagram("b2", t, 0))]
              ELSE rest
  /\ ServerGoto(t, "c")
  /\ UNCHANGED <<client, streams, history>>

AcceptableUnconnected(t) == spc[t] = "c"
Acceptable(t) == spc[t] = "c" /\ link[t] = "connected"

StepCAccept(t) ==
  /\ Acceptable(t)
  /\ \E num \in Nums2, len \in Lens2 :
       srv' = [srv EXCEPT ![t].num2 = num, ![t].len2 = len, ![t].granted = 3,
                          ![t].i = 0, ![t].rd = Reading(SIZE_HEADER + len)]
  /\ down' = [down EXCEPT ![t] = @ \o C2]
  /\ ServerGoto(t, "d")
  /\ UNCHANGED <<udp, client, link, up, history>>

(* The client is on its way to the accepting socket. *)
Connecting(t) ==
  \/ link[t] = "connected"
  \/ cl.thread = t /\ cpc = "connect"
  \/ cl.thread = t /\ cpc \in {"b_ack", "b_final"} /\ udp["clientB"] # <<>>

StepCNeverTimesOut(t) == FALSE
StepCTimesOut(t) ==
  /\ spc[t] = "c"
  /\ TimesOut("server", Connecting(t))
  /\ ServerGoto(t, "failed")
  /\ UNCHANGED <<udp, client, srv, link, streams>>

ServerRead(t) ==
  /\ spc[t] = "d" /\ srv[t].i < srv[t].num2 /\ WantsMore(srv[t].rd)
  /\ \E k \in 1 .. Len(up[t]) :
       /\ Chunk(srv[t].rd, up[t], k, "server")
       /\ srv' = [srv EXCEPT ![t].rd = Filled(@, SubSeq(up[t], 1, k))]
       /\ up' = [up EXCEPT ![t] = SubSeq(@, k + 1, Len(@))]
  /\ UNCHANGED <<udp, client, spc, link, down>>

ValidIgnoringRead(t) == srv[t].rd.buf = D1(srv[t].len2)

(* read has returned; its buffer must hold a whole d1 packet *)
Valid(t) == ReadAll(srv[t].rd) /\ srv[t].rd.buf = D1(srv[t].len2)

StepDCheck(t) ==
  /\ spc[t] = "d" /\ srv[t].i < srv[t].num2 /\ ~WantsMore(srv[t].rd)
  /\ \/ /\ Valid(t)
        /\ srv' = [srv EXCEPT ![t].i = @ + 1, ![t].rd.total = 0]
        /\ UNCHANGED spc
     \/ /\ ~Valid(t)
        /\ ServerGoto(t, "failed") /\ UNCHANGED srv
  /\ UNCHANGED <<udp, client, link, streams, history>>

Delivering(t) == up[t] # <<>> \/ cpc \in {"c_read", "d_send"}

(* The read times out or meets the end of the stream: not all was read. *)
StepDTimesOut(t) ==
  /\ spc[t] = "d" /\ srv[t].i < srv[t].num2 /\ WantsMore(srv[t].rd)
  /\ TimesOut("server", Delivering(t))
  /\ ServerGoto(t, "failed")
  /\ UNCHANGED <<udp, client, srv, link, streams>>

(* the last secret, and tcpSocket.close in run *)
StepDEnds(t) ==
  /\ spc[t] = "d" /\ srv[t].i = srv[t].num2
  /\ srv' = [srv EXCEPT ![t].granted = 4]
  /\ down' = [down EXCEPT ![t] = @ \o D2]
  /\ link' = [link EXCEPT ![t] = "closed"]
  /\ ServerGoto(t, "done")
  /\ UNCHANGED <<udp, client, up, history>>

ThreadStep(t) ==
  \/ StepA(t) \/ OutOfStep(t) \/ Refuse(t) \/ Acknowledge(t) \/ StepBTimesOut(t)
  \/ StepBEnds(t) \/ StepCAccept(t) \/ StepCTimesOut(t) \/ ServerRead(t)
  \/ StepDCheck(t) \/ StepDTimesOut(t) \/ StepDEnds(t)

(* The sockets of a thread that failed are closed when the virtual machine *)
(* collects them, or never.                                                *)
Collect(t) ==
  /\ spc[t] = "failed" /\ link[t] # "closed"
  /\ link' = [link EXCEPT ![t] = "closed"]
  /\ UNCHANGED <<udp, client, spc, srv, streams, history>>

(* The server is stopped. *)
ServerDies ==
  /\ Fault("dead", "server")
  /\ spc' = [t \in Threads |-> IF spc[t] = "done" THEN "done" ELSE "failed"]
  /\ link' = [t \in Threads |-> "closed"]
  /\ udp' = [s \in Sockets |-> IF s \in {"clientA", "clientB"} THEN udp[s] ELSE <<>>]
  /\ UNCHANGED <<client, srv, streams>>

-----------------------------------------------------------------------------
Init ==
  /\ udp = [s \in Sockets |-> <<>>]
  /\ cpc = "a_send"
  /\ cl = [thread |-> NoThread, i |-> 0, num |-> 0, len |-> 0, whole |-> FALSE,
           rd |-> Reading(0), known |-> {}]
  /\ spc = [t \in Threads |-> "none"]
  /\ srv = [t \in Threads |->
              [num1 |-> 0, num2 |-> 0, len2 |-> 0, i |-> 0, haveFailed |-> FALSE,
               reply |-> "clientA", rd |-> Reading(0), granted |-> 0]]
  /\ link = [t \in Threads |-> "none"]
  /\ up = [t \in Threads |-> <<>>]
  /\ down = [t \in Threads |-> <<>>]
  /\ faults = 0
  /\ seen = {}

Next ==
  \/ ClientStep
  \/ \E t \in Threads : ReceiveA1(t) \/ ThreadStep(t) \/ Collect(t) \/ Reset(t)
  \/ Lose \/ Duplicate \/ Overtake \/ ServerDies

(* A process that can go on does so, and a timer that has nothing to wait   *)
(* for runs out; no fault has to happen.  The server's random refusals do   *)
(* not go on for ever.                                                      *)
Fairness ==
  /\ WF_vars(NoFault /\ ClientWorks)
  /\ WF_vars(NoFault /\ StepBTimeout) /\ WF_vars(NoFault /\ StepBFinalTimeout)
  /\ \A t \in Threads : /\ WF_vars(ReceiveA1(t)) /\ WF_vars(NoFault /\ ThreadStep(t))
                        /\ SF_vars(Acknowledge(t))

Spec == Init /\ [][Next]_vars
FairSpec == Spec /\ Fairness

-----------------------------------------------------------------------------
ClientSteps == {"a_send", "a_wait", "b_send", "b_ack", "b_final", "connect",
                "c_read", "d_send", "d_read", "printed", "crashed"}
ServerSteps == {"none", "a", "b", "c", "d", "done", "failed"}

(* Each socket receives only the packets the program reading it can take,    *)
(* and neither side counts further than its num1 or num2 (Client.java:120,   *)
(* ServerThread.java:118 and 204).                                           *)
TypeOK ==
  /\ \A s \in Sockets : \A i \in 1 .. Len(udp[s]) :
       udp[s][i].kind \in (CASE s = "main" -> {"a1"}
                             [] s = "clientA" -> {"a2", "b2"}
                             [] s = "clientB" -> {"ack", "b2"}
                             [] OTHER -> {"b1"})
  /\ cpc \in ClientSteps
  /\ cl.thread \in Threads \cup {NoThread} /\ cl.known \subseteq 1 .. 4
  /\ cl.i \in 0 .. cl.num
  /\ spc \in [Threads -> ServerSteps]
  /\ \A t \in Threads : /\ srv[t].granted \in 0 .. 4
                        /\ spc[t] = "b" => srv[t].i \in 0 .. srv[t].num1
                        /\ spc[t] = "d" => srv[t].i \in 0 .. srv[t].num2
  /\ link \in [Threads -> {"none", "listening", "connected", "closed"}]

(* Stage B is a stop-and-wait protocol whose receiver checks the sequence    *)
(* number (ServerThread.java:131) and whose sender never does                *)
(* (Client.java:136).  However packets are lost, repeated or reordered, the  *)
(* server is at most one packet ahead of the client; the client is not ahead *)
(* of the server unless an acknowledgement was duplicated.                   *)
InStep ==
  LET t == cl.thread IN
  cpc \in {"b_send", "b_ack", "b_final"} /\ spc[t] = "b" =>
    /\ srv[t].i <= cl.i + 1
    /\ cl.i <= srv[t].i \/ <<"duplicated", "ack">> \in seen

(* The server hands out its last secret (ServerThread.java:213) only to the  *)
(* client that reads it, after that client received the whole of packet c2   *)
(* and all it sent has been taken out of the stream, nothing more or less,   *)
(* although a read may return parts of packets (PacketUtil.java:108) and one *)
(* buffer serves for all packets.                                            *)
AcceptedWhole ==
  \A t \in Threads : srv[t].granted = 4 /\ srv[t].num2 > 0 =>
    cl.thread = t /\ cl.whole /\ cl.i = cl.num /\ up[t] = <<>>

(* The four secrets the client prints (Client.java:51) are those it was      *)
(* given, although it ignores what PacketUtil.read returns (lines 79, 89),   *)
(* unless a read of the client returned a part of a packet or its server     *)
(* thread has failed.                                                        *)
PrintedGenuine ==
  cpc = "printed" =>
    \/ cl.known = 1 .. 4
    \/ <<"short", "client">> \in seen
    \/ spc[cl.thread] = "failed"

Ladder == INSTANCE StageLadder
            WITH granted <- [t \in Threads |-> srv[t].granted],
                 session <- cl.thread, known <- cl.known

(* Secrets are handed out one after the other, C and D only to the client    *)
(* that was given A by the same thread, and the client knows none that was   *)
(* not handed out, whichever packets are lost, repeated or reordered and     *)
(* however many threads one a1 packet started (Server.java:34).              *)
ClimbsLadder == Ladder!LSpec

(* Every server thread ends: whatever it waits for, udpSocket, tcpServer and *)
(* tcpSocket time out (ServerThread.java:61, 172, 185).                      *)
ThreadsEnd ==
  \A t \in Threads : spc[t] = "a" ~> spc[t] \in {"done", "failed"}

(* num1 = 0 and len2 = 0 are legal for rand.nextInt and end in an error.     *)
NoEmptyStage ==
  \A t \in Threads :
    /\ srv[t].granted >= 1 => srv[t].num1 > 0
    /\ srv[t].granted >= 3 => srv[t].num2 = 0 \/ srv[t].len2 > 0

(* The client's retransmissions (Client.java:133) make up for the packets    *)
(* the server leaves unacknowledged and for those lost on their way to it:   *)
(* if nothing else goes wrong and no stage is empty, the client comes to     *)
(* print all four secrets.                                                   *)
RetriesRecover ==
  [](seen \subseteq {<<"lost", "b1">>} /\ NoEmptyStage)
    => <>(cpc = "printed" /\ cl.known = 1 .. 4)
=============================================================================
